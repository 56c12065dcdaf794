---------------------------- MODULE ForkJoinProofs ----------------------------
(***************************************************************************)
(* The inductive invariant of ForkJoin, for every program, every team and  *)
(* every size of the queues, and what follows from it: the types, that     *)
(* each node counts the pointers to it, that nothing is used after it is   *)
(* gone, and that a proxy, which is pushed twice, is run once and deleted  *)
(* by the last to leave it.                                                *)
(*                                                                         *)
(* What is counted are places: an element of a queue or a frame of a stack *)
(* is <<thread, index>>, and Count(f, A) is how many of them hold a member *)
(* of A.  A step moves frames and queue elements one at a time, so that it *)
(* changes each count by what the frame that goes on, the frame it calls   *)
(* and the task that is pushed or taken count for.                         *)
(*                                                                         *)
(* One lemma for each action, named after it: XKeeps says that X keeps the *)
(* invariant.  Births is what they share when a task is made, Passes and   *)
(* FoundRuns when one goes on or is found, Settles when one ends.          *)
(***************************************************************************)
EXTENDS ForkJoin, OperatorProofs, FiniteSetTheorems, SequenceTheorems,
        WellFoundedInduction, TLAPS

-----------------------------------------------------------------------------
(* Counting the elements of the queues and of the stacks.                  *)

Item(f, x) == f[x[1]][x[2]]
Among(f, A) == {x \in Places(f) : Item(f, x) \in A}
Count(f, A) == Cardinality(Among(f, A))
In(e, A) == IF e \in A THEN 1 ELSE 0

\* Sequences over X, one for each member of P, and what becomes of the p-th.
Rows(P, X, f) == IsFiniteSet(P) /\ f \in [P -> Seq(X)]
Changed(P, f, g, p, s) == p \in P /\ g[p] = s /\ \A q \in P : q # p => g[q] = f[q]
Longer(P, f, g, p, e) == Changed(P, f, g, p, Append(f[p], e))
Shorter(P, f, g, p) == f[p] # <<>> /\ Changed(P, f, g, p, Front(f[p]))
Popped(P, f, g, p) == f[p] # <<>> /\ Changed(P, f, g, p, Tail(f[p]))
End(f, p) == <<p, Len(f[p])>>

LEMMA FrontLast == ASSUME NEW X, NEW s \in Seq(X), s # <<>>
  PROVE /\ Front(s) \in Seq(X) /\ Last(s) \in X /\ Len(Front(s)) = Len(s) - 1
        /\ Last(s) = s[Len(s)] /\ Len(s) \in Nat \ {0}
        /\ \A i \in 1 .. Len(s) - 1 : Front(s)[i] = s[i]
<1>0. Len(s) \in Nat /\ Len(s) >= 1
  <2>1. Len(s) \in Nat /\ Len(s) # 0
    BY EmptySeq, LenProperties
  <2> QED BY <2>1
<1>1. Len(s) \in Nat \ {0} /\ \A i \in 1 .. Len(s) : s[i] \in X
  BY EmptySeq, LenProperties, ElementOfSeq
<1>2. \A i \in 1 .. Len(s) - 1 : s[i] \in X
  BY <1>1
<1>3. /\ SubSeq(s, 1, Len(s) - 1) \in Seq(X)
      /\ Len(SubSeq(s, 1, Len(s) - 1)) = IF 1 <= Len(s) - 1 THEN Len(s) - 1 - 1 + 1 ELSE 0
      /\ \A i \in 1 .. Len(s) - 1 - 1 + 1 : SubSeq(s, 1, Len(s) - 1)[i] = s[1 + i - 1]
  <2>1. 1 \in Int /\ Len(s) - 1 \in Int
    BY <1>1
  <2> QED BY ONLY <1>2, <2>1, SubSeqProperties
<1>4. Len(Front(s)) = Len(s) - 1
  <2>1. Front(s) = SubSeq(s, 1, Len(s) - 1)
    BY DEF Front
  <2>2. CASE Len(s) = 1
    BY <1>3, <2>1, <2>2
  <2>3. CASE Len(s) >= 2
    BY <1>0, <1>3, <2>1, <2>3
  <2>4. Len(s) = 1 \/ Len(s) >= 2
    <3>1. \A n \in Nat : n >= 1 => n = 1 \/ n >= 2
      OBVIOUS
    <3> QED BY ONLY <1>0, <3>1
  <2> QED BY <2>2, <2>3, <2>4
<1>5. ASSUME NEW i \in 1 .. Len(s) - 1 PROVE Front(s)[i] = s[i]
  <2>1. i \in 1 .. Len(s) - 1 - 1 + 1 /\ 1 + i - 1 = i
    BY <1>1
  <2> QED BY <1>3, <2>1 DEF Front
<1> QED BY <1>1, <1>3, <1>4, <1>5 DEF Front, Last

LEMMA PlaceOf == ASSUME NEW P, NEW X, NEW f \in [P -> Seq(X)], NEW x
  PROVE x \in Places(f) <=> \E p \in P : \E k \in 1 .. Len(f[p]) : x = <<p, k>>
BY DEF Places

LEMMA PlacesFinite == ASSUME NEW P, NEW X, NEW f \in [P -> Seq(X)], IsFiniteSet(P)
  PROVE  IsFiniteSet(Places(f))
<1> DEFINE Row(p) == {<<p, k>> : k \in DOMAIN f[p]}
           Lines == {Row(p) : p \in P}
<1>1. ASSUME NEW p \in P PROVE IsFiniteSet(Row(p))
  <2> DEFINE g == [k \in 1 .. Len(f[p]) |-> <<p, k>>]
  <2>1. IsFiniteSet(1 .. Len(f[p]))
    BY FS_Interval
  <2>2. DOMAIN f[p] = 1 .. Len(f[p])
    OBVIOUS
  <2>3. g \in Surjection(1 .. Len(f[p]), Row(p))
    BY <2>2 DEF Surjection
  <2> HIDE DEF g, Row
  <2> QED BY <2>1, <2>3, FS_Surjection
<1>2. IsFiniteSet(Lines)
  <2> DEFINE g == [p \in P |-> Row(p)]
  <2> HIDE DEF Row
  <2>1. g \in Surjection(P, Lines)
    BY DEF Surjection
  <2> HIDE DEF g, Lines
  <2> QED BY <2>1, FS_Surjection
<1>3. Places(f) = UNION Lines
  BY DEF Places
<1> HIDE DEF Row
<1>4. \A T \in Lines : IsFiniteSet(T)
  BY <1>1
<1> HIDE DEF Lines
<1> QED BY <1>2, <1>3, <1>4, FS_UNION

LEMMA AmongFinite == ASSUME NEW P, NEW X, NEW f \in [P -> Seq(X)], IsFiniteSet(P), NEW A
  PROVE  IsFiniteSet(Among(f, A)) /\ Count(f, A) \in Nat
<1>1. IsFiniteSet(Places(f)) /\ Among(f, A) \subseteq Places(f)
  BY PlacesFinite DEF Among
<1> QED BY <1>1, FS_Subset, FS_CardinalityType DEF Count

LEMMA CountType == ASSUME NEW P, NEW X, NEW f, Rows(P, X, f), NEW A
                   PROVE  IsFiniteSet(Among(f, A)) /\ Count(f, A) \in Nat
BY AmongFinite DEF Rows

LEMMA PlacesAppend ==
  ASSUME NEW P, NEW X, NEW f, Rows(P, X, f), NEW p, NEW e \in X,
         NEW g, Rows(P, X, g), Longer(P, f, g, p, e)
  PROVE  /\ Places(g) = Places(f) \cup {End(g, p)}
         /\ \A x \in Places(f) : x # End(g, p) /\ Item(g, x) = Item(f, x)
         /\ Item(g, End(g, p)) = e
<1> DEFINE n == Len(f[p]) + 1
<1>0. /\ IsFiniteSet(P) /\ p \in P /\ f \in [P -> Seq(X)]
      /\ g \in [P -> Seq(X)] /\ g[p] = Append(f[p], e) /\ \A q \in P : q # p => g[q] = f[q]
  BY DEF Rows, Changed, Longer
<1>1. /\ Len(g[p]) = n /\ g[p][n] = e /\ Len(f[p]) \in Nat /\ n \in Nat
      /\ \A i \in 1 .. Len(f[p]) : g[p][i] = f[p][i]
  BY <1>0, AppendProperties, LenProperties
<1>10. End(g, p) = <<p, n>>
  BY <1>1 DEF End
<1>2. ASSUME NEW x PROVE x \in Places(g) <=> x \in Places(f) \/ x = <<p, n>>
  <2>1. x \in Places(f) <=> \E q \in P : \E k \in 1 .. Len(f[q]) : x = <<q, k>>
    BY <1>0, PlaceOf
  <2>2. x \in Places(g) <=> \E q \in P : \E k \in 1 .. Len(g[q]) : x = <<q, k>>
    <3>1. g \in [P -> Seq(X)]
      BY <1>0
    <3> HIDE DEF n
    <3> QED BY ONLY <3>1 DEF Places
  <2>3. 1 .. Len(g[p]) = (1 .. Len(f[p])) \cup {n}
    BY <1>1
  <2> HIDE DEF n
  <2> QED BY <1>0, <2>1, <2>2, <2>3
<1>3. ASSUME NEW x \in Places(f) PROVE x # <<p, n>> /\ Item(g, x) = Item(f, x)
  <2>1. PICK q \in P : \E k \in 1 .. Len(f[q]) : x = <<q, k>>
    BY <1>0, PlaceOf
  <2>2. PICK k \in 1 .. Len(f[q]) : x = <<q, k>>
    BY <2>1
  <2>3. Item(g, x) = Item(f, x)
    <3>1. g[q][k] = f[q][k] /\ x[1] = q /\ x[2] = k
      BY <1>0, <1>1, <2>2
    <3> QED BY <3>1 DEF Item
  <2>4. <<q, k>> # <<p, n>>
    <3>1. q = p => k # n
      BY <1>1
    <3> HIDE DEF n
    <3> QED BY <3>1
  <2> QED BY <2>2, <2>3, <2>4
<1>4. Places(g) = Places(f) \cup {<<p, n>>} /\ Item(g, <<p, n>>) = e
  <2>1. g[<<p, n>>[1]][<<p, n>>[2]] = e
    BY <1>1
  <2> QED BY <1>2, <2>1 DEF Item
<1> HIDE DEF n
<1> QED BY <1>10, <1>3, <1>4

LEMMA CountAppend ==
  ASSUME NEW P, NEW X, NEW f, Rows(P, X, f), NEW A, NEW p, NEW e \in X,
         NEW g, Rows(P, X, g), Longer(P, f, g, p, e)
  PROVE  Count(g, A) = Count(f, A) + In(e, A)
<1> DEFINE end == End(g, p)
<1>1. /\ Places(g) = Places(f) \cup {end} /\ Item(g, end) = e
      /\ \A x \in Places(f) : x # end /\ Item(g, x) = Item(f, x)
  BY PlacesAppend
<1> HIDE DEF end
<1>2. Among(g, A) = Among(f, A) \cup (IF e \in A THEN {end} ELSE {})
  BY <1>1 DEF Among
<1>3. end \notin Among(f, A)
  BY <1>1 DEF Among
<1>4. IsFiniteSet(Among(f, A)) /\ Count(f, A) \in Nat
  BY CountType
<1>5. CASE e \in A
  BY <1>2, <1>3, <1>4, <1>5, FS_AddElement DEF Count, In
<1>6. CASE e \notin A
  <2>1. Among(g, A) = Among(f, A)
    BY <1>2, <1>6
  <2> QED BY <1>4, <1>6, <2>1 DEF Count, In
<1> QED BY <1>5, <1>6

\* The other way round: f is g with one more element.
LEMMA FrontAppend ==
  ASSUME NEW P, NEW X, NEW f, Rows(P, X, f), NEW p, NEW g, Rows(P, X, g), Shorter(P, f, g, p)
  PROVE  Longer(P, g, f, p, Last(f[p])) /\ Last(f[p]) \in X
<1>1. /\ IsFiniteSet(P) /\ p \in P /\ f \in [P -> Seq(X)] /\ f[p] # <<>>
      /\ g \in [P -> Seq(X)] /\ g[p] = Front(f[p]) /\ \A q \in P : q # p => g[q] = f[q]
  BY DEF Rows, Changed, Shorter
<1>2. /\ Front(f[p]) \in Seq(X) /\ Last(f[p]) \in X /\ Len(Front(f[p])) = Len(f[p]) - 1
      /\ Last(f[p]) = f[p][Len(f[p])] /\ Len(f[p]) \in Nat \ {0}
      /\ \A i \in 1 .. Len(f[p]) - 1 : Front(f[p])[i] = f[p][i]
  <2>1. PICK s \in Seq(X) : s = f[p] /\ s # <<>>
    BY ONLY <1>1
  <2>2. /\ Front(s) \in Seq(X) /\ Last(s) \in X /\ Len(Front(s)) = Len(s) - 1
        /\ Last(s) = s[Len(s)] /\ Len(s) \in Nat \ {0}
        /\ \A i \in 1 .. Len(s) - 1 : Front(s)[i] = s[i]
    BY ONLY <2>1, FrontLast
  <2> QED BY ONLY <2>1, <2>2
<1>3. Append(g[p], Last(f[p])) = f[p]
  <2>1. /\ Append(g[p], Last(f[p])) \in Seq(X)
        /\ Len(Append(g[p], Last(f[p]))) = Len(g[p]) + 1
        /\ \A i \in 1 .. Len(g[p]) : Append(g[p], Last(f[p]))[i] = g[p][i]
        /\ Append(g[p], Last(f[p]))[Len(g[p]) + 1] = Last(f[p])
    BY <1>1, <1>2, AppendProperties
  <2>2. Len(Append(g[p], Last(f[p]))) = Len(f[p])
    BY <1>1, <1>2, <2>1
  <2>3. \A i \in 1 .. Len(f[p]) : Append(g[p], Last(f[p]))[i] = f[p][i]
    BY <1>1, <1>2, <2>1
  <2>4. f[p] \in Seq(X)
    BY <1>1
  <2> QED BY <2>1, <2>2, <2>3, <2>4, SeqEqual
<1> QED BY <1>1, <1>2, <1>3 DEF Changed, Longer

LEMMA PlacesFront ==
  ASSUME NEW P, NEW X, NEW f, Rows(P, X, f), NEW p, NEW g, Rows(P, X, g), Shorter(P, f, g, p)
  PROVE  /\ Places(f) = Places(g) \cup {End(f, p)}
         /\ \A x \in Places(g) : x # End(f, p) /\ Item(g, x) = Item(f, x)
<1>1. Longer(P, g, f, p, Last(f[p])) /\ Last(f[p]) \in X
  BY FrontAppend
<1> QED BY <1>1, PlacesAppend

LEMMA CountFront ==
  ASSUME NEW P, NEW X, NEW f, Rows(P, X, f), NEW A, NEW p,
         NEW g, Rows(P, X, g), Shorter(P, f, g, p)
  PROVE  Count(f, A) = Count(g, A) + In(Last(f[p]), A)
<1>1. Longer(P, g, f, p, Last(f[p])) /\ Last(f[p]) \in X
  BY FrontAppend
<1> QED BY <1>1, CountAppend

LEMMA CountTail ==
  ASSUME NEW P, NEW X, NEW f, Rows(P, X, f), NEW A, NEW p,
         NEW g, Rows(P, X, g), Popped(P, f, g, p)
  PROVE  /\ Head(f[p]) \in X
         /\ Count(f, A) = Count(g, A) + In(Head(f[p]), A)
<1>2. /\ IsFiniteSet(P) /\ p \in P /\ f \in [P -> Seq(X)] /\ f[p] # <<>>
      /\ g \in [P -> Seq(X)] /\ g[p] = Tail(f[p]) /\ \A q \in P : q # p => g[q] = f[q]
  BY DEF Rows, Changed, Popped
<1>0. /\ Head(f[p]) \in X /\ Tail(f[p]) \in Seq(X) /\ Len(Tail(f[p])) = Len(f[p]) - 1
      /\ \A i \in 1 .. Len(Tail(f[p])) : Tail(f[p])[i] = f[p][i + 1]
  BY <1>2, HeadTailProperties
<1>1. Len(f[p]) \in Nat /\ Len(f[p]) >= 1 /\ Head(f[p]) = f[p][1]
  <2>1. Len(f[p]) \in Nat /\ Len(f[p]) # 0
    BY <1>2, EmptySeq, LenProperties
  <2> QED BY <2>1
<1>3. Len(g[p]) = Len(f[p]) - 1 /\ \A i \in 1 .. Len(f[p]) - 1 : g[p][i] = f[p][i + 1]
  BY <1>0, <1>2
<1>4. /\ IsFiniteSet(Among(f, A)) /\ Count(f, A) \in Nat
      /\ IsFiniteSet(Among(g, A)) /\ Count(g, A) \in Nat
  BY <1>2, AmongFinite
<1>5. ASSUME NEW x
      PROVE  /\ x \in Among(f, A) <=> \E q \in P : \E k \in 1 .. Len(f[q]) : x = <<q, k>> /\ f[q][k] \in A
             /\ x \in Among(g, A) <=> \E q \in P : \E k \in 1 .. Len(g[q]) : x = <<q, k>> /\ g[q][k] \in A
  <2>1. /\ x \in Among(f, A) <=> \E q \in P : \E k \in DOMAIN f[q] : x = <<q, k>> /\ f[q][k] \in A
        /\ x \in Among(g, A) <=> \E q \in P : \E k \in DOMAIN g[q] : x = <<q, k>> /\ g[q][k] \in A
    BY <1>2 DEF Among, Places, Item
  <2>2. \A q \in P : DOMAIN f[q] = 1 .. Len(f[q]) /\ DOMAIN g[q] = 1 .. Len(g[q])
    BY <1>2
  <2> QED BY <2>1, <2>2
<1> DEFINE S == Among(g, A)
           T == Among(f, A) \ {<<p, 1>>}
           h == [x \in S |-> IF x[1] = p THEN <<p, x[2] + 1>> ELSE x]
<1>6. ASSUME NEW x \in S PROVE h[x] \in T
  <2>0. PICK q \in P : \E k \in 1 .. Len(g[q]) : x = <<q, k>> /\ g[q][k] \in A
    BY <1>5
  <2>1. PICK k \in 1 .. Len(g[q]) : x = <<q, k>> /\ g[q][k] \in A
    BY <2>0
  <2>2. CASE q = p
    <3>1. k \in Nat /\ k >= 1 /\ k + 1 \in 1 .. Len(f[p]) /\ f[p][k + 1] \in A /\ k + 1 # 1
      BY <1>1, <1>3, <2>1, <2>2
    <3>2. h[x] = <<p, k + 1>>
      BY <2>1, <2>2
    <3>3. <<p, k + 1>> \in Among(f, A)
      BY <1>2, <1>5, <3>1
    <3>4. <<p, k + 1>> # <<p, 1>>
      BY <3>1
    <3> HIDE DEF h
    <3> QED BY <3>2, <3>3, <3>4
  <2>3. CASE q # p
    <3>1. h[x] = <<q, k>> /\ k \in 1 .. Len(f[q]) /\ f[q][k] \in A
      BY <1>2, <2>1, <2>3
    <3> HIDE DEF h
    <3> QED BY <1>5, <2>3, <3>1
  <2> QED BY <2>2, <2>3
<1>7. ASSUME NEW x \in S, NEW y \in S, h[x] = h[y] PROVE x = y
  <2>0. PICK q \in P : \E k \in 1 .. Len(g[q]) : x = <<q, k>>
    BY <1>5
  <2>1. PICK k \in 1 .. Len(g[q]) : x = <<q, k>>
    BY <2>0
  <2>20. PICK r \in P : \E l \in 1 .. Len(g[r]) : y = <<r, l>>
    BY <1>5
  <2>2. PICK l \in 1 .. Len(g[r]) : y = <<r, l>>
    BY <2>20
  <2>3. /\ h[x] = IF q = p THEN <<p, k + 1>> ELSE <<q, k>>
        /\ h[y] = IF r = p THEN <<p, l + 1>> ELSE <<r, l>>
    BY <2>1, <2>2
  <2>4. q = r
    BY <1>7, <2>3
  <2>5. CASE q = p
    <3>1. k + 1 = l + 1 /\ k \in Int /\ l \in Int
      BY <1>7, <2>3, <2>4, <2>5
    <3> QED BY <2>1, <2>2, <2>4, <3>1
  <2>6. CASE q # p
    BY <1>7, <2>1, <2>2, <2>3, <2>4, <2>6
  <2> QED BY <2>5, <2>6
<1>8. ASSUME NEW y \in T PROVE \E x \in S : h[x] = y
  <2>0. PICK q \in P : \E k \in 1 .. Len(f[q]) : y = <<q, k>> /\ f[q][k] \in A
    BY <1>5
  <2>1. PICK k \in 1 .. Len(f[q]) : y = <<q, k>> /\ f[q][k] \in A
    BY <2>0
  <2>2. CASE q = p
    <3>1. k # 1 /\ k - 1 \in 1 .. Len(g[p]) /\ k - 1 + 1 = k
      BY <1>1, <1>3, <2>1, <2>2
    <3>2. g[p][k - 1] = f[p][k]
      BY <1>3, <3>1
    <3>3. <<p, k - 1>> \in S
      BY <1>5, <2>1, <2>2, <3>1, <3>2
    <3>4. h[<<p, k - 1>>] = <<p, k>>
      BY <3>1, <3>3
    <3> QED BY <2>1, <2>2, <3>3, <3>4
  <2>3. CASE q # p
    <3>1. <<q, k>> \in S
      BY <1>2, <1>5, <2>1, <2>3
    <3>2. h[<<q, k>>] = <<q, k>>
      BY <2>3, <3>1
    <3> QED BY <2>1, <3>1, <3>2
  <2> QED BY <2>2, <2>3
<1>9. Cardinality(T) = Cardinality(S)
  <2>1. h \in [S -> T]
    BY <1>6
  <2> HIDE DEF h, S, T
  <2>2. h \in Injection(S, T) /\ h \in Surjection(S, T)
    BY <1>7, <1>8, <2>1 DEF Injection, Surjection, IsInjective
  <2>3. IsFiniteSet(T)
    <3>1. IsFiniteSet(Among(f, A)) /\ T \subseteq Among(f, A)
      BY <1>4 DEF T
    <3> QED BY <3>1, FS_Subset
  <2>4. Cardinality(S) = Cardinality(T) <=> h \in Surjection(S, T)
    BY ONLY <2>2, <2>3, FS_Injection
  <2> QED BY ONLY <2>2, <2>4
<1>10. <<p, 1>> \in Among(f, A) <=> Head(f[p]) \in A
  <2>1. 1 \in 1 .. Len(f[p])
    BY <1>1
  <2>2. <<p, 1>> \in Among(f, A) <=>
          \E q \in P : \E k \in 1 .. Len(f[q]) : <<p, 1>> = <<q, k>> /\ f[q][k] \in A
    BY <1>5
  <2> QED BY <1>1, <1>2, <2>1, <2>2
<1>11. Cardinality(T) = IF Head(f[p]) \in A THEN Count(f, A) - 1 ELSE Count(f, A)
  BY <1>4, <1>10, FS_RemoveElement DEF Count
<1> HIDE DEF S, T
<1>12. Count(f, A) = Count(g, A) + In(Head(f[p]), A)
  BY <1>4, <1>9, <1>11 DEF In, Count, S
<1> QED BY <1>0, <1>2, <1>12

-----------------------------------------------------------------------------
(* The inductive invariant.                                                *)

Kinds == {"root", "inner", "proxy", "unique", "pin"}
TaskSet ==
  [kind : Kinds, loop : Nat, from : Nat, to : Nat, lo : Nat, hi : Nat, grain : Nat \ {0},
   share : BOOLEAN, span : BOOLEAN, state : Nat, holds : BOOLEAN]
NodeSet == [parent : Nat, count : Nat]

LoopLabels == {"join", "pop", "mail", "steal", "rob"}
TaskLabels == InTask \cup {"enter", "leave", "to_pin", "pinned", "gather"}
TaskFrames == [at : TaskLabels, id : Nat \ {0}, todo : Seq(PartSet), ptr : Nat]
LoopFrames ==
  [at : LoopLabels, id : Nat, empty : BOOLEAN, left : Nat, victim : Nat, inc : Nat]
MainFrames == [at : {"main"}, id : {0}, calls : Nat]
PinFrames == [at : {"pin", "gather"}, id : {0}, next : Nat]
FrameSet == TaskFrames \cup LoopFrames \cup MainFrames \cup PinFrames

Shape ==
  /\ stack \in [Procs -> Seq(FrameSet)]
  /\ local \in [Pool -> Seq(Nat \ {0})] /\ mail \in [Pool -> Seq(Nat \ {0})]
  /\ task \in Seq(TaskSet) /\ node \in Seq(NodeSet) /\ Len(node) = Len(task)
  /\ deleted \subseteq DOMAIN task
  /\ plan \in Plans

\* What the frame f of thread p has been called for, and has room for.
FrameOK(p, f) ==
  /\ f.id \in 0 .. Len(task)
  /\ f.at \in InTask => task[f.id].kind # "pin"
  /\ f.at \in {"enter", "leave"} => task[f.id].kind = "proxy"
  /\ f.at \in {"to_pin", "pinned"} => task[f.id].kind = "pin"
  /\ f.at = "gather" /\ f.id # 0 => task[f.id].kind = "pin"
  /\ f.at \in LoopLabels /\ f.id # 0 => IsLoop(f.id)
  /\ f.at = "join" => f.id # 0
  /\ f.at \in LoopLabels \ {"join"} => p \in Pool
  /\ f.at \in LoopLabels => f.victim \in Pool /\ f.inc <= N
  /\ f.at = "rob" => f.left > 0
  /\ f.at \in {"hand", "self"} => f.todo # <<>>
  /\ f.at = "self" => f.ptr \in DOMAIN task /\ task[f.ptr].kind = "proxy"
  /\ f.at = "release" => f.ptr \in DOMAIN task
  /\ f.at = "pin" => f.next \in 1 .. N

\* What a frame has yet to do with its own task.
Busy(f) ==
  /\ f.at \in InTask \ {"release"} => task[f.id].holds
  /\ f.at \in Bodies => task[f.id].from < task[f.id].to
FramesOK == \A x \in Frames : FrameOK(x[1], Frame(x)) /\ Busy(Frame(x))

Gone(id) == id \in deleted
TaskOK(t) == t.from <= t.to /\ (t.share => t.lo < t.hi)
Rootless(id) == task[id].kind \in {"root", "inner", "pin"}
TasksOK == \A id \in DOMAIN task :
  /\ TaskOK(task[id])
  /\ node[id].parent < id /\ (node[id].parent = NoTask <=> Rootless(id))
  /\ task[id].kind = "pin" \/ (IsLoop(id) /\ Gone(id)) => node[id].count = 0

\* The places of a task: the elements of the queues, and the frames, counted.
Entering(id) == {f \in FrameSet : f.at = "enter" /\ f.id = id}
Handing(id) == {f \in FrameSet : f.at = "self" /\ f.ptr = id}
Runs(id) == {f \in FrameSet : f.at # "enter" /\ f.id = id}
Dropping(n) == {f \in FrameSet : f.at = "release" /\ f.ptr = n}
Gathering(id) == {f \in FrameSet : f.at = "gather" /\ f.id = id}

InQueues(id) == Count(local, {id}) + Count(mail, {id})
Carried(id) == Count(stack, Entering(id)) + Count(stack, Handing(id))
Mentioned(id) == InQueues(id) + Carried(id)
Ran(id) == Count(stack, Runs(id))
Dropped(n) == Count(stack, Dropping(n))
Gathered(id) == Count(stack, Gathering(id))
Pinners == Count(stack, PinFrames)

\* A task is where it can be run until it has run; the two pointers to a proxy
\* and the end of its function are what its state counts.
Proxy(s, mentioned, running, gone) ==
  /\ \/ s = 0 /\ running = 0 /\ mentioned = 2
     \/ s = 1 /\ running = 1 /\ mentioned = 1
     \/ s = 2 /\ running = 1 /\ mentioned = 0
     \/ s = 2 /\ running = 0 /\ mentioned = 1
     \/ s = 3 /\ running = 0 /\ mentioned = 0
  /\ gone <=> s = 3
Waiting(id) == \/ task[id].kind = "unique" /\ Mentioned(id) > 0
               \/ task[id].kind = "proxy" /\ task[id].state = 0
Life(id) ==
  /\ IsLoop(id) => Mentioned(id) = 0 /\ Ran(id) = IF Gone(id) THEN 0 ELSE 1
  /\ task[id].kind \in {"unique", "pin"} => Mentioned(id) + Ran(id) = IF Gone(id) THEN 0 ELSE 1
  /\ task[id].kind = "proxy" => Proxy(task[id].state, Mentioned(id), Ran(id), Gone(id))
  /\ Waiting(id) => task[id].holds
Unborn(id) == Mentioned(id) = 0 /\ Ran(id) = 0 /\ Dropped(id) = 0
LifeAt(id) == IF id \in DOMAIN task THEN Life(id) ELSE Unborn(id)
Lives == \A id \in Nat \ {0} : LifeAt(id)

Children(n) == {c \in DOMAIN node : node[c].parent = n /\ node[c].count > 0}
Held(n) == IF task[n].holds THEN 1 ELSE 0
Owned(n) == IF IsLoop(n) /\ ~Gone(n) THEN 1 ELSE 0
RefsAt(n) == node[n].count = Cardinality(Children(n)) + Dropped(n) + Held(n) + Owned(n)
Refs == \A n \in DOMAIN node : RefsAt(n)

\* EigenPinner: the tasks that keep its barrier, and those still awaited.
PinTasks == {id \in DOMAIN task : task[id].kind = "pin"}
Noted(id) == Gone(id) \/ Gathered(id) > 0
Absent == {i \in 1 .. N - 1 : ~ \E id \in PinTasks : task[id].from = i /\ Noted(id)}
Pins ==
  /\ barrier \in [remain : Int, refs : Int]
  /\ Pinners <= 1
  /\ barrier.refs >= Cardinality(PinTasks \ deleted) + Pinners
  /\ barrier.remain = Cardinality(Absent)
  /\ \A id \in PinTasks : task[id].from \in 1 .. N - 1
  /\ \A i, k \in PinTasks : task[i].from = task[k].from => i = k
  /\ \A x \in Frames : Frame(x).at = "pin" => \A id \in PinTasks : task[id].from < Frame(x).next

Bounds ==
  /\ \A q \in Pool : Len(local[q]) <= QueueCap /\ Len(mail[q]) <= MailCap
  /\ done \in BOOLEAN /\ cpus \in [Pool -> SUBSET (0 .. N - 1)]

IInv == Shape /\ FramesOK /\ TasksOK /\ Lives /\ Refs /\ Pins /\ Bounds

-----------------------------------------------------------------------------
(* What one step does to the stacks and to the queues.                     *)

LEMMA Team == IsFiniteSet(Procs) /\ IsFiniteSet(Pool) /\ Pool \subseteq Procs /\ 0 \in Pool
<1>1. IsFiniteSet(Pool) /\ 0 \in Pool
  <2>1. N \in Nat \ {0} /\ N - 1 \in Int /\ 0 \in Int
    BY ShapeAssumption
  <2> QED BY <2>1, FS_Interval DEF Pool
<1>2. IsFiniteSet(Outsiders)
  BY ShapeAssumption
<1>3. IsFiniteSet(Pool \cup Outsiders)
  BY ONLY <1>1, <1>2, FS_Union
<1> QED BY <1>1, <1>3 DEF Procs

\* Thread p stops at its running frame and goes on as f and g: no frame at all,
\* or one, or two.
Nil == [at |-> "none", id |-> NoTask, ptr |-> NoTask]
Moved(p, f, g) ==
  /\ stack' \in [Procs -> Seq(FrameSet)]
  /\ f \in FrameSet \cup {Nil} /\ g \in FrameSet \cup {Nil}
  /\ \A A \in SUBSET FrameSet :
       /\ Count(stack, A) \in Nat /\ Count(stack', A) \in Nat
       /\ Count(stack', A) + In(Top(p), A) = Count(stack, A) + In(f, A) + In(g, A)
  /\ \A x \in Frames' :
       \/ x \in Frames /\ x # End(stack, p) /\ Frame(x)' = Frame(x)
       \/ x[1] = p /\ Frame(x)' # Nil /\ (Frame(x)' = f \/ Frame(x)' = g)

LEMMA NilIsNone == Nil \notin FrameSet /\ \A A \in SUBSET FrameSet : In(Nil, A) = 0
<1>1. Nil \notin FrameSet
  BY DEF Nil, FrameSet, TaskFrames, LoopFrames, MainFrames, PinFrames, TaskLabels, InTask, LoopLabels
<1> QED BY <1>1 DEF In

LEMMA StackRows == ASSUME Shape PROVE Rows(Procs, FrameSet, stack) /\ stack \in [Procs -> Seq(FrameSet)]
BY Team DEF Shape, Rows

LEMMA TopFrame == ASSUME Shape, NEW p \in Procs, stack[p] # <<>>
                  PROVE  End(stack, p) \in Frames /\ Frame(End(stack, p)) = Top(p) /\ Top(p) \in FrameSet
<1>1. /\ Last(stack[p]) \in FrameSet /\ Last(stack[p]) = stack[p][Len(stack[p])]
      /\ Len(stack[p]) \in Nat \ {0}
  BY FrontLast DEF Shape
<1>2. Len(stack[p]) \in 1 .. Len(stack[p])
  BY <1>1
<1>3. End(stack, p) \in Places(stack)
  BY <1>2, PlaceOf DEF End, Shape
<1> QED BY <1>1, <1>3 DEF Frames, Frame, Top, End

LEMMA FrameIn == ASSUME Shape, NEW x \in Frames
                 PROVE  x[1] \in Procs /\ Frame(x) \in FrameSet
<1>0. stack \in [Procs -> Seq(FrameSet)]
  BY DEF Shape
<1>1. PICK p \in Procs : \E k \in 1 .. Len(stack[p]) : x = <<p, k>>
  BY <1>0, PlaceOf DEF Frames
<1>2. PICK k \in 1 .. Len(stack[p]) : x = <<p, k>>
  BY <1>1
<1>3. stack[p][k] \in FrameSet
  BY <1>0, <1>2, ElementOfSeq
<1> QED BY <1>2, <1>3 DEF Frame

\* The stacks without the running frame of p.
Without(p) == [stack EXCEPT ![p] = Front(stack[p])]

LEMMA RestRows ==
  ASSUME Shape, NEW p \in Procs, stack[p] # <<>>
  PROVE  /\ Rows(Procs, FrameSet, Without(p)) /\ Shorter(Procs, stack, Without(p), p)
         /\ Without(p) \in [Procs -> Seq(FrameSet)] /\ Without(p)[p] = Front(stack[p])
         /\ \A q \in Procs : q # p => Without(p)[q] = stack[q]
<1>1. stack \in [Procs -> Seq(FrameSet)] /\ Front(stack[p]) \in Seq(FrameSet)
  BY FrontLast DEF Shape
<1> QED BY <1>1, Team DEF Rows, Shorter, Changed, Without

LEMMA RestFrames ==
  ASSUME Shape, NEW p \in Procs, stack[p] # <<>>
  PROVE  /\ \A x \in Places(Without(p)) : /\ x \in Frames /\ x # End(stack, p)
                                        /\ Item(Without(p), x) = Frame(x)
         /\ \A A : /\ Count(stack, A) \in Nat /\ Count(Without(p), A) \in Nat
                   /\ Count(stack, A) = Count(Without(p), A) + In(Top(p), A)
<1>1. /\ Rows(Procs, FrameSet, stack) /\ Rows(Procs, FrameSet, Without(p))
      /\ Shorter(Procs, stack, Without(p), p)
  BY StackRows, RestRows
<1>2. /\ Places(stack) = Places(Without(p)) \cup {End(stack, p)}
      /\ \A x \in Places(Without(p)) : x # End(stack, p) /\ Item(stack, x) = Item(Without(p), x)
  BY <1>1, PlacesFront
<1>3. ASSUME NEW A
      PROVE  /\ Count(stack, A) \in Nat /\ Count(Without(p), A) \in Nat
             /\ Count(stack, A) = Count(Without(p), A) + In(Last(stack[p]), A)
  BY ONLY <1>1, CountType, CountFront, <1>3
<1> QED BY <1>2, <1>3 DEF Frames, Frame, Item, Top

LEMMA LeavesMoves == ASSUME Shape, NEW p \in Procs, stack[p] # <<>>, Leaves(p)
                     PROVE  Moved(p, Nil, Nil)
<1>1. stack' = Without(p)
  BY DEF Leaves, Replace, Without
<1>2. stack' \in [Procs -> Seq(FrameSet)]
  BY <1>1, RestRows
<1>3. ASSUME NEW A \in SUBSET FrameSet
      PROVE  /\ Count(stack, A) \in Nat /\ Count(stack', A) \in Nat
             /\ Count(stack', A) + In(Top(p), A) = Count(stack, A) + In(Nil, A) + In(Nil, A)
  <2>1. In(Nil, A) = 0
    BY NilIsNone
  <2>2. /\ Count(stack, A) \in Nat /\ Count(stack', A) \in Nat
        /\ Count(stack, A) = Count(stack', A) + In(Top(p), A)
    BY <1>1, RestFrames
  <2> QED BY <2>1, <2>2
<1>4. ASSUME NEW x \in Frames' PROVE x \in Frames /\ x # End(stack, p) /\ Frame(x)' = Frame(x)
  BY <1>1, RestFrames DEF Frames, Frame, Item
<1> QED BY <1>2, <1>3, <1>4 DEF Moved

LEMMA BecomesMoves ==
  ASSUME Shape, NEW p \in Procs, stack[p] # <<>>, NEW f \in FrameSet, Becomes(p, f, <<>>)
  PROVE  Moved(p, f, Nil)
<1>1. Front(stack[p]) \in Seq(FrameSet) /\ stack \in [Procs -> Seq(FrameSet)]
  BY FrontLast, StackRows
<1>2. stack' = [stack EXCEPT ![p] = Append(Front(stack[p]), f)]
  <2>1. Append(Front(stack[p]), f) \o <<>> = Append(Front(stack[p]), f)
    BY <1>1, AppendProperties, ConcatEmptySeq
  <2> QED BY <2>1 DEF Becomes, Replace
<1>3. /\ stack' \in [Procs -> Seq(FrameSet)] /\ Rows(Procs, FrameSet, stack')
      /\ Longer(Procs, Without(p), stack', p, f)
  <2>1. Append(Front(stack[p]), f) \in Seq(FrameSet)
    BY <1>1, AppendProperties
  <2>2. stack' \in [Procs -> Seq(FrameSet)]
    BY <1>1, <1>2, <2>1
  <2>3. stack'[p] = Append(Without(p)[p], f) /\ \A q \in Procs : q # p => stack'[q] = Without(p)[q]
    BY <1>1, <1>2, RestRows
  <2> QED BY <2>2, <2>3, Team DEF Rows, Longer, Changed
<1>4. Rows(Procs, FrameSet, Without(p)) /\ f \in FrameSet
  BY RestRows
<1>5. /\ Places(stack') = Places(Without(p)) \cup {End(stack', p)}
      /\ \A x \in Places(Without(p)) : Item(stack', x) = Item(Without(p), x)
      /\ Item(stack', End(stack', p)) = f
  <2>1. Rows(Procs, FrameSet, stack') /\ Longer(Procs, Without(p), stack', p, f)
    BY <1>3
  <2> QED BY ONLY <1>4, <2>1, PlacesAppend
<1>6. ASSUME NEW A \in SUBSET FrameSet
      PROVE  /\ Count(stack, A) \in Nat /\ Count(stack', A) \in Nat
             /\ Count(stack', A) + In(Top(p), A) = Count(stack, A) + In(f, A) + In(Nil, A)
  <2>1. Count(stack', A) \in Nat /\ Count(stack', A) = Count(Without(p), A) + In(f, A)
    BY ONLY <1>3, <1>4, CountAppend, CountType
  <2>2. In(Nil, A) = 0 /\ In(f, A) \in Nat /\ In(Top(p), A) \in Nat
    BY NilIsNone DEF In
  <2>3. /\ Count(stack, A) \in Nat /\ Count(Without(p), A) \in Nat
        /\ Count(stack, A) = Count(Without(p), A) + In(Top(p), A)
    BY RestFrames
  <2> QED BY <2>1, <2>2, <2>3
<1>7. ASSUME NEW x \in Frames'
      PROVE  \/ x \in Frames /\ x # End(stack, p) /\ Frame(x)' = Frame(x)
             \/ x[1] = p /\ Frame(x)' = f
  <2>1. x \in Places(Without(p)) \/ x = End(stack', p)
    BY <1>5 DEF Frames
  <2>2. CASE x \in Places(Without(p))
    <3>1. x \in Frames /\ x # End(stack, p) /\ Item(Without(p), x) = Frame(x)
      BY <2>2, RestFrames
    <3>2. Frame(x)' = Item(stack', x)
      BY DEF Frame, Item
    <3> QED BY <1>5, <2>2, <3>1, <3>2
  <2>3. CASE x = End(stack', p)
    <3>1. Frame(x)' = Item(stack', x)
      BY DEF Frame, Item
    <3> QED BY <1>5, <2>3, <3>1 DEF End
  <2> QED BY <2>1, <2>2, <2>3
<1>8. f # Nil
  BY NilIsNone
<1> QED BY <1>3, <1>6, <1>7, <1>8 DEF Moved

LEMMA CallsMoves ==
  ASSUME Shape, NEW p \in Procs, stack[p] # <<>>, NEW f \in FrameSet, NEW g \in FrameSet,
         Becomes(p, f, <<g>>)
  PROVE  Moved(p, f, g)
<1> DEFINE middle == [Without(p) EXCEPT ![p] = Append(Without(p)[p], f)]
<1>1. Front(stack[p]) \in Seq(FrameSet) /\ stack \in [Procs -> Seq(FrameSet)]
  BY FrontLast, StackRows
<1>2. stack' = [stack EXCEPT ![p] = Append(Append(Front(stack[p]), f), g)]
  <2>1. Append(Front(stack[p]), f) \in Seq(FrameSet)
    BY <1>1, AppendProperties
  <2>2. Append(Front(stack[p]), f) \o <<g>> = Append(Append(Front(stack[p]), f), g)
    BY <2>1, AppendIsConcat
  <2> QED BY <2>2 DEF Becomes, Replace
<1>3. /\ middle \in [Procs -> Seq(FrameSet)] /\ middle[p] = Append(Front(stack[p]), f)
      /\ middle[p] = Append(Without(p)[p], f) /\ middle[p] \in Seq(FrameSet)
      /\ \A q \in Procs : q # p => middle[q] = Without(p)[q] /\ middle[q] = stack[q]
  <2>1. Append(Without(p)[p], f) \in Seq(FrameSet)
    BY <1>1, RestRows, AppendProperties
  <2> QED BY <2>1, RestRows
<1> HIDE DEF middle
<1>4. Rows(Procs, FrameSet, middle) /\ Longer(Procs, Without(p), middle, p, f)
  BY <1>3, Team DEF Rows, Longer, Changed
<1>5. /\ stack' \in [Procs -> Seq(FrameSet)] /\ Rows(Procs, FrameSet, stack')
      /\ Longer(Procs, middle, stack', p, g)
  <2>1. Append(middle[p], g) \in Seq(FrameSet)
    BY <1>3, AppendProperties
  <2>2. stack'[p] = Append(middle[p], g) /\ \A q \in Procs : q # p => stack'[q] = middle[q]
    BY <1>1, <1>2, <1>3
  <2>3. stack' \in [Procs -> Seq(FrameSet)]
    BY <1>1, <1>2, <1>3, <2>1
  <2> QED BY <2>2, <2>3, Team DEF Rows, Longer, Changed
<1>6. Rows(Procs, FrameSet, Without(p)) /\ f \in FrameSet /\ g \in FrameSet
  BY RestRows
<1>7. /\ Places(middle) = Places(Without(p)) \cup {End(middle, p)}
      /\ \A x \in Places(Without(p)) : Item(middle, x) = Item(Without(p), x)
      /\ Item(middle, End(middle, p)) = f
  BY ONLY <1>4, <1>6, PlacesAppend
<1>8. /\ Places(stack') = Places(middle) \cup {End(stack', p)}
      /\ \A x \in Places(middle) : Item(stack', x) = Item(middle, x)
      /\ Item(stack', End(stack', p)) = g
  <2>1. Rows(Procs, FrameSet, stack') /\ Longer(Procs, middle, stack', p, g)
    BY <1>5
  <2> QED BY ONLY <1>4, <1>6, <2>1, PlacesAppend
<1>9. ASSUME NEW A \in SUBSET FrameSet
      PROVE  /\ Count(stack, A) \in Nat /\ Count(stack', A) \in Nat
             /\ Count(stack', A) + In(Top(p), A) = Count(stack, A) + In(f, A) + In(g, A)
  <2>1. Count(middle, A) = Count(Without(p), A) + In(f, A)
    BY ONLY <1>4, <1>6, CountAppend
  <2>2. Count(stack', A) \in Nat /\ Count(stack', A) = Count(middle, A) + In(g, A)
    BY ONLY <1>4, <1>5, <1>6, CountAppend, CountType
  <2>3. In(g, A) \in Nat /\ In(f, A) \in Nat /\ In(Top(p), A) \in Nat
    BY DEF In
  <2>4. /\ Count(stack, A) \in Nat /\ Count(Without(p), A) \in Nat
        /\ Count(stack, A) = Count(Without(p), A) + In(Top(p), A)
    BY RestFrames
  <2> QED BY <2>1, <2>2, <2>3, <2>4
<1>10. ASSUME NEW x \in Frames'
       PROVE  \/ x \in Frames /\ x # End(stack, p) /\ Frame(x)' = Frame(x)
              \/ x[1] = p /\ (Frame(x)' = f \/ Frame(x)' = g)
  <2>1. x \in Places(Without(p)) \/ x = End(middle, p) \/ x = End(stack', p)
    BY <1>7, <1>8 DEF Frames
  <2>2. Frame(x)' = Item(stack', x)
    BY DEF Frame, Item
  <2>3. CASE x \in Places(Without(p))
    <3>1. x \in Frames /\ x # End(stack, p) /\ Item(Without(p), x) = Frame(x)
      BY <2>3, RestFrames
    <3>2. Item(stack', x) = Item(Without(p), x)
      BY <1>7, <1>8, <2>3
    <3> QED BY <2>2, <3>1, <3>2
  <2>4. CASE x = End(middle, p)
    <3>1. Item(stack', x) = f
      BY <1>7, <1>8, <2>4
    <3> QED BY <2>2, <2>4, <3>1 DEF End
  <2>5. CASE x = End(stack', p)
    BY <1>8, <2>2, <2>5 DEF End
  <2> QED BY <2>1, <2>3, <2>4, <2>5
<1>11. f # Nil /\ g # Nil
  BY NilIsNone
<1> QED BY <1>5, <1>9, <1>10, <1>11 DEF Moved

\* What a frame counts as, for a task or a node k.
Same(k, i) == IF k = i THEN 1 ELSE 0
IsMention(f, k) == IF (f.at = "enter" /\ f.id = k) \/ (f.at = "self" /\ f.ptr = k) THEN 1 ELSE 0
IsRun(f, k) == IF f.at # "enter" /\ f.id = k THEN 1 ELSE 0
IsDrop(f, k) == IF f.at = "release" /\ f.ptr = k THEN 1 ELSE 0
IsGather(f, k) == IF f.at = "gather" /\ f.id = k THEN 1 ELSE 0
IsPinner(f) == IF f.at = "pin" \/ (f.at = "gather" /\ f.id = NoTask) THEN 1 ELSE 0

LEMMA Weights ==
  ASSUME NEW f \in FrameSet \cup {Nil}, NEW k \in Nat \ {0}
  PROVE  /\ In(f, Entering(k)) + In(f, Handing(k)) = IsMention(f, k)
         /\ In(f, Runs(k)) = IsRun(f, k) /\ In(f, Dropping(k)) = IsDrop(f, k)
         /\ In(f, Gathering(k)) = IsGather(f, k)
<1>1. CASE f \in FrameSet
  BY <1>1 DEF In, Entering, Handing, Runs, Dropping, Gathering, IsMention, IsRun, IsDrop, IsGather
<1>2. CASE f = Nil
  <2>1. f \notin FrameSet
    BY <1>2, NilIsNone
  <2> QED BY <1>2, <2>1 DEF In, Entering, Handing, Runs, Dropping, Gathering, IsMention, IsRun, IsDrop,
             IsGather, Nil, NoTask
<1> QED BY <1>1, <1>2

LEMMA PinWeights ==
  ASSUME NEW f \in FrameSet \cup {Nil} PROVE In(f, PinFrames) = IsPinner(f)
<1>1. CASE f \in TaskFrames
  <2>1. f.id # NoTask /\ f.at # "pin" /\ f \notin PinFrames
    BY <1>1 DEF TaskFrames, PinFrames, TaskLabels, InTask, NoTask
  <2> QED BY <2>1 DEF In, IsPinner
<1>2. CASE f \in LoopFrames \cup MainFrames
  <2>1. f.at # "gather" /\ f.at # "pin" /\ f \notin PinFrames
    BY <1>2 DEF LoopFrames, MainFrames, PinFrames, LoopLabels
  <2> QED BY <2>1 DEF In, IsPinner
<1>3. CASE f \in PinFrames
  BY <1>3 DEF In, IsPinner, PinFrames, NoTask
<1>4. CASE f = Nil
  <2>1. f \notin PinFrames /\ f.at = "none"
    BY <1>4, NilIsNone DEF FrameSet, Nil
  <2> QED BY <2>1 DEF In, IsPinner
<1> QED BY <1>1, <1>2, <1>3, <1>4 DEF FrameSet

LEMMA Tally ==
  ASSUME NEW p, NEW f, NEW g, Moved(p, f, g), Top(p) \in FrameSet, NEW k \in Nat \ {0}
  PROVE  /\ Carried(k) \in Nat /\ Carried(k)' \in Nat /\ Ran(k) \in Nat /\ Ran(k)' \in Nat
         /\ Dropped(k) \in Nat /\ Dropped(k)' \in Nat
         /\ Carried(k)' + IsMention(Top(p), k) = Carried(k) + IsMention(f, k) + IsMention(g, k)
         /\ Ran(k)' + IsRun(Top(p), k) = Ran(k) + IsRun(f, k) + IsRun(g, k)
         /\ Dropped(k)' + IsDrop(Top(p), k) = Dropped(k) + IsDrop(f, k) + IsDrop(g, k)
<1>1. f \in FrameSet \cup {Nil} /\ g \in FrameSet \cup {Nil}
  BY DEF Moved
<1>2. ASSUME NEW A \in SUBSET FrameSet
      PROVE  /\ Count(stack, A) \in Nat /\ Count(stack', A) \in Nat
             /\ Count(stack', A) + In(Top(p), A) = Count(stack, A) + In(f, A) + In(g, A)
             /\ In(f, A) \in Nat /\ In(g, A) \in Nat /\ In(Top(p), A) \in Nat
  BY DEF Moved, In
<1>3. /\ Entering(k) \in SUBSET FrameSet /\ Handing(k) \in SUBSET FrameSet
      /\ Runs(k) \in SUBSET FrameSet /\ Dropping(k) \in SUBSET FrameSet
  BY DEF Entering, Handing, Runs, Dropping
<1>4. \A e \in FrameSet \cup {Nil} :
        /\ In(e, Entering(k)) + In(e, Handing(k)) = IsMention(e, k)
        /\ In(e, Runs(k)) = IsRun(e, k) /\ In(e, Dropping(k)) = IsDrop(e, k)
  BY Weights
<1>5. /\ Carried(k) \in Nat /\ Carried(k)' \in Nat
      /\ Carried(k)' + IsMention(Top(p), k) = Carried(k) + IsMention(f, k) + IsMention(g, k)
  <2>1. /\ Carried(k) = Count(stack, Entering(k)) + Count(stack, Handing(k))
        /\ Carried(k)' = Count(stack', Entering(k)) + Count(stack', Handing(k))
    BY DEF Carried
  <2>2. /\ IsMention(Top(p), k) = In(Top(p), Entering(k)) + In(Top(p), Handing(k))
        /\ IsMention(f, k) = In(f, Entering(k)) + In(f, Handing(k))
        /\ IsMention(g, k) = In(g, Entering(k)) + In(g, Handing(k))
    BY <1>1, <1>4
  <2>3. /\ Count(stack, Entering(k)) \in Nat /\ Count(stack', Entering(k)) \in Nat
        /\ Count(stack', Entering(k)) + In(Top(p), Entering(k)) = Count(stack, Entering(k)) + In(f, Entering(k)) + In(g, Entering(k))
        /\ In(f, Entering(k)) \in Nat /\ In(g, Entering(k)) \in Nat /\ In(Top(p), Entering(k)) \in Nat
    BY <1>2, <1>3
  <2>4. /\ Count(stack, Handing(k)) \in Nat /\ Count(stack', Handing(k)) \in Nat
        /\ Count(stack', Handing(k)) + In(Top(p), Handing(k)) = Count(stack, Handing(k)) + In(f, Handing(k)) + In(g, Handing(k))
        /\ In(f, Handing(k)) \in Nat /\ In(g, Handing(k)) \in Nat /\ In(Top(p), Handing(k)) \in Nat
    BY <1>2, <1>3
  <2> QED BY <2>1, <2>2, <2>3, <2>4
<1>6. /\ Ran(k) \in Nat /\ Ran(k)' \in Nat
      /\ Ran(k)' + IsRun(Top(p), k) = Ran(k) + IsRun(f, k) + IsRun(g, k)
  <2>1. Ran(k) = Count(stack, Runs(k)) /\ Ran(k)' = Count(stack', Runs(k))
    BY DEF Ran
  <2> QED BY <1>1, <1>2, <1>3, <1>4, <2>1
<1>7. /\ Dropped(k) \in Nat /\ Dropped(k)' \in Nat
      /\ Dropped(k)' + IsDrop(Top(p), k) = Dropped(k) + IsDrop(f, k) + IsDrop(g, k)
  <2>1. Dropped(k) = Count(stack, Dropping(k)) /\ Dropped(k)' = Count(stack', Dropping(k))
    BY DEF Dropped
  <2> QED BY <1>1, <1>2, <1>3, <1>4, <2>1
<1> QED BY <1>5, <1>6, <1>7

LEMMA PinTally ==
  ASSUME NEW p, NEW f, NEW g, Moved(p, f, g), Top(p) \in FrameSet
  PROVE  /\ Pinners \in Nat /\ Pinners' \in Nat
         /\ Pinners' + IsPinner(Top(p)) = Pinners + IsPinner(f) + IsPinner(g)
         /\ \A k \in Nat \ {0} :
              /\ Gathered(k) \in Nat /\ Gathered(k)' \in Nat
              /\ Gathered(k)' + IsGather(Top(p), k) = Gathered(k) + IsGather(f, k) + IsGather(g, k)
<1>1. f \in FrameSet \cup {Nil} /\ g \in FrameSet \cup {Nil}
  BY DEF Moved
<1>2. ASSUME NEW A \in SUBSET FrameSet
      PROVE  /\ Count(stack, A) \in Nat /\ Count(stack', A) \in Nat
             /\ Count(stack', A) + In(Top(p), A) = Count(stack, A) + In(f, A) + In(g, A)
  BY DEF Moved
<1>3. PinFrames \in SUBSET FrameSet /\ \A k : Gathering(k) \in SUBSET FrameSet
  BY DEF FrameSet, Gathering
<1>4. \A e \in FrameSet \cup {Nil} : In(e, PinFrames) = IsPinner(e)
  BY PinWeights
<1>5. \A e \in FrameSet \cup {Nil}, k \in Nat \ {0} : In(e, Gathering(k)) = IsGather(e, k)
  BY Weights
<1>6. /\ Pinners \in Nat /\ Pinners' \in Nat
      /\ Pinners' + IsPinner(Top(p)) = Pinners + IsPinner(f) + IsPinner(g)
  <2>1. Pinners = Count(stack, PinFrames) /\ Pinners' = Count(stack', PinFrames)
    BY DEF Pinners
  <2> QED BY <1>1, <1>2, <1>3, <1>4, <2>1
<1>7. ASSUME NEW k \in Nat \ {0}
      PROVE  /\ Gathered(k) \in Nat /\ Gathered(k)' \in Nat
             /\ Gathered(k)' + IsGather(Top(p), k) = Gathered(k) + IsGather(f, k) + IsGather(g, k)
  <2>1. Gathered(k) = Count(stack, Gathering(k)) /\ Gathered(k)' = Count(stack', Gathering(k))
    BY DEF Gathered
  <2> QED BY <1>1, <1>2, <1>3, <1>5, <2>1
<1> QED BY <1>6, <1>7

-----------------------------------------------------------------------------
\* The queues gain task i and lose task o; 0 is none.
QueueStep(i, o) ==
  /\ local' \in [Pool -> Seq(Nat \ {0})] /\ mail' \in [Pool -> Seq(Nat \ {0})]
  /\ \A q \in Pool : Len(local[q])' <= QueueCap /\ Len(mail[q])' <= MailCap
  /\ \A k \in Nat \ {0} : /\ InQueues(k) \in Nat /\ InQueues(k)' \in Nat
                          /\ InQueues(k)' + Same(k, o) = InQueues(k) + Same(k, i)

LEMMA QueueRows == ASSUME Shape
                   PROVE  /\ Rows(Pool, Nat \ {0}, local) /\ Rows(Pool, Nat \ {0}, mail)
                          /\ \A A : Count(local, A) \in Nat /\ Count(mail, A) \in Nat
<1>1. Rows(Pool, Nat \ {0}, local) /\ Rows(Pool, Nat \ {0}, mail)
  BY Team DEF Rows, Shape
<1>2. ASSUME NEW A PROVE Count(local, A) \in Nat /\ Count(mail, A) \in Nat
  BY ONLY <1>1, CountType
<1> QED BY <1>1, <1>2

LEMMA OneIn == \A k, i : In(i, {k}) = Same(k, i)
BY DEF In, Same

LEMMA QueuesStay == ASSUME Shape, Bounds, UNCHANGED queues PROVE QueueStep(0, 0)
<1>1. local' = local /\ mail' = mail
  BY DEF queues
<1>2. \A k : InQueues(k) \in Nat /\ InQueues(k)' = InQueues(k)
  BY <1>1, QueueRows DEF InQueues
<1> QED BY <1>1, <1>2 DEF QueueStep, Same, Shape, Bounds

\* One of the two families of queues changes from f to g.
Within(f, cap) == cap \in Nat /\ \A q \in Pool : Len(f[q]) <= cap
Trades(f, g, i, o) == \A k \in Nat \ {0} :
  /\ Count(f, {k}) \in Nat /\ Count(g, {k}) \in Nat
  /\ Count(g, {k}) + Same(k, o) = Count(f, {k}) + Same(k, i)
Put(f, g, q, i) == g = Replace(f, q, Append(f[q], i))
Took(f, g, q) == f[q] # <<>> /\ g = Replace(f, q, Tail(f[q]))
TookFront(f, g, q) == f[q] # <<>> /\ g = Replace(f, q, Front(f[q]))

LEMMA LocalStep ==
  ASSUME Shape, Bounds, mail' = mail, NEW i, NEW o,
         Rows(Pool, Nat \ {0}, local'), Within(local', QueueCap), Trades(local, local', i, o)
  PROVE  QueueStep(i, o)
<1>1. ASSUME NEW k \in Nat \ {0}
      PROVE  /\ InQueues(k) \in Nat /\ InQueues(k)' \in Nat
             /\ InQueues(k)' + Same(k, o) = InQueues(k) + Same(k, i)
  <2>1. InQueues(k) = Count(local, {k}) + Count(mail, {k}) /\ InQueues(k)' = Count(local', {k}) + Count(mail, {k})
    BY DEF InQueues
  <2>2. /\ Count(local, {k}) \in Nat /\ Count(mail, {k}) \in Nat /\ Count(local', {k}) \in Nat
        /\ Count(local', {k}) + Same(k, o) = Count(local, {k}) + Same(k, i)
    BY QueueRows DEF Trades
  <2> QED BY <2>1, <2>2 DEF Same
<1> QED BY <1>1 DEF QueueStep, Shape, Bounds, Rows, Within

LEMMA MailStep ==
  ASSUME Shape, Bounds, local' = local, NEW i, NEW o,
         Rows(Pool, Nat \ {0}, mail'), Within(mail', MailCap), Trades(mail, mail', i, o)
  PROVE  QueueStep(i, o)
<1>1. ASSUME NEW k \in Nat \ {0}
      PROVE  /\ InQueues(k) \in Nat /\ InQueues(k)' \in Nat
             /\ InQueues(k)' + Same(k, o) = InQueues(k) + Same(k, i)
  <2>1. InQueues(k) = Count(local, {k}) + Count(mail, {k}) /\ InQueues(k)' = Count(local, {k}) + Count(mail', {k})
    BY DEF InQueues
  <2>2. /\ Count(local, {k}) \in Nat /\ Count(mail, {k}) \in Nat /\ Count(mail', {k}) \in Nat
        /\ Count(mail', {k}) + Same(k, o) = Count(mail, {k}) + Same(k, i)
    BY QueueRows DEF Trades
  <2> QED BY <2>1, <2>2 DEF Same
<1> QED BY <1>1 DEF QueueStep, Shape, Bounds, Rows, Within

\* For either family: what a push and a pop do.
LEMMA RowPut ==
  ASSUME NEW f, Rows(Pool, Nat \ {0}, f), NEW q \in Pool, NEW i \in Nat \ {0}, NEW g,
         NEW cap, Within(f, cap), Len(f[q]) < cap, Put(f, g, q, i)
  PROVE  Rows(Pool, Nat \ {0}, g) /\ Within(g, cap) /\ Trades(f, g, i, 0)
<1>1. f \in [Pool -> Seq(Nat \ {0})] /\ IsFiniteSet(Pool)
  BY DEF Rows
<1>2. /\ Append(f[q], i) \in Seq(Nat \ {0}) /\ Len(Append(f[q], i)) = Len(f[q]) + 1
      /\ Len(f[q]) \in Nat
  BY <1>1, AppendProperties, LenProperties
<1>3. /\ g \in [Pool -> Seq(Nat \ {0})] /\ g[q] = Append(f[q], i)
      /\ \A r \in Pool : r # q => g[r] = f[r]
  BY <1>1, <1>2 DEF Replace, Put
<1>4. Rows(Pool, Nat \ {0}, g) /\ Longer(Pool, f, g, q, i)
  BY <1>1, <1>3 DEF Rows, Longer, Changed
<1>5. Within(g, cap)
  <2>1. \A r \in Pool : Len(f[r]) <= cap /\ cap \in Nat
    BY DEF Within
  <2>2. ASSUME NEW r \in Pool PROVE Len(g[r]) <= cap
    <3>1. CASE r = q
      BY <1>2, <1>3, <2>1, <3>1
    <3>2. CASE r # q
      BY <1>3, <2>1, <3>2
    <3> QED BY <3>1, <3>2
  <2> QED BY <2>1, <2>2 DEF Within
<1>6. ASSUME NEW k \in Nat \ {0}
      PROVE  /\ Count(f, {k}) \in Nat /\ Count(g, {k}) \in Nat
             /\ Count(g, {k}) + Same(k, 0) = Count(f, {k}) + Same(k, i)
  <2>1. Rows(Pool, Nat \ {0}, f) /\ i \in Nat \ {0}
    OBVIOUS
  <2>2. Count(g, {k}) = Count(f, {k}) + In(i, {k})
    BY ONLY <1>4, <2>1, CountAppend
  <2>3. Count(f, {k}) \in Nat /\ Count(g, {k}) \in Nat
    BY ONLY <1>4, <2>1, CountType
  <2> QED BY <2>2, <2>3 DEF In, Same
<1> QED BY <1>4, <1>5, <1>6 DEF Trades

LEMMA RowTook ==
  ASSUME NEW f, Rows(Pool, Nat \ {0}, f), NEW q \in Pool, NEW g,
         NEW cap, Within(f, cap), Took(f, g, q)
  PROVE  /\ Rows(Pool, Nat \ {0}, g) /\ Within(g, cap) /\ Trades(f, g, 0, Head(f[q]))
         /\ Head(f[q]) \in Nat \ {0}
<1>1. f \in [Pool -> Seq(Nat \ {0})] /\ IsFiniteSet(Pool) /\ f[q] # <<>>
  BY DEF Rows, Took
<1>2. /\ Head(f[q]) \in Nat \ {0} /\ Tail(f[q]) \in Seq(Nat \ {0})
      /\ Len(Tail(f[q])) = Len(f[q]) - 1 /\ Len(f[q]) \in Nat
  BY <1>1, HeadTailProperties, LenProperties
<1>3. /\ g \in [Pool -> Seq(Nat \ {0})] /\ g[q] = Tail(f[q])
      /\ \A r \in Pool : r # q => g[r] = f[r]
  BY <1>1, <1>2 DEF Replace, Took
<1>4. Rows(Pool, Nat \ {0}, g) /\ Popped(Pool, f, g, q)
  BY <1>1, <1>3 DEF Rows, Popped, Changed
<1>5. Within(g, cap)
  <2>1. \A r \in Pool : Len(f[r]) <= cap /\ cap \in Nat
    BY DEF Within
  <2>2. ASSUME NEW r \in Pool PROVE Len(g[r]) <= cap
    <3>1. CASE r = q
      BY <1>2, <1>3, <2>1, <3>1
    <3>2. CASE r # q
      BY <1>3, <2>1, <3>2
    <3> QED BY <3>1, <3>2
  <2> QED BY <2>1, <2>2 DEF Within
<1>6. ASSUME NEW k \in Nat \ {0}
      PROVE  /\ Count(f, {k}) \in Nat /\ Count(g, {k}) \in Nat
             /\ Count(g, {k}) + Same(k, Head(f[q])) = Count(f, {k}) + Same(k, 0)
  <2>1. Rows(Pool, Nat \ {0}, f)
    OBVIOUS
  <2>2. Count(f, {k}) = Count(g, {k}) + In(Head(f[q]), {k})
    BY ONLY <1>4, <2>1, CountTail
  <2>3. Count(f, {k}) \in Nat /\ Count(g, {k}) \in Nat
    BY ONLY <1>4, <2>1, CountType
  <2> QED BY <2>2, <2>3 DEF In, Same
<1> QED BY <1>2, <1>4, <1>5, <1>6 DEF Trades

LEMMA RowTookFront ==
  ASSUME NEW f, Rows(Pool, Nat \ {0}, f), NEW q \in Pool, NEW g,
         NEW cap, Within(f, cap), TookFront(f, g, q)
  PROVE  /\ Rows(Pool, Nat \ {0}, g) /\ Within(g, cap) /\ Trades(f, g, 0, Last(f[q]))
         /\ Last(f[q]) \in Nat \ {0}
<1>1. f \in [Pool -> Seq(Nat \ {0})] /\ IsFiniteSet(Pool) /\ f[q] # <<>>
  BY DEF Rows, TookFront
<1>2. /\ Last(f[q]) \in Nat \ {0} /\ Front(f[q]) \in Seq(Nat \ {0})
      /\ Len(Front(f[q])) = Len(f[q]) - 1 /\ Len(f[q]) \in Nat
  BY <1>1, FrontLast
<1>3. /\ g \in [Pool -> Seq(Nat \ {0})] /\ g[q] = Front(f[q])
      /\ \A r \in Pool : r # q => g[r] = f[r]
  BY <1>1, <1>2 DEF Replace, TookFront
<1>4. Rows(Pool, Nat \ {0}, g) /\ Shorter(Pool, f, g, q)
  BY <1>1, <1>3 DEF Rows, Shorter, Changed
<1>5. Within(g, cap)
  <2>1. \A r \in Pool : Len(f[r]) <= cap /\ cap \in Nat
    BY DEF Within
  <2>2. ASSUME NEW r \in Pool PROVE Len(g[r]) <= cap
    <3>1. CASE r = q
      BY <1>2, <1>3, <2>1, <3>1
    <3>2. CASE r # q
      BY <1>3, <2>1, <3>2
    <3> QED BY <3>1, <3>2
  <2> QED BY <2>1, <2>2 DEF Within
<1>6. ASSUME NEW k \in Nat \ {0}
      PROVE  /\ Count(f, {k}) \in Nat /\ Count(g, {k}) \in Nat
             /\ Count(g, {k}) + Same(k, Last(f[q])) = Count(f, {k}) + Same(k, 0)
  <2>1. Rows(Pool, Nat \ {0}, f)
    OBVIOUS
  <2>2. Count(f, {k}) = Count(g, {k}) + In(Last(f[q]), {k})
    BY ONLY <1>4, <2>1, CountFront
  <2>3. Count(f, {k}) \in Nat /\ Count(g, {k}) \in Nat
    BY ONLY <1>4, <2>1, CountType
  <2> QED BY <2>2, <2>3 DEF In, Same
<1> QED BY <1>2, <1>4, <1>5, <1>6 DEF Trades

LEMMA Caps == ASSUME Bounds PROVE Within(local, QueueCap) /\ Within(mail, MailCap)
BY ShapeAssumption DEF Within, Bounds

LEMMA LocalPush ==
  ASSUME Shape, Bounds, mail' = mail, NEW q \in Pool, NEW i \in Nat \ {0},
         Len(local[q]) < QueueCap, Put(local, local', q, i)
  PROVE  QueueStep(i, 0)
<1>1. Rows(Pool, Nat \ {0}, local') /\ Within(local', QueueCap) /\ Trades(local, local', i, 0)
  BY Caps, QueueRows, RowPut
<1> QED BY <1>1, LocalStep

LEMMA MailPush ==
  ASSUME Shape, Bounds, local' = local, NEW q \in Pool, NEW i \in Nat \ {0},
         Len(mail[q]) < MailCap, Put(mail, mail', q, i)
  PROVE  QueueStep(i, 0)
<1>1. Rows(Pool, Nat \ {0}, mail') /\ Within(mail', MailCap) /\ Trades(mail, mail', i, 0)
  BY Caps, QueueRows, RowPut
<1> QED BY <1>1, MailStep

LEMMA LocalFrontPop ==
  ASSUME Shape, Bounds, mail' = mail, NEW q \in Pool, TookFront(local, local', q)
  PROVE  \E o \in Nat \ {0} : o = Last(local[q]) /\ QueueStep(0, o)
<1>1. PICK o : o = Last(local[q])
  OBVIOUS
<1>2. /\ Rows(Pool, Nat \ {0}, local') /\ Within(local', QueueCap)
      /\ Trades(local, local', 0, Last(local[q])) /\ Last(local[q]) \in Nat \ {0}
  BY Caps, QueueRows, RowTookFront
<1>3. Trades(local, local', 0, o)
  BY <1>1, <1>2
<1>4. QueueStep(0, o)
  BY <1>2, <1>3, LocalStep
<1> QED BY <1>1, <1>2, <1>4

LEMMA LocalBackPop ==
  ASSUME Shape, Bounds, mail' = mail, NEW q \in Pool, Took(local, local', q)
  PROVE  \E o \in Nat \ {0} : o = Head(local[q]) /\ QueueStep(0, o)
<1>1. PICK o : o = Head(local[q])
  OBVIOUS
<1>2. /\ Rows(Pool, Nat \ {0}, local') /\ Within(local', QueueCap)
      /\ Trades(local, local', 0, Head(local[q])) /\ Head(local[q]) \in Nat \ {0}
  BY Caps, QueueRows, RowTook
<1>3. Trades(local, local', 0, o)
  BY <1>1, <1>2
<1>4. QueueStep(0, o)
  BY <1>2, <1>3, LocalStep
<1> QED BY <1>1, <1>2, <1>4

LEMMA MailPop ==
  ASSUME Shape, Bounds, local' = local, NEW q \in Pool, Took(mail, mail', q)
  PROVE  \E o \in Nat \ {0} : o = Head(mail[q]) /\ QueueStep(0, o)
<1>1. PICK o : o = Head(mail[q])
  OBVIOUS
<1>2. /\ Rows(Pool, Nat \ {0}, mail') /\ Within(mail', MailCap)
      /\ Trades(mail, mail', 0, Head(mail[q])) /\ Head(mail[q]) \in Nat \ {0}
  BY Caps, QueueRows, RowTook
<1>3. Trades(mail, mail', 0, o)
  BY <1>1, <1>2
<1>4. QueueStep(0, o)
  BY <1>2, <1>3, MailStep
<1> QED BY <1>1, <1>2, <1>4

-----------------------------------------------------------------------------
(* What the invariant says of one frame.                                   *)

LEMMA CountFrames == ASSUME Shape, NEW A
                     PROVE  /\ IsFiniteSet(Among(stack, A)) /\ Count(stack, A) \in Nat
                            /\ \A x \in Frames : Frame(x) \in A => x \in Among(stack, A) /\ Count(stack, A) >= 1
<1>1. IsFiniteSet(Among(stack, A)) /\ Count(stack, A) \in Nat
  <2>1. Rows(Procs, FrameSet, stack)
    BY StackRows
  <2> QED BY <2>1, CountType
<1>2. ASSUME NEW x \in Frames, Frame(x) \in A PROVE x \in Among(stack, A) /\ Count(stack, A) >= 1
  <2>1. x \in Among(stack, A)
    BY <1>2 DEF Among, Frames, Frame, Item
  <2>2. Count(stack, A) # 0
    BY <1>1, <2>1, FS_EmptySet DEF Count
  <2> QED BY <1>1, <2>1, <2>2
<1> QED BY <1>1, <1>2

LEMMA AtMostOne == ASSUME NEW S, IsFiniteSet(S), Cardinality(S) <= 1, NEW x \in S, NEW y \in S
                   PROVE  x = y
<1> SUFFICES ASSUME x # y PROVE FALSE
  OBVIOUS
<1>1. {x, y} \subseteq S
  OBVIOUS
<1>2. Cardinality({x, y}) <= Cardinality(S)
  BY <1>1, FS_Subset
<1>3. Cardinality({x, y}) = 2
  <2>1. IsFiniteSet({x}) /\ Cardinality({x}) = 1
    BY FS_Singleton
  <2>2. y \notin {x} /\ {x} \cup {y} = {x, y}
    OBVIOUS
  <2>3. Cardinality({x} \cup {y}) = Cardinality({x}) + 1
    BY <2>1, <2>2, FS_AddElement
  <2> QED BY <2>1, <2>2, <2>3
<1>4. Cardinality(S) \in Nat
  BY FS_CardinalityType
<1> QED BY <1>2, <1>3, <1>4

LEMMA Tallies == ASSUME Shape, NEW k
                 PROVE  /\ InQueues(k) \in Nat /\ Carried(k) \in Nat /\ Mentioned(k) \in Nat
                        /\ Ran(k) \in Nat /\ Dropped(k) \in Nat /\ Gathered(k) \in Nat /\ Pinners \in Nat
<1>1. \A A : Count(stack, A) \in Nat
  BY CountFrames
<1>2. \A A : Count(local, A) \in Nat /\ Count(mail, A) \in Nat
  BY QueueRows
<1> QED BY <1>1, <1>2 DEF InQueues, Carried, Mentioned, Ran, Dropped, Gathered, Pinners

LEMMA RanOnce == ASSUME Shape, Lives, NEW k \in Nat \ {0}
                 PROVE  Ran(k) <= 1 /\ (Ran(k) = 1 \/ Mentioned(k) > 0 => k \in DOMAIN task /\ ~Gone(k))
<1>1. LifeAt(k) /\ Ran(k) \in Nat /\ Mentioned(k) \in Nat
  BY Tallies DEF Lives
<1>2. CASE k \notin DOMAIN task
  BY <1>1, <1>2 DEF LifeAt, Unborn
<1>3. CASE k \in DOMAIN task
  <2>1. Life(k) /\ task[k] \in TaskSet
    BY <1>1, <1>3, ElementOfSeq DEF LifeAt, Shape
  <2>2. task[k].kind \in Kinds
    BY <2>1 DEF TaskSet
  <2>3. CASE IsLoop(k)
    BY <1>1, <1>3, <2>1, <2>3 DEF Life
  <2>4. CASE task[k].kind \in {"unique", "pin"}
    BY <1>1, <1>3, <2>1, <2>4 DEF Life
  <2>5. CASE task[k].kind = "proxy"
    BY <1>1, <1>3, <2>1, <2>5 DEF Life, Proxy
  <2> QED BY <2>2, <2>3, <2>4, <2>5 DEF Kinds, IsLoop
<1> QED BY <1>2, <1>3

\* No two frames run one task.
LEMMA Alone == ASSUME Shape, Lives, NEW x \in Frames, NEW y \in Frames, NEW k \in Nat \ {0},
                      Frame(x).id = k, Frame(y).id = k, Frame(x).at # "enter", Frame(y).at # "enter"
               PROVE  x = y
<1>1. Frame(x) \in Runs(k) /\ Frame(y) \in Runs(k)
  BY FrameIn DEF Runs
<1>2. x \in Among(stack, Runs(k)) /\ y \in Among(stack, Runs(k)) /\ IsFiniteSet(Among(stack, Runs(k)))
  BY <1>1, CountFrames
<1>3. Cardinality(Among(stack, Runs(k))) <= 1
  BY RanOnce DEF Ran, Count
<1> QED BY <1>2, <1>3, AtMostOne

\* The task of a frame exists and is not gone.
LEMMA FrameTask == ASSUME Shape, Lives, NEW x \in Frames, Frame(x).id # 0
                   PROVE  /\ Frame(x).id \in Nat \ {0} /\ Frame(x).id \in DOMAIN task /\ ~Gone(Frame(x).id)
                          /\ Frame(x).at # "enter" => Ran(Frame(x).id) = 1
                          /\ Frame(x).at = "enter" => Mentioned(Frame(x).id) > 0
<1> DEFINE k == Frame(x).id
<1>1. Frame(x) \in FrameSet
  BY FrameIn
<1>2. k \in Nat \ {0}
  BY <1>1 DEF FrameSet, TaskFrames, LoopFrames, MainFrames, PinFrames
<1>3. Frame(x) \in IF Frame(x).at = "enter" THEN Entering(k) ELSE Runs(k)
  BY <1>1 DEF Entering, Runs
<1> HIDE DEF k
<1>4. Frame(x).at = "enter" => Count(stack, Entering(k)) >= 1
  BY <1>3, CountFrames
<1>5. Frame(x).at # "enter" => Count(stack, Runs(k)) >= 1
  BY <1>3, CountFrames
<1>6. Frame(x).at = "enter" => Mentioned(k) > 0
  <2>1. Count(stack, Entering(k)) \in Nat /\ Count(stack, Handing(k)) \in Nat /\ InQueues(k) \in Nat
    BY CountFrames, Tallies
  <2> QED BY <1>4, <2>1 DEF Mentioned, Carried
<1>7. Frame(x).at # "enter" => Ran(k) = 1
  <2>1. Ran(k) \in Nat /\ Ran(k) <= 1
    BY <1>2, RanOnce, Tallies
  <2> QED BY <1>5, <2>1 DEF Ran
<1>8. k \in DOMAIN task /\ ~Gone(k)
  BY <1>2, <1>6, <1>7, RanOnce
<1> QED BY <1>2, <1>6, <1>7, <1>8 DEF k

-----------------------------------------------------------------------------
(* What a step leaves as it is.                                            *)

\* Thread p goes on as f and g, and of the tasks there are only the one it is
\* running changes, or another one in its state.
Quiet(k) == task'[k].from = task[k].from /\ task'[k].to = task[k].to /\ task'[k].holds = task[k].holds

LEMMA FramesStay ==
  ASSUME Shape, FramesOK, Lives, NEW p \in Procs, stack[p] # <<>>, NEW f, NEW g, Moved(p, f, g),
         task' \in Seq(TaskSet), Len(task') >= Len(task),
         \A k \in DOMAIN task : task'[k].kind = task[k].kind,
         \A k \in DOMAIN task : Quiet(k) \/ (k = Top(p).id /\ Top(p).at # "enter"),
         f # Nil => FrameOK(p, f)' /\ Busy(f)',
         g # Nil => FrameOK(p, g)' /\ Busy(g)'
  PROVE  FramesOK'
<1>1. ASSUME NEW x \in Frames' PROVE FrameOK(x[1], Frame(x))' /\ Busy(Frame(x))'
  <2>1. CASE x[1] = p /\ Frame(x)' # Nil /\ (Frame(x)' = f \/ Frame(x)' = g)
    <3>1. PICK h : h = Frame(x)'
      OBVIOUS
    <3>2. FrameOK(p, h)' /\ Busy(h)'
      BY <2>1, <3>1
    <3> QED BY ONLY <2>1, <3>1, <3>2 DEF FrameOK, Busy, IsLoop
  <2>2. CASE x \in Frames /\ x # End(stack, p) /\ Frame(x)' = Frame(x)
    <3>1. PICK h : h = Frame(x)
      OBVIOUS
    <3>2. FrameOK(x[1], h) /\ Busy(h) /\ h \in FrameSet
      BY <2>2, <3>1, FrameIn DEF FramesOK
    <3>3. h.id \in DOMAIN task => task'[h.id].kind = task[h.id].kind
      OBVIOUS
    <3>4. DOMAIN task = 1 .. Len(task) /\ DOMAIN task' = 1 .. Len(task') /\ DOMAIN task \subseteq DOMAIN task'
      <4>1. task \in Seq(TaskSet) /\ Len(task) \in Nat /\ Len(task') \in Nat
        BY LenProperties DEF Shape
      <4> QED BY <4>1
    <3>5. FrameOK(x[1], h)'
      <4>1. h.at \in InTask \cup {"enter", "leave", "to_pin", "pinned"} => h.id # 0
        BY <3>2 DEF FrameSet, TaskFrames, LoopFrames, MainFrames, PinFrames, LoopLabels, InTask
      <4>2. h.id # 0 => h.id \in DOMAIN task
        BY <2>2, <3>1, FrameTask
      <4>3. h.at = "self" => task'[h.ptr].kind = task[h.ptr].kind
        BY <3>2 DEF FrameOK
      <4>4. h.id \in 0 .. Len(task')
        <5>1. Len(task) \in Nat /\ Len(task') \in Nat /\ h.id \in 0 .. Len(task)
          BY <3>2, LenProperties DEF FrameOK, Shape
        <5> QED BY <5>1
      <4> QED BY <3>2, <3>3, <3>4, <4>1, <4>2, <4>3, <4>4 DEF FrameOK, IsLoop, InTask, LoopLabels
    <3>6. Busy(h)'
      <4>1. CASE h.at \in InTask
        <5>1. h.id # 0 /\ h.at # "enter"
          BY <3>2, <4>1 DEF FrameSet, TaskFrames, LoopFrames, MainFrames, PinFrames, LoopLabels, InTask
        <5>2. h.id \in DOMAIN task /\ h.id \in Nat \ {0}
          BY <2>2, <3>1, <5>1, FrameTask
        <5>3. ~ (h.id = Top(p).id /\ Top(p).at # "enter")
          <6> SUFFICES ASSUME h.id = Top(p).id, Top(p).at # "enter" PROVE FALSE
            OBVIOUS
          <6>1. End(stack, p) \in Frames /\ Frame(End(stack, p)) = Top(p)
            BY TopFrame
          <6>2. x = End(stack, p)
            BY <2>2, <3>1, <5>1, <5>2, <6>1, Alone
          <6> QED BY <2>2, <6>2
        <5>4. Quiet(h.id)
          BY <5>2, <5>3
        <5> QED BY <3>2, <5>4 DEF Busy, Quiet
      <4>2. CASE h.at \notin InTask
        BY <4>2 DEF Busy, InTask, Bodies
      <4> QED BY <4>1, <4>2
    <3> QED BY ONLY <2>2, <3>1, <3>5, <3>6 DEF FrameOK, Busy, IsLoop
  <2>3. \/ x \in Frames /\ x # End(stack, p) /\ Frame(x)' = Frame(x)
        \/ x[1] = p /\ Frame(x)' # Nil /\ (Frame(x)' = f \/ Frame(x)' = g)
    BY DEF Moved
  <2> QED BY <2>1, <2>2, <2>3
<1> QED BY <1>1 DEF FramesOK

\* A task for which nothing happens.
LEMMA LifeStays ==
  ASSUME NEW k, LifeAt(k), Mentioned(k)' = Mentioned(k), Ran(k)' = Ran(k), Dropped(k)' = Dropped(k),
         k \in DOMAIN task' <=> k \in DOMAIN task, Gone(k)' <=> Gone(k),
         k \in DOMAIN task => /\ task'[k].kind = task[k].kind /\ task'[k].state = task[k].state
                              /\ task'[k].holds = task[k].holds
  PROVE  LifeAt(k)'
BY DEF LifeAt, Life, Unborn, IsLoop, Proxy, Waiting

LEMMA RefsStay ==
  ASSUME NEW n, RefsAt(n), node'[n].count = node[n].count, Children(n)' = Children(n),
         Dropped(n)' = Dropped(n), Held(n)' = Held(n), Owned(n)' = Owned(n)
  PROVE  RefsAt(n)'
BY DEF RefsAt

LEMMA TopFacts ==
  ASSUME IInv, NEW p \in Procs, stack[p] # <<>>
  PROVE  /\ Top(p) \in FrameSet /\ FrameOK(p, Top(p)) /\ Busy(Top(p))
         /\ Top(p).id \in Nat
         /\ Top(p).id # 0 =>
              /\ Top(p).id \in Nat \ {0} /\ Top(p).id \in DOMAIN task /\ ~Gone(Top(p).id)
              /\ task[Top(p).id] \in TaskSet /\ TaskOK(task[Top(p).id])
              /\ Top(p).at # "enter" => Ran(Top(p).id) = 1
              /\ Top(p).at = "enter" => Mentioned(Top(p).id) > 0
<1>1. End(stack, p) \in Frames /\ Frame(End(stack, p)) = Top(p) /\ Top(p) \in FrameSet
  BY TopFrame DEF IInv
<1>2. FrameOK(p, Top(p)) /\ Busy(Top(p))
  <2>1. End(stack, p)[1] = p
    BY DEF End
  <2> QED BY <1>1, <2>1 DEF IInv, FramesOK
<1>3. Top(p).id \in Nat
  BY <1>1 DEF FrameSet, TaskFrames, LoopFrames, MainFrames, PinFrames
<1>4. Top(p).id # 0 =>
              /\ Top(p).id \in Nat \ {0} /\ Top(p).id \in DOMAIN task /\ ~Gone(Top(p).id)
              /\ Top(p).at # "enter" => Ran(Top(p).id) = 1
              /\ Top(p).at = "enter" => Mentioned(Top(p).id) > 0
  BY <1>1, FrameTask DEF IInv
<1>5. Top(p).id # 0 => task[Top(p).id] \in TaskSet /\ TaskOK(task[Top(p).id])
  BY <1>4, ElementOfSeq DEF IInv, Shape, TasksOK
<1> QED BY <1>1, <1>2, <1>3, <1>4, <1>5

LEMMA Deltas ==
  ASSUME Shape, NEW p \in Procs, stack[p] # <<>>, NEW f, NEW g, Moved(p, f, g),
         NEW i, NEW o, QueueStep(i, o), NEW k \in Nat \ {0}
  PROVE  /\ Mentioned(k) \in Nat /\ Mentioned(k)' \in Nat
         /\ Ran(k) \in Nat /\ Ran(k)' \in Nat /\ Dropped(k) \in Nat /\ Dropped(k)' \in Nat
         /\ Mentioned(k)' + IsMention(Top(p), k) + Same(k, o)
              = Mentioned(k) + IsMention(f, k) + IsMention(g, k) + Same(k, i)
         /\ Ran(k)' + IsRun(Top(p), k) = Ran(k) + IsRun(f, k) + IsRun(g, k)
         /\ Dropped(k)' + IsDrop(Top(p), k) = Dropped(k) + IsDrop(f, k) + IsDrop(g, k)
<1>1. Top(p) \in FrameSet
  BY TopFrame
<1>2. /\ Carried(k) \in Nat /\ Carried(k)' \in Nat /\ Ran(k) \in Nat /\ Ran(k)' \in Nat
      /\ Dropped(k) \in Nat /\ Dropped(k)' \in Nat
      /\ Carried(k)' + IsMention(Top(p), k) = Carried(k) + IsMention(f, k) + IsMention(g, k)
      /\ Ran(k)' + IsRun(Top(p), k) = Ran(k) + IsRun(f, k) + IsRun(g, k)
      /\ Dropped(k)' + IsDrop(Top(p), k) = Dropped(k) + IsDrop(f, k) + IsDrop(g, k)
  BY <1>1, Tally
<1>3. /\ InQueues(k) \in Nat /\ InQueues(k)' \in Nat
      /\ InQueues(k)' + Same(k, o) = InQueues(k) + Same(k, i)
  BY DEF QueueStep
<1>4. Mentioned(k) = InQueues(k) + Carried(k) /\ Mentioned(k)' = InQueues(k)' + Carried(k)'
  BY DEF Mentioned
<1>5. /\ Same(k, o) \in Nat /\ Same(k, i) \in Nat /\ IsMention(Top(p), k) \in Nat
      /\ IsMention(f, k) \in Nat /\ IsMention(g, k) \in Nat
  BY DEF Same, IsMention
<1>6. Mentioned(k) \in Nat /\ Mentioned(k)' \in Nat
  BY <1>2, <1>3, <1>4
<1>7. Mentioned(k)' + IsMention(Top(p), k) + Same(k, o)
        = Mentioned(k) + IsMention(f, k) + IsMention(g, k) + Same(k, i)
  <2>1. InQueues(k)' + Carried(k)' + IsMention(Top(p), k) + Same(k, o)
          = InQueues(k) + Carried(k) + IsMention(f, k) + IsMention(g, k) + Same(k, i)
    BY ONLY <1>2, <1>3, <1>5
  <2> QED BY ONLY <1>2, <1>3, <1>4, <1>5, <2>1
<1> QED BY <1>2, <1>6, <1>7

\* Frame e goes on as f and g, task i enters a queue and o leaves one; for k
\* this is nothing.
Even(e, f, g, i, o, k) ==
  /\ IsMention(e, k) + Same(k, o) = IsMention(f, k) + IsMention(g, k) + Same(k, i)
  /\ IsRun(e, k) = IsRun(f, k) + IsRun(g, k)
  /\ IsDrop(e, k) = IsDrop(f, k) + IsDrop(g, k)

LEMMA EvenStays ==
  ASSUME Shape, NEW p \in Procs, stack[p] # <<>>, NEW f, NEW g, Moved(p, f, g),
         NEW i, NEW o, QueueStep(i, o), NEW k \in Nat \ {0}, Even(Top(p), f, g, i, o, k)
  PROVE  Mentioned(k)' = Mentioned(k) /\ Ran(k)' = Ran(k) /\ Dropped(k)' = Dropped(k)
<1>1. /\ Mentioned(k) \in Nat /\ Mentioned(k)' \in Nat
      /\ Ran(k) \in Nat /\ Ran(k)' \in Nat /\ Dropped(k) \in Nat /\ Dropped(k)' \in Nat
      /\ Mentioned(k)' + IsMention(Top(p), k) + Same(k, o)
              = Mentioned(k) + IsMention(f, k) + IsMention(g, k) + Same(k, i)
      /\ Ran(k)' + IsRun(Top(p), k) = Ran(k) + IsRun(f, k) + IsRun(g, k)
      /\ Dropped(k)' + IsDrop(Top(p), k) = Dropped(k) + IsDrop(f, k) + IsDrop(g, k)
  BY Deltas
<1>2. /\ IsMention(Top(p), k) + Same(k, o) = IsMention(f, k) + IsMention(g, k) + Same(k, i)
      /\ IsRun(Top(p), k) = IsRun(f, k) + IsRun(g, k)
      /\ IsDrop(Top(p), k) = IsDrop(f, k) + IsDrop(g, k)
  BY DEF Even
<1>3. /\ IsMention(Top(p), k) \in Nat /\ IsMention(f, k) \in Nat /\ IsMention(g, k) \in Nat
      /\ Same(k, o) \in Nat /\ Same(k, i) \in Nat
      /\ IsRun(f, k) \in Nat /\ IsRun(g, k) \in Nat /\ IsDrop(f, k) \in Nat /\ IsDrop(g, k) \in Nat
  BY DEF IsMention, Same, IsRun, IsDrop
<1> QED BY ONLY <1>1, <1>2, <1>3

\* Task id becomes t.
LEMMA Retasked ==
  ASSUME Shape, NEW id \in DOMAIN task, NEW t \in TaskSet, task' = Replace(task, id, t)
  PROVE  /\ task' \in Seq(TaskSet) /\ Len(task') = Len(task) /\ DOMAIN task' = DOMAIN task
         /\ task'[id] = t /\ \A k \in DOMAIN task : k # id => task'[k] = task[k]
<1>1. task \in Seq(TaskSet) /\ DOMAIN task = 1 .. Len(task)
  BY DEF Shape
<1>2. task' = [task EXCEPT ![id] = t]
  BY DEF Replace
<1> QED BY <1>1, <1>2, ExceptSeq

Onward(k) == /\ task'[k].kind = task[k].kind /\ task'[k].state = task[k].state
             /\ task'[k].holds = task[k].holds /\ TaskOK(task[k])'

\* A thread goes on, what there is of each task and node stays the same, and
\* of the tasks only the ranges of its own change.
LEMMA Passes ==
  ASSUME IInv, NEW p \in Procs, stack[p] # <<>>, NEW f, NEW g, Moved(p, f, g), NEW i, NEW o,
         QueueStep(i, o),
         \A k \in Nat \ {0} : Even(Top(p), f, g, i, o, k),
         node' = node, deleted' = deleted, plan' = plan,
         task' \in Seq(TaskSet), Len(task') = Len(task),
         \A k \in DOMAIN task : Onward(k) /\ (task'[k] = task[k] \/ (k = Top(p).id /\ Top(p).at # "enter")),
         f # Nil => FrameOK(p, f)' /\ Busy(f)', g # Nil => FrameOK(p, g)' /\ Busy(g)'
  PROVE  Shape' /\ FramesOK' /\ TasksOK' /\ Lives' /\ Refs'
<1>1. Shape /\ FramesOK /\ TasksOK /\ Lives /\ Refs
  BY DEF IInv
<1>2. DOMAIN task' = DOMAIN task /\ DOMAIN node' = DOMAIN node /\ DOMAIN node = DOMAIN task
      /\ DOMAIN task \subseteq Nat \ {0}
  BY <1>1, LenProperties DEF Shape
<1>3. Shape'
  <2>1. stack' \in [Procs -> Seq(FrameSet)]
    BY DEF Moved
  <2>2. local' \in [Pool -> Seq(Nat \ {0})] /\ mail' \in [Pool -> Seq(Nat \ {0})]
    BY DEF QueueStep
  <2> QED BY <1>1, <1>2, <2>1, <2>2 DEF Shape
<1>4. FramesOK'
  <2>1. \A k \in DOMAIN task : task'[k].kind = task[k].kind /\ (Quiet(k) \/ (k = Top(p).id /\ Top(p).at # "enter"))
    BY DEF Onward, Quiet
  <2>2. Len(task') >= Len(task)
    BY <1>1, LenProperties DEF Shape
  <2> QED BY <1>1, <2>1, <2>2, FramesStay
<1>5. TasksOK'
  BY <1>1, <1>2 DEF TasksOK, Onward, Rootless, IsLoop, Gone, NoTask
<1>6. ASSUME NEW k \in Nat \ {0}
      PROVE  Mentioned(k)' = Mentioned(k) /\ Ran(k)' = Ran(k) /\ Dropped(k)' = Dropped(k)
  BY <1>1, EvenStays
<1>7. Lives'
  <2>1. ASSUME NEW k \in Nat \ {0} PROVE LifeAt(k)'
    <3>1. LifeAt(k)
      BY <1>1 DEF Lives
    <3>2. Gone(k)' <=> Gone(k)
      BY DEF Gone
    <3>3. k \in DOMAIN task => /\ task'[k].kind = task[k].kind /\ task'[k].state = task[k].state
                              /\ task'[k].holds = task[k].holds
      BY DEF Onward
    <3> QED BY <1>2, <1>6, <3>1, <3>2, <3>3, LifeStays
  <2> QED BY <2>1 DEF Lives
<1>8. Refs'
  <2>1. ASSUME NEW n \in DOMAIN node PROVE RefsAt(n)'
    <3>1. RefsAt(n) /\ n \in Nat \ {0} /\ n \in DOMAIN task
      BY <1>1, <1>2 DEF Refs
    <3>2. Dropped(n)' = Dropped(n)
      BY <1>6, <3>1
    <3>3. Children(n)' = Children(n) /\ node'[n].count = node[n].count
      BY DEF Children
    <3>4. Held(n)' = Held(n) /\ Owned(n)' = Owned(n)
      BY <3>1 DEF Held, Owned, IsLoop, Gone, Onward
    <3> QED BY <3>1, <3>2, <3>3, <3>4, RefsStay
  <2> QED BY <1>2, <2>1 DEF Refs
<1> QED BY <1>3, <1>4, <1>5, <1>7, <1>8

\* A thread goes on with its task, or its loop.
SameRole(e, f) ==
  /\ f.id = e.id /\ e.at \notin {"enter", "self", "release"} /\ f.at \notin {"enter", "self", "release"}

LEMMA SameEven == ASSUME NEW e, NEW f, SameRole(e, f), NEW k \in Nat \ {0} PROVE Even(e, f, Nil, 0, 0, k)
<1>1. /\ IsMention(Nil, k) = 0 /\ IsRun(Nil, k) = 0 /\ IsDrop(Nil, k) = 0
      /\ IsMention(f, k) = 0 /\ IsMention(e, k) = 0 /\ IsDrop(f, k) = 0 /\ IsDrop(e, k) = 0
      /\ IsRun(f, k) = IsRun(e, k) /\ IsRun(f, k) \in {0, 1} /\ Same(k, 0) = 0
  BY DEF Nil, NoTask, IsMention, IsRun, IsDrop, SameRole, Same
<1> QED BY <1>1 DEF Even

\* The pool's threads at work do not touch the tasks that pin, but to run them.
LEMMA WorkPins ==
  ASSUME IInv, NEW p \in Procs, stack[p] # <<>>, NEW f, NEW g, Moved(p, f, g),
         Top(p).at \notin {"pin", "gather"}, f.at \notin {"pin", "gather"}, g.at \notin {"pin", "gather"},
         barrier' = barrier, DOMAIN task \subseteq DOMAIN task',
         \A k \in DOMAIN task : task'[k].kind = task[k].kind /\ (task[k].kind = "pin" => task'[k].from = task[k].from),
         \A k \in DOMAIN task' : k \in DOMAIN task \/ task'[k].kind # "pin",
         \A k \in PinTasks : Gone(k)' <=> Gone(k)
  PROVE  Pins'
<1>1. Shape /\ Pins /\ Top(p) \in FrameSet
  BY TopFacts DEF IInv
<1>2. /\ Pinners \in Nat /\ Pinners' \in Nat
      /\ Pinners' + IsPinner(Top(p)) = Pinners + IsPinner(f) + IsPinner(g)
      /\ \A k \in Nat \ {0} :
              /\ Gathered(k) \in Nat /\ Gathered(k)' \in Nat
              /\ Gathered(k)' + IsGather(Top(p), k) = Gathered(k) + IsGather(f, k) + IsGather(g, k)
  BY <1>1, PinTally
<1>3. Pinners' = Pinners
  <2>1. IsPinner(Top(p)) = 0 /\ IsPinner(f) = 0 /\ IsPinner(g) = 0
    BY DEF IsPinner
  <2> QED BY <1>2, <2>1
<1>4. \A k \in Nat \ {0} : Gathered(k)' = Gathered(k)
  <2>1. \A k : IsGather(Top(p), k) = 0 /\ IsGather(f, k) = 0 /\ IsGather(g, k) = 0
    BY DEF IsGather
  <2> QED BY <1>2, <2>1
<1>5. PinTasks' = PinTasks /\ PinTasks \subseteq Nat \ {0} /\ PinTasks \subseteq DOMAIN task
  BY <1>1, LenProperties DEF PinTasks, Shape
<1>6. \A k \in PinTasks : task'[k].from = task[k].from /\ (Noted(k)' <=> Noted(k))
  BY <1>4, <1>5 DEF PinTasks, Noted
<1>7. PinTasks' \ deleted' = PinTasks \ deleted
  BY <1>5 DEF Gone
<1>8. Absent' = Absent
  BY <1>5, <1>6 DEF Absent
<1>9. ASSUME NEW x \in Frames', Frame(x)'.at = "pin", NEW id \in PinTasks
      PROVE  task[id].from < Frame(x)'.next
  <2>1. \/ x \in Frames /\ x # End(stack, p) /\ Frame(x)' = Frame(x)
        \/ x[1] = p /\ Frame(x)' # Nil /\ (Frame(x)' = f \/ Frame(x)' = g)
    BY DEF Moved
  <2>2. x \in Frames /\ Frame(x)' = Frame(x)
    BY <1>9, <2>1
  <2> QED BY <1>1, <1>9, <2>2 DEF Pins
<1>10. Cardinality(PinTasks \ deleted)' = Cardinality(PinTasks \ deleted) /\ Cardinality(Absent)' = Cardinality(Absent)
  BY <1>7, <1>8
<1>11. \A k \in PinTasks : task'[k].from = task[k].from
  BY <1>6
<1> QED BY <1>1, <1>3, <1>5, <1>9, <1>10, <1>11 DEF Pins

LEMMA BoundsStay ==
  ASSUME NEW i, NEW o, QueueStep(i, o), done' \in BOOLEAN, cpus' \in [Pool -> SUBSET (0 .. N - 1)]
  PROVE  Bounds'
BY DEF Bounds, QueueStep

\* The frame f follows the running frame of p in a step of Work that only
\* changes the range of the task it runs.
Follows(p, f) ==
  /\ stack[p] # <<>> /\ f \in FrameSet /\ Becomes(p, f, <<>>) /\ SameRole(Top(p), f)
  /\ Top(p).at \notin {"pin", "gather"} /\ f.at \notin {"pin", "gather"}
  /\ UNCHANGED <<queues, node, deleted, done, cpus, barrier, plan>>

LEMMA WorkGoes ==
  ASSUME IInv, NEW p \in Procs, NEW f, Follows(p, f),
         task' \in Seq(TaskSet), Len(task') = Len(task),
         \A k \in DOMAIN task : Onward(k) /\ (task'[k] = task[k] \/ k = Top(p).id),
         \A k \in DOMAIN task : task[k].kind = "pin" => task'[k] = task[k],
         FrameOK(p, f)', Busy(f)'
  PROVE  IInv'
<1>1. Shape /\ Bounds
  BY DEF IInv
<1>2. /\ stack[p] # <<>> /\ f \in FrameSet /\ SameRole(Top(p), f)
      /\ Top(p).at \notin {"pin", "gather"} /\ f.at \notin {"pin", "gather"}
      /\ UNCHANGED queues /\ node' = node /\ deleted' = deleted /\ plan' = plan
      /\ done' = done /\ cpus' = cpus /\ barrier' = barrier
  BY DEF Follows
<1>3. Moved(p, f, Nil)
  <2>1. Becomes(p, f, <<>>)
    BY DEF Follows
  <2> QED BY <1>1, <1>2, <2>1, BecomesMoves
<1>4. QueueStep(0, 0)
  BY <1>1, <1>2, QueuesStay
<1>5. Shape' /\ FramesOK' /\ TasksOK' /\ Lives' /\ Refs'
  <2>1. \A k \in Nat \ {0} : Even(Top(p), f, Nil, 0, 0, k)
    BY <1>2, SameEven
  <2>2. Top(p).at # "enter"
    BY <1>2 DEF SameRole
  <2> QED BY <1>2, <1>3, <1>4, <2>1, <2>2, Passes
<1>6. Pins'
  <2>1. Nil.at \notin {"pin", "gather"}
    BY DEF Nil
  <2>2. DOMAIN task' = DOMAIN task
    BY <1>1 DEF Shape
  <2>3. \A k \in DOMAIN task : task'[k].kind = task[k].kind /\ (task[k].kind = "pin" => task'[k].from = task[k].from)
    BY DEF Onward
  <2>4. \A k \in PinTasks : Gone(k)' <=> Gone(k)
    BY <1>2 DEF Gone
  <2> QED BY <1>2, <1>3, <2>1, <2>2, <2>3, <2>4, WorkPins
<1>7. Bounds'
  <2>1. done' \in BOOLEAN /\ cpus' \in [Pool -> SUBSET (0 .. N - 1)]
    BY <1>1, <1>2 DEF Bounds
  <2> QED BY <1>4, <2>1, BoundsStay
<1> QED BY <1>5, <1>6, <1>7 DEF IInv

\* The same, and the tasks stay as they are.
LEMMA WorkWaits ==
  ASSUME IInv, NEW p \in Procs, NEW f, Follows(p, f), task' = task, FrameOK(p, f), Busy(f)
  PROVE  IInv'
<1>1. /\ task' \in Seq(TaskSet) /\ Len(task') = Len(task)
  BY DEF IInv, Shape
<1>2. \A k \in DOMAIN task : Onward(k) /\ (task'[k] = task[k] \/ k = Top(p).id)
  BY DEF IInv, TasksOK, Onward, TaskOK
<1>3. FrameOK(p, f)'
  BY DEF FrameOK, IsLoop, InTask, LoopLabels, Pool
<1>4. Busy(f)'
  BY DEF Busy, InTask, Bodies
<1> QED BY <1>1, <1>2, <1>3, <1>4, WorkGoes

\* Its task id becomes t.
LEMMA WorkTurns ==
  ASSUME IInv, NEW p \in Procs, NEW f, Follows(p, f), NEW id, id = Top(p).id, id \in DOMAIN task,
         NEW t \in TaskSet, task' = Replace(task, id, t),
         t.kind = task[id].kind, t.kind # "pin", t.state = task[id].state, t.holds = task[id].holds,
         t.from <= t.to, t.share => t.lo < t.hi,
         FrameOK(p, f), f.at \in InTask \ {"release"} => t.holds, f.at \in Bodies => t.from < t.to
  PROVE  IInv'
<1>1. /\ task' \in Seq(TaskSet) /\ Len(task') = Len(task) /\ DOMAIN task' = DOMAIN task
      /\ task'[id] = t /\ \A k \in DOMAIN task : k # id => task'[k] = task[k]
  BY Retasked DEF IInv
<1>2. \A k \in DOMAIN task : Onward(k) /\ (task'[k] = task[k] \/ k = Top(p).id)
  BY <1>1 DEF IInv, TasksOK, Onward, TaskOK
<1>3. \A k \in DOMAIN task : task'[k].kind = task[k].kind
  BY <1>2 DEF Onward
<1>4. f \in FrameSet /\ f.id = id
  BY DEF Follows, SameRole
<1>5. FrameOK(p, f)'
  <2>1. f.at \in InTask \cup {"enter", "leave", "to_pin", "pinned"} => f.id # 0
    BY <1>4 DEF FrameSet, TaskFrames, LoopFrames, MainFrames, PinFrames, LoopLabels, InTask
  <2>2. f.at = "self" => task'[f.ptr].kind = task[f.ptr].kind
    BY <1>3 DEF FrameOK
  <2> QED BY <1>1, <1>3, <1>4, <2>1, <2>2 DEF FrameOK, IsLoop
<1>6. Busy(f)'
  BY <1>1, <1>4 DEF Busy, InTask, Bodies
<1>7. \A k \in DOMAIN task : task[k].kind = "pin" => task'[k] = task[k]
  BY <1>1
<1> QED BY <1>1, <1>2, <1>5, <1>6, <1>7, WorkGoes

-----------------------------------------------------------------------------
(* The frames.                                                             *)

LEMMA FrameKinds == ASSUME NEW f \in FrameSet
                    PROVE  /\ f.at \in LoopLabels => f \in LoopFrames
                           /\ f.at \in InTask \cup {"enter", "leave", "to_pin", "pinned"} => f \in TaskFrames
                           /\ f.at = "main" => f \in MainFrames
                           /\ f.at = "pin" => f \in PinFrames
BY DEF FrameSet, TaskFrames, LoopFrames, MainFrames, PinFrames, TaskLabels, LoopLabels, InTask

LEMMA TaskFrameIn == ASSUME NEW id \in Nat \ {0}, NEW at \in TaskLabels
                     PROVE  /\ TaskFrame(id, at) \in FrameSet /\ TaskFrame(id, at).at = at
                            /\ TaskFrame(id, at).id = id /\ TaskFrame(id, at).ptr = 0
                            /\ TaskFrame(id, at).todo = <<>>
<1>1. <<>> \in Seq(PartSet)
  BY EmptySeq
<1> QED BY <1>1 DEF TaskFrame, FrameSet, TaskFrames, NoTask

LEMMA LoopFrameIn == ASSUME NEW id \in Nat, NEW at \in LoopLabels, NEW empty \in BOOLEAN
                     PROVE  /\ LoopFrame(id, at, empty) \in LoopFrames /\ LoopFrame(id, at, empty) \in FrameSet
                            /\ LoopFrame(id, at, empty).at = at /\ LoopFrame(id, at, empty).id = id
                            /\ LoopFrame(id, at, empty).empty = empty
                            /\ LoopFrame(id, at, empty).victim \in Pool
                            /\ LoopFrame(id, at, empty).inc <= N
<1>1. 0 \in Pool /\ 0 <= N
  BY Team, ShapeAssumption
<1> QED BY <1>1 DEF LoopFrame, FrameSet, LoopFrames

LEMMA AgainIn == ASSUME NEW p, NEW e, FrameOK(p, e), e \in LoopFrames, e.at \in LoopLabels \ {"join"},
                        NEW empty \in BOOLEAN, NEW f, f = Again(e, empty)
                 PROVE  /\ f \in FrameSet /\ f.id = e.id /\ f.at \in {"pop", "join"} /\ FrameOK(p, f) /\ Busy(f)
<1>1. e.id \in Nat /\ 0 \in Nat /\ "pop" \in LoopLabels /\ "join" \in LoopLabels
  BY DEF LoopFrames, LoopLabels
<1>2. f = LoopFrame(e.id, IF e.id = 0 THEN "pop" ELSE "join", IF e.id = 0 THEN empty ELSE FALSE)
  BY DEF Again, NoTask, LoopFrame
<1>3. /\ f \in FrameSet /\ f.victim \in Pool /\ f.inc <= N /\ f.id = e.id
      /\ f.at = IF e.id = 0 THEN "pop" ELSE "join"
  <2>1. CASE e.id = 0
    <3>1. f = LoopFrame(e.id, "pop", empty)
      BY <1>2, <2>1
    <3> QED BY <1>1, <2>1, <3>1, LoopFrameIn
  <2>2. CASE e.id # 0
    <3>1. PICK b \in BOOLEAN : b = FALSE
      OBVIOUS
    <3>2. f = LoopFrame(e.id, "join", b)
      BY <1>2, <2>2, <3>1 DEF LoopFrame
    <3> QED BY <1>1, <2>2, <3>2, LoopFrameIn
  <2> QED BY <2>1, <2>2
<1>4. FrameOK(p, f)
  BY <1>1, <1>3 DEF FrameOK, InTask, LoopLabels
<1>5. Busy(f)
  BY <1>3 DEF Busy, InTask, Bodies
<1> QED BY <1>3, <1>4, <1>5

-----------------------------------------------------------------------------
(* Threads that look for tasks and find none.                              *)

\* Thread p is in a loop of WorkerLoop.
LEMMA LoopTop == ASSUME IInv, NEW p \in Procs, stack[p] # <<>>, Top(p).at \in LoopLabels
                 PROVE  /\ Top(p) \in LoopFrames /\ FrameOK(p, Top(p)) /\ Top(p).id \in Nat
                        /\ Top(p).at # "join" => p \in Pool
<1>1. Top(p) \in FrameSet /\ FrameOK(p, Top(p))
  BY TopFacts
<1>2. Top(p) \in LoopFrames
  BY <1>1, FrameKinds
<1> QED BY <1>1, <1>2 DEF LoopFrames, FrameOK

\* It goes on to another stage of this loop.
LEMMA LoopGoes ==
  ASSUME IInv, NEW p \in Procs, stack[p] # <<>>, Top(p).at \in LoopLabels, NEW f \in FrameSet,
         f.id = Top(p).id, f.at \in LoopLabels, Becomes(p, f, <<>>), FrameOK(p, f),
         UNCHANGED <<queues, objects, done, cpus, barrier, plan>>
  PROVE  IInv'
<1>1. Follows(p, f)
  BY DEF Follows, SameRole, LoopLabels, objects
<1>2. Busy(f) /\ task' = task
  BY DEF Busy, LoopLabels, InTask, Bodies, objects
<1> QED BY <1>1, <1>2, WorkWaits

LEMMA NothingFoundGoesOn ==
  ASSUME IInv, NEW p \in Procs, stack[p] # <<>>, Top(p).at \in LoopLabels \ {"join"},
         NEW empty \in BOOLEAN, Becomes(p, Again(Top(p), empty), <<>>),
         UNCHANGED <<queues, objects, done, cpus, barrier, plan>>
  PROVE  IInv'
<1>1. PICK f : f = Again(Top(p), empty)
  OBVIOUS
<1>2. Becomes(p, f, <<>>)
  BY <1>1 DEF Becomes
<1>3. PICK e : e = Top(p)
  OBVIOUS
<1>4. e \in LoopFrames /\ FrameOK(p, e) /\ f = Again(e, empty)
  BY <1>1, <1>3, LoopTop
<1>5. f \in FrameSet /\ f.id = e.id /\ f.at \in {"pop", "join"} /\ FrameOK(p, f)
  BY <1>3, <1>4, AgainIn
<1> QED BY <1>2, <1>3, <1>5, LoopGoes DEF LoopLabels

LEMMA JoinGoesOn ==
  ASSUME IInv, NEW p \in Procs, At(p, "join"), p \in Pool,
         Becomes(p, LoopFrame(Top(p).id, "pop", FALSE), <<>>),
         UNCHANGED <<queues, objects, done, cpus, barrier, plan>>
  PROVE  IInv'
<1>1. PICK f : f = LoopFrame(Top(p).id, "pop", FALSE)
  OBVIOUS
<1>2. Becomes(p, f, <<>>) /\ stack[p] # <<>> /\ Top(p).at = "join"
  BY <1>1 DEF Becomes, At
<1>3. Top(p) \in LoopFrames /\ FrameOK(p, Top(p)) /\ Top(p).id \in Nat
  BY <1>2, LoopTop DEF LoopLabels
<1>4. f \in FrameSet /\ f.id = Top(p).id /\ f.at = "pop" /\ f.victim \in Pool /\ f.inc <= N
  <2>1. PICK id \in Nat, at \in LoopLabels, empty \in BOOLEAN : id = Top(p).id /\ at = "pop" /\ empty = FALSE
    BY <1>3 DEF LoopLabels
  <2>2. f = LoopFrame(id, at, empty)
    BY <1>1, <2>1
  <2>3. f \in FrameSet /\ f.id = id /\ f.at = at /\ f.victim \in Pool /\ f.inc <= N
    BY <2>2, LoopFrameIn
  <2> QED BY <2>1, <2>3
<1>5. FrameOK(p, f)
  BY <1>2, <1>3, <1>4 DEF FrameOK, InTask, LoopLabels
<1> QED BY <1>2, <1>4, <1>5, LoopGoes DEF LoopLabels

\* The frame is the same but for its stage, and for its walk.
LEMMA StageGoes ==
  ASSUME IInv, NEW p \in Procs, stack[p] # <<>>, Top(p).at \in LoopLabels \ {"join"},
         NEW f \in LoopFrames, f.id = Top(p).id, f.at \in {"mail", "steal", "rob"}, Becomes(p, f, <<>>),
         f.victim \in Pool, f.inc <= N, f.at = "rob" => f.left > 0,
         UNCHANGED <<queues, objects, done, cpus, barrier, plan>>
  PROVE  IInv'
<1>1. Top(p) \in LoopFrames /\ FrameOK(p, Top(p)) /\ p \in Pool
  BY LoopTop
<1>2. FrameOK(p, f)
  BY <1>1 DEF FrameOK, InTask, LoopLabels
<1>3. f \in FrameSet
  BY DEF FrameSet
<1> QED BY <1>2, <1>3, LoopGoes DEF LoopLabels

LEMMA WalkFacts == ASSUME NEW w \in Walks(N) PROVE w.victim \in Pool /\ w.inc \in Nat /\ w.inc <= N
<1>1. N \in Nat \ {0}
  BY ShapeAssumption
<1>2. w.victim \in 0 .. N - 1 /\ w.inc \in 1 .. N
  BY <1>1, WalksInside DEF CoprimeTo
<1> QED BY <1>1, <1>2 DEF Pool

LEMMA NextVictimIn ==
  ASSUME NEW e \in LoopFrames, e.left > 0, e.victim \in Pool, e.inc <= N, NEW f, f = NextVictim(e)
  PROVE  f \in LoopFrames /\ f.id = e.id /\ f.at = "steal" /\ f.victim \in Pool /\ f.inc <= N
<1>1. N \in Nat \ {0} /\ e.left \in Nat /\ e.inc \in 0 .. N /\ e.victim \in 0 .. N - 1 /\ Pool = 0 .. N - 1
  BY ShapeAssumption DEF LoopFrames, Pool
<1>2. Advance(N, e.victim, e.inc) \in 0 .. N - 1
  BY <1>1, AdvanceInside
<1>3. PICK v, i : /\ v = IF e.left = 1 THEN 0 ELSE Advance(N, e.victim, e.inc)
                  /\ i = IF e.left <= 2 THEN 0 ELSE e.inc
  OBVIOUS
<1>4. v \in 0 .. N - 1 /\ i \in 0 .. N /\ e.left - 1 \in Nat
  BY <1>1, <1>2, <1>3
<1>5. f = [e EXCEPT !.at = "steal", !.left = e.left - 1, !.victim = v, !.inc = i]
  BY <1>3 DEF NextVictim
<1>6. /\ "steal" \in LoopLabels /\ Pool \subseteq Nat /\ i \in Nat /\ i <= N
  BY <1>1, <1>4 DEF LoopLabels
<1>7. f \in LoopFrames
  BY ONLY <1>4, <1>5, <1>6, <1>1, e \in LoopFrames DEF LoopFrames
<1>8. f.id = e.id /\ f.at = "steal" /\ f.victim = v /\ f.inc = i
  BY <1>5 DEF LoopFrames
<1> QED BY <1>1, <1>4, <1>6, <1>7, <1>8

-----------------------------------------------------------------------------
(* Threads that find a task.                                               *)

Queueable == {"proxy", "pin", "unique"}

LEMMA EntryIn ==
  ASSUME NEW id \in Nat \ {0}, NEW kind \in Queueable, NEW g, g = Entry(id, kind)
  PROVE  g \in FrameSet /\ g.id = id /\ g.ptr = 0
<1>1. CASE kind = "proxy"
  <2>1. g = TaskFrame(id, "enter") /\ "enter" \in TaskLabels
    BY <1>1 DEF Entry, TaskLabels
  <2>2. g \in FrameSet /\ g.id = id /\ g.ptr = 0 /\ g.at = "enter"
    BY ONLY <2>1, TaskFrameIn, id \in Nat \ {0}
  <2> QED BY <1>1, <2>2
<1>2. CASE kind = "pin"
  <2>1. g = TaskFrame(id, "to_pin") /\ "to_pin" \in TaskLabels
    BY <1>2 DEF Entry, TaskLabels
  <2>2. g \in FrameSet /\ g.id = id /\ g.ptr = 0 /\ g.at = "to_pin"
    BY ONLY <2>1, TaskFrameIn, id \in Nat \ {0}
  <2> QED BY <1>2, <2>2
<1>3. CASE kind = "unique"
  <2>1. g = TaskFrame(id, "split") /\ "split" \in TaskLabels
    BY <1>3 DEF Entry, TaskLabels, InTask
  <2>2. g \in FrameSet /\ g.id = id /\ g.ptr = 0 /\ g.at = "split"
    BY ONLY <2>1, TaskFrameIn, id \in Nat \ {0}
  <2> QED BY <1>3, <2>2
<1> QED BY <1>1, <1>2, <1>3 DEF Queueable

LEMMA EntryAt ==
  ASSUME NEW id \in Nat \ {0}, NEW kind \in Queueable, NEW g, g = Entry(id, kind)
  PROVE  /\ kind = "proxy" => g.at = "enter"
         /\ kind = "pin" => g.at = "to_pin"
         /\ kind = "unique" => g.at = "split"
<1>1. CASE kind = "proxy"
  <2>1. g = TaskFrame(id, "enter") /\ "enter" \in TaskLabels
    BY <1>1 DEF Entry, TaskLabels
  <2>2. g.at = "enter"
    BY ONLY <2>1, TaskFrameIn, id \in Nat \ {0}
  <2> QED BY <1>1, <2>2
<1>2. CASE kind = "pin"
  <2>1. g = TaskFrame(id, "to_pin") /\ "to_pin" \in TaskLabels
    BY <1>2 DEF Entry, TaskLabels
  <2>2. g.at = "to_pin"
    BY ONLY <2>1, TaskFrameIn, id \in Nat \ {0}
  <2> QED BY <1>2, <2>2
<1>3. CASE kind = "unique"
  <2>1. g = TaskFrame(id, "split") /\ "split" \in TaskLabels
    BY <1>3 DEF Entry, TaskLabels, InTask
  <2>2. g.at = "split"
    BY ONLY <2>1, TaskFrameIn, id \in Nat \ {0}
  <2> QED BY <1>3, <2>2
<1> QED BY <1>1, <1>2, <1>3 DEF Queueable

\* What the entry of a task counts as.
LEMMA EntryWeight ==
  ASSUME NEW id \in Nat \ {0}, NEW kind \in Queueable, NEW g, g = Entry(id, kind), NEW k \in Nat \ {0}
  PROVE  /\ IsMention(g, k) = (IF kind = "proxy" THEN Same(k, id) ELSE 0)
         /\ IsRun(g, k) = (IF kind = "proxy" THEN 0 ELSE Same(k, id)) /\ IsDrop(g, k) = 0
<1>1. g.id = id /\ g.ptr = 0
  BY EntryIn
<1>2. (kind = "proxy" /\ g.at = "enter") \/ (kind # "proxy" /\ g.at \in {"to_pin", "split"})
  BY EntryAt DEF Queueable
<1> QED BY <1>1, <1>2 DEF IsMention, IsRun, IsDrop, Same

\* An element of a queue is a task that waits to be run.
LEMMA Queuing ==
  ASSUME IInv, NEW id \in Nat \ {0}, Mentioned(id) > 0
  PROVE  /\ id \in DOMAIN task /\ ~Gone(id) /\ Life(id) /\ task[id] \in TaskSet
         /\ task[id].kind \in Queueable /\ (task[id].kind = "unique" => task[id].holds)
<1>1. id \in DOMAIN task /\ ~Gone(id)
  BY RanOnce DEF IInv
<1>2. Life(id) /\ task[id] \in TaskSet
  BY <1>1, ElementOfSeq DEF IInv, Lives, LifeAt, Shape
<1>3. task[id].kind \in Kinds /\ Mentioned(id) \in Nat
  BY <1>2, Tallies DEF TaskSet, IInv
<1>4. ~IsLoop(id)
  BY <1>2, <1>3 DEF Life
<1> QED BY <1>1, <1>2, <1>3, <1>4 DEF Kinds, IsLoop, Life, Waiting, Queueable

LEMMA FoundRuns ==
  ASSUME IInv, NEW p \in Procs, stack[p] # <<>>, Top(p).at \in LoopLabels \ {"join"},
         NEW id \in Nat \ {0}, QueueStep(0, id), Found(p, id),
         UNCHANGED <<objects, done, cpus, barrier, plan>>
  PROVE  IInv'
<1>0. /\ Shape /\ FramesOK /\ TasksOK /\ Lives /\ Refs /\ Bounds
      /\ task' = task /\ node' = node /\ deleted' = deleted
      /\ DOMAIN task \subseteq Nat \ {0} /\ DOMAIN node = DOMAIN task
  BY LenProperties DEF IInv, objects, Shape
<1>1. PICK e : e = Top(p)
  OBVIOUS
<1>2. e \in LoopFrames /\ FrameOK(p, e) /\ p \in Pool /\ e.at \in LoopLabels \ {"join"}
  BY <1>1, LoopTop
<1>3. PICK b \in BOOLEAN : b = FALSE
  OBVIOUS
<1>4. PICK f : f = Again(e, b)
  OBVIOUS
<1>5. f \in FrameSet /\ f.id = e.id /\ f.at \in {"pop", "join"} /\ FrameOK(p, f) /\ Busy(f)
  BY <1>2, <1>4, AgainIn
<1>6. Mentioned(id) > 0
  <2>1. InQueues(id) \in Nat /\ Carried(id) \in Nat
    BY <1>0, Tallies
  <2>2. InQueues(id)' \in Nat /\ InQueues(id)' + Same(id, id) = InQueues(id) + Same(id, 0)
    BY DEF QueueStep
  <2>3. Same(id, id) = 1 /\ Same(id, 0) = 0
    BY DEF Same
  <2> QED BY <2>1, <2>2, <2>3 DEF Mentioned
<1>7. /\ id \in DOMAIN task /\ ~Gone(id) /\ Life(id) /\ task[id] \in TaskSet
      /\ task[id].kind \in Queueable /\ (task[id].kind = "unique" => task[id].holds)
  BY <1>6, Queuing
<1>8. PICK kind : kind = task[id].kind
  OBVIOUS
<1>9. PICK g : g = Entry(id, kind)
  OBVIOUS
<1>10. /\ kind \in Queueable /\ g \in FrameSet /\ g.id = id /\ g.ptr = 0
       /\ \/ kind = "proxy" /\ g.at = "enter"
          \/ kind = "pin" /\ g.at = "to_pin"
          \/ kind = "unique" /\ g.at = "split"
  <2>1. kind \in Queueable /\ id \in Nat \ {0}
    BY <1>7, <1>8
  <2>2. g \in FrameSet /\ g.id = id /\ g.ptr = 0
    BY <2>1, <1>9, EntryIn
  <2>3. /\ kind = "proxy" => g.at = "enter"
        /\ kind = "pin" => g.at = "to_pin"
        /\ kind = "unique" => g.at = "split"
    BY <2>1, <1>9, EntryAt
  <2> QED BY <2>1, <2>2, <2>3 DEF Queueable
<1>11. Becomes(p, f, <<g>>)
  BY <1>1, <1>3, <1>4, <1>8, <1>9 DEF Found, Becomes
<1>12. Moved(p, f, g)
  BY <1>0, <1>5, <1>10, <1>11, CallsMoves
<1>13. FrameOK(p, g) /\ Busy(g)
  <2>1. id \in 0 .. Len(task)
    BY <1>0, <1>7, LenProperties DEF Shape
  <2> QED BY <1>7, <1>8, <1>10, <2>1 DEF FrameOK, Busy, InTask, LoopLabels, Bodies
<1>14. /\ FrameOK(p, f)' /\ Busy(f)' /\ FrameOK(p, g)' /\ Busy(g)'
  BY <1>0, <1>5, <1>13 DEF FrameOK, Busy, IsLoop
<1>15. FramesOK'
  <2>1. task' \in Seq(TaskSet) /\ Len(task') >= Len(task)
    BY <1>0, LenProperties DEF Shape
  <2>2. \A k \in DOMAIN task : task'[k].kind = task[k].kind /\ (Quiet(k) \/ (k = Top(p).id /\ Top(p).at # "enter"))
    BY <1>0 DEF Quiet
  <2> QED BY <1>0, <1>12, <1>14, <2>1, <2>2, FramesStay
<1>16. Shape'
  <2>1. stack' \in [Procs -> Seq(FrameSet)]
    BY <1>12 DEF Moved
  <2>2. local' \in [Pool -> Seq(Nat \ {0})] /\ mail' \in [Pool -> Seq(Nat \ {0})]
    BY DEF QueueStep
  <2> QED BY <1>0, <2>1, <2>2 DEF Shape
<1>17. TasksOK'
  BY <1>0 DEF TasksOK, TaskOK, Rootless, IsLoop, Gone
<1>18. ASSUME NEW k \in Nat \ {0}
       PROVE  /\ Mentioned(k) \in Nat /\ Mentioned(k)' \in Nat
              /\ Ran(k) \in Nat /\ Ran(k)' \in Nat /\ Dropped(k)' = Dropped(k)
              /\ Mentioned(k)' + Same(k, id) = Mentioned(k) + IF kind = "proxy" THEN Same(k, id) ELSE 0
              /\ Ran(k)' = Ran(k) + IF kind = "proxy" THEN 0 ELSE Same(k, id)
  <2>1. /\ Mentioned(k) \in Nat /\ Mentioned(k)' \in Nat
        /\ Ran(k) \in Nat /\ Ran(k)' \in Nat /\ Dropped(k) \in Nat /\ Dropped(k)' \in Nat
        /\ Mentioned(k)' + IsMention(e, k) + Same(k, id)
              = Mentioned(k) + IsMention(f, k) + IsMention(g, k) + Same(k, 0)
        /\ Ran(k)' + IsRun(e, k) = Ran(k) + IsRun(f, k) + IsRun(g, k)
        /\ Dropped(k)' + IsDrop(e, k) = Dropped(k) + IsDrop(f, k) + IsDrop(g, k)
    BY <1>0, <1>1, <1>12, Deltas
  <2>2. /\ IsMention(g, k) = (IF kind = "proxy" THEN Same(k, id) ELSE 0)
        /\ IsRun(g, k) = (IF kind = "proxy" THEN 0 ELSE Same(k, id)) /\ IsDrop(g, k) = 0
    <3>1. kind \in Queueable /\ id \in Nat \ {0} /\ k \in Nat \ {0}
      BY <1>10
    <3> QED BY ONLY <3>1, <1>9, EntryWeight
  <2>3. /\ IsMention(e, k) = 0 /\ IsMention(f, k) = 0 /\ IsDrop(e, k) = 0 /\ IsDrop(f, k) = 0
        /\ IsRun(e, k) = IsRun(f, k) /\ IsRun(e, k) \in {0, 1} /\ Same(k, 0) = 0 /\ Same(k, id) \in {0, 1}
    BY <1>2, <1>5 DEF IsMention, IsDrop, IsRun, Same, LoopLabels
  <2> QED BY <2>1, <2>2, <2>3
<1>19. Lives'
  <2>1. ASSUME NEW k \in Nat \ {0} PROVE LifeAt(k)'
    <3>1. LifeAt(k)
      BY <1>0 DEF Lives
    <3>2. CASE kind = "proxy" \/ k # id
      <4>1. Same(k, id) = 0 \/ kind = "proxy"
        BY <3>2 DEF Same
      <4>2. Same(k, id) \in Nat
        BY DEF Same
      <4>3. Mentioned(k)' = Mentioned(k) /\ Ran(k)' = Ran(k) /\ Dropped(k)' = Dropped(k)
        BY <1>18, <4>1, <4>2
      <4>4. Gone(k)' <=> Gone(k)
        BY <1>0 DEF Gone
      <4> QED BY <1>0, <3>1, <4>3, <4>4, LifeStays
    <3>3. CASE kind # "proxy" /\ k = id
      <4>1. Same(k, id) = 1 /\ kind \in {"unique", "pin"}
        BY <1>10, <3>3 DEF Same, Queueable
      <4>2. Mentioned(id) + Ran(id) = 1
        BY <1>7, <1>8, <4>1 DEF Life
      <4>3. Mentioned(id)' + 1 = Mentioned(id) + 0 /\ Ran(id)' = Ran(id) + 1
        BY <1>18, <3>3, <4>1
      <4>4. Mentioned(id)' = 0 /\ Ran(id)' = 1
        BY <1>18, <4>2, <4>3
      <4>5. id \in DOMAIN task' /\ task'[id].kind = kind /\ ~Gone(id)'
        BY <1>0, <1>7, <1>8 DEF Gone
      <4> QED BY <3>3, <4>1, <4>4, <4>5 DEF LifeAt, Life, IsLoop, Waiting
    <3> QED BY <3>2, <3>3
  <2> QED BY <2>1 DEF Lives
<1>20. Refs'
  <2>1. ASSUME NEW n \in DOMAIN node PROVE RefsAt(n)'
    <3>1. RefsAt(n) /\ n \in Nat \ {0}
      BY <1>0 DEF Refs
    <3>2. Dropped(n)' = Dropped(n)
      BY <1>18, <3>1
    <3>3. /\ Children(n)' = Children(n) /\ node'[n].count = node[n].count
          /\ Held(n)' = Held(n) /\ Owned(n)' = Owned(n)
      BY <1>0 DEF Children, Held, Owned, IsLoop, Gone
    <3> QED BY <3>1, <3>2, <3>3, RefsStay
  <2> QED BY <1>0, <2>1 DEF Refs
<1>21. Pins'
  <2>1. /\ Top(p).at \notin {"pin", "gather"} /\ f.at \notin {"pin", "gather"} /\ g.at \notin {"pin", "gather"}
    BY <1>5, <1>10 DEF LoopLabels
  <2>2. \A k \in PinTasks : Gone(k)' <=> Gone(k)
    BY <1>0 DEF Gone
  <2> QED BY <1>0, <1>12, <2>1, <2>2, WorkPins
<1>22. Bounds'
  <2>1. done' \in BOOLEAN /\ cpus' \in [Pool -> SUBSET (0 .. N - 1)]
    BY <1>0 DEF Bounds
  <2> QED BY <2>1, BoundsStay
<1> QED BY <1>15, <1>16, <1>17, <1>19, <1>20, <1>21, <1>22 DEF IInv

-----------------------------------------------------------------------------
(* Looking for tasks.                                                      *)

\* The same loop at another stage.
LEMMA StageIn ==
  ASSUME NEW e \in LoopFrames, e.victim \in Pool, e.inc <= N, NEW at \in LoopLabels, NEW f,
         f = [e EXCEPT !.at = at]
  PROVE  f \in LoopFrames /\ f.id = e.id /\ f.at = at /\ f.victim \in Pool /\ f.inc <= N /\ f.left = e.left
BY DEF LoopFrames

LEMMA TakeLocalFrontKeeps ==
  ASSUME IInv, NEW p \in Procs, TakeLocalFront(p), UNCHANGED <<cpus, barrier, plan>>
  PROVE  IInv'
<1>1. /\ stack[p] # <<>> /\ Top(p).at = "pop" /\ Top(p).at \in LoopLabels \ {"join"}
      /\ mail' = mail /\ UNCHANGED <<objects, done, cpus, barrier, plan>>
  BY DEF TakeLocalFront, At, LoopLabels
<1>2. /\ Top(p) \in LoopFrames /\ FrameOK(p, Top(p)) /\ p \in Pool
  BY <1>1, LoopTop
<1>3. CASE local[p] # <<>>
  <2>1. Found(p, Last(local[p])) /\ TookFront(local, local', p)
    BY <1>3 DEF TakeLocalFront, TookFront
  <2>2. PICK o \in Nat \ {0} : o = Last(local[p]) /\ QueueStep(0, o)
    BY <1>1, <1>2, <2>1, LocalFrontPop DEF IInv
  <2>3. Found(p, o)
    BY <2>1, <2>2 DEF Found, Becomes
  <2> QED BY <1>1, <2>2, <2>3, FoundRuns
<1>4. CASE local[p] = <<>>
  <2>1. PICK f : f = [Top(p) EXCEPT !.at = "mail"]
    OBVIOUS
  <2>2. Becomes(p, f, <<>>) /\ local' = local
    BY <1>4, <2>1 DEF TakeLocalFront, Becomes
  <2>3. f \in LoopFrames /\ f.id = Top(p).id /\ f.at = "mail" /\ f.victim \in Pool /\ f.inc <= N
    BY <1>1, <1>2, <2>1, StageIn DEF FrameOK, LoopLabels
  <2> QED BY <1>1, <2>2, <2>3, StageGoes DEF queues
<1> QED BY <1>3, <1>4

LEMMA TakeMailKeeps ==
  ASSUME IInv, NEW p \in Procs, TakeMail(p), UNCHANGED <<cpus, barrier, plan>>
  PROVE  IInv'
<1>1. /\ stack[p] # <<>> /\ Top(p).at = "mail" /\ Top(p).at \in LoopLabels \ {"join"}
      /\ local' = local /\ UNCHANGED <<objects, done, cpus, barrier, plan>>
  BY DEF TakeMail, At, LoopLabels
<1>2. /\ Top(p) \in LoopFrames /\ FrameOK(p, Top(p)) /\ p \in Pool
  BY <1>1, LoopTop
<1>3. CASE mail[p] # <<>>
  <2>1. Found(p, Head(mail[p])) /\ Took(mail, mail', p)
    BY <1>3 DEF TakeMail, Took
  <2>2. PICK o \in Nat \ {0} : o = Head(mail[p]) /\ QueueStep(0, o)
    BY <1>1, <1>2, <2>1, MailPop DEF IInv
  <2>3. Found(p, o)
    BY <2>1, <2>2 DEF Found, Becomes
  <2> QED BY <1>1, <2>2, <2>3, FoundRuns
<1>4. CASE mail[p] = <<>> /\ Top(p).id # NoTask /\ ~HalfFull(p)
  <2>1. PICK b \in BOOLEAN : b = FALSE
    OBVIOUS
  <2>2. Becomes(p, Again(Top(p), b), <<>>) /\ mail' = mail
    BY <1>4, <2>1 DEF TakeMail
  <2> QED BY <1>1, <2>2, NothingFoundGoesOn DEF queues
<1>5. CASE mail[p] = <<>> /\ ~(Top(p).id # NoTask /\ ~HalfFull(p))
  <2>1. PICK f : f = [Top(p) EXCEPT !.at = "steal", !.left = N]
    OBVIOUS
  <2>2. Becomes(p, f, <<>>) /\ mail' = mail
    BY <1>5, <2>1 DEF TakeMail, Becomes
  <2>3. N \in Nat
    BY ShapeAssumption
  <2>4. f \in LoopFrames /\ f.id = Top(p).id /\ f.at = "steal" /\ f.victim \in Pool /\ f.inc <= N
    BY <1>1, <1>2, <2>1, <2>3 DEF FrameOK, LoopLabels, LoopFrames
  <2> QED BY <1>1, <2>2, <2>4, StageGoes DEF queues
<1> QED BY <1>3, <1>4, <1>5

LEMMA StealMailKeeps ==
  ASSUME IInv, NEW p \in Procs, StealMail(p), UNCHANGED <<cpus, barrier, plan>>
  PROVE  IInv'
<1>1. /\ stack[p] # <<>> /\ Top(p).at = "steal" /\ Top(p).at \in LoopLabels \ {"join"} /\ Top(p).left > 0
      /\ local' = local /\ UNCHANGED <<objects, done, cpus, barrier, plan>>
  BY DEF StealMail, At, LoopLabels
<1>2. PICK e : e = Top(p)
  OBVIOUS
<1>3. /\ e \in LoopFrames /\ FrameOK(p, e) /\ p \in Pool /\ e.at = "steal" /\ e.left > 0
  BY <1>1, <1>2, LoopTop
<1>4. PICK w \in IF e.left = N THEN Walks(N) ELSE {[victim |-> e.victim, inc |-> e.inc]} :
        LET v == w.victim
            f == [e EXCEPT !.victim = v, !.inc = w.inc]
        IN IF mail[v] # <<>>
           THEN Found(p, Head(mail[v])) /\ mail' = Replace(mail, v, Tail(mail[v]))
           ELSE /\ Becomes(p, IF f.empty THEN [f EXCEPT !.at = "rob"] ELSE NextVictim(f), <<>>)
                /\ UNCHANGED mail
  BY <1>2 DEF StealMail
<1>5. w.victim \in Pool /\ w.inc \in Nat /\ w.inc <= N
  <2>1. CASE w \in Walks(N)
    BY <2>1, WalkFacts
  <2>2. CASE w = [victim |-> e.victim, inc |-> e.inc]
    BY <1>3, <2>2 DEF FrameOK, LoopLabels, LoopFrames
  <2> QED BY <1>4, <2>1, <2>2
<1>6. PICK v : v = w.victim
  OBVIOUS
<1>7. PICK f : f = [e EXCEPT !.victim = v, !.inc = w.inc]
  OBVIOUS
<1>8. /\ v \in Pool /\ f \in LoopFrames /\ f.id = e.id /\ f.at = "steal" /\ f.left > 0
      /\ f.victim \in Pool /\ f.inc <= N
  <2>1. v \in Nat
    BY <1>5, <1>6 DEF Pool
  <2> QED BY <1>3, <1>5, <1>6, <1>7, <2>1 DEF LoopFrames
<1>9. CASE mail[v] # <<>>
  <2>1. Found(p, Head(mail[v])) /\ Took(mail, mail', v)
    BY <1>4, <1>6, <1>9 DEF Took
  <2>2. PICK o \in Nat \ {0} : o = Head(mail[v]) /\ QueueStep(0, o)
    BY <1>1, <1>8, <2>1, MailPop DEF IInv
  <2>3. Found(p, o)
    BY <2>1, <2>2 DEF Found, Becomes
  <2> QED BY <1>1, <2>2, <2>3, FoundRuns
<1>10. CASE mail[v] = <<>>
  <2>1. mail' = mail /\ Becomes(p, IF f.empty THEN [f EXCEPT !.at = "rob"] ELSE NextVictim(f), <<>>)
    BY <1>4, <1>6, <1>7, <1>10 DEF Becomes
  <2>2. PICK h : h = IF f.empty THEN [f EXCEPT !.at = "rob"] ELSE NextVictim(f)
    OBVIOUS
  <2>3. Becomes(p, h, <<>>)
    BY <2>1, <2>2 DEF Becomes
  <2>4. /\ h \in LoopFrames /\ h.id = f.id /\ h.at \in {"mail", "steal", "rob"} /\ h.victim \in Pool /\ h.inc <= N
        /\ h.at = "rob" => h.left > 0
    <3>1. CASE f.empty
      <4>1. h = [f EXCEPT !.at = "rob"]
        BY <2>2, <3>1
      <4> QED BY <1>8, <4>1, StageIn DEF LoopLabels
    <3>2. CASE ~f.empty
      <4>1. h = NextVictim(f)
        BY <2>2, <3>2
      <4> QED BY <1>8, <4>1, NextVictimIn
    <3> QED BY <3>1, <3>2
  <2> QED BY <1>1, <1>2, <1>8, <2>1, <2>3, <2>4, StageGoes DEF queues
<1> QED BY <1>9, <1>10

LEMMA StealLocalBackKeeps ==
  ASSUME IInv, NEW p \in Procs, StealLocalBack(p), UNCHANGED <<cpus, barrier, plan>>
  PROVE  IInv'
<1>1. /\ stack[p] # <<>> /\ Top(p).at = "rob" /\ Top(p).at \in LoopLabels \ {"join"}
      /\ mail' = mail /\ UNCHANGED <<objects, done, cpus, barrier, plan>>
  BY DEF StealLocalBack, At, LoopLabels
<1>2. /\ Top(p) \in LoopFrames /\ FrameOK(p, Top(p)) /\ p \in Pool
  BY <1>1, LoopTop
<1>3. PICK v : v = Top(p).victim
  OBVIOUS
<1>4. v \in Pool /\ Top(p).left > 0 /\ Top(p).victim \in Pool /\ Top(p).inc <= N
  BY <1>1, <1>2, <1>3 DEF FrameOK, LoopLabels
<1>5. CASE local[v] # <<>>
  <2>1. Found(p, Head(local[v])) /\ Took(local, local', v)
    BY <1>3, <1>5 DEF StealLocalBack, Took
  <2>2. PICK o \in Nat \ {0} : o = Head(local[v]) /\ QueueStep(0, o)
    BY <1>1, <1>4, <2>1, LocalBackPop DEF IInv
  <2>3. Found(p, o)
    BY <2>1, <2>2 DEF Found, Becomes
  <2> QED BY <1>1, <2>2, <2>3, FoundRuns
<1>6. CASE local[v] = <<>>
  <2>1. PICK f : f = NextVictim(Top(p))
    OBVIOUS
  <2>2. Becomes(p, f, <<>>) /\ local' = local
    BY <1>3, <1>6, <2>1 DEF StealLocalBack, Becomes
  <2>3. f \in LoopFrames /\ f.id = Top(p).id /\ f.at = "steal" /\ f.victim \in Pool /\ f.inc <= N
    BY <1>2, <1>4, <2>1, NextVictimIn
  <2> QED BY <1>1, <2>2, <2>3, StageGoes DEF queues
<1> QED BY <1>5, <1>6

-----------------------------------------------------------------------------
(* A task at work.                                                         *)

\* Thread p is in operator() of a task.
LEMMA TaskTop ==
  ASSUME IInv, NEW p \in Procs, stack[p] # <<>>, Top(p).at \in InTask, NEW e, e = Top(p), NEW t,
         t = task[Top(p).id]
  PROVE  /\ e \in TaskFrames /\ FrameOK(p, e) /\ Busy(e)
         /\ e.id \in Nat \ {0} /\ e.id \in DOMAIN task /\ ~Gone(e.id) /\ Ran(e.id) = 1
         /\ t \in TaskSet /\ TaskOK(t) /\ t.kind # "pin"
<1>1. Top(p) \in FrameSet /\ FrameOK(p, Top(p)) /\ Busy(Top(p))
  BY TopFacts
<1>2. Top(p) \in TaskFrames
  BY <1>1, FrameKinds
<1>3. Top(p).id \in Nat \ {0} /\ Top(p).at # "enter"
  BY <1>2 DEF TaskFrames, InTask
<1>4. /\ Top(p).id \in DOMAIN task /\ ~Gone(Top(p).id) /\ Ran(Top(p).id) = 1
      /\ task[Top(p).id] \in TaskSet /\ TaskOK(task[Top(p).id])
  BY <1>3, TopFacts
<1> QED BY <1>1, <1>2, <1>3, <1>4 DEF FrameOK

\* It goes on to another stage of the task.
Steady == InTask \ {"hand", "self", "release"}

LEMMA StageFrame ==
  ASSUME IInv, NEW p \in Procs, stack[p] # <<>>, Top(p).at \in InTask \ {"self", "release"},
         NEW at \in Steady, NEW f, f = TaskFrame(Top(p).id, at)
  PROVE  /\ f \in FrameSet /\ f.at = at /\ f.id = Top(p).id /\ FrameOK(p, f) /\ SameRole(Top(p), f)
         /\ Top(p).at \notin {"pin", "gather"} /\ f.at \notin {"pin", "gather"}
         /\ task[Top(p).id].holds
<1>1. PICK e, t : e = Top(p) /\ t = task[Top(p).id]
  OBVIOUS
<1>2. /\ e.id \in Nat \ {0} /\ FrameOK(p, e) /\ Busy(e) /\ t \in TaskSet /\ t.kind # "pin"
  BY <1>1, TaskTop
<1>3. f \in FrameSet /\ f.at = at /\ f.id = e.id
  <2>1. at \in TaskLabels /\ at \in InTask
    BY DEF TaskLabels, Steady
  <2> QED BY <1>1, <1>2, <2>1, TaskFrameIn
<1>4. FrameOK(p, f)
  BY <1>1, <1>2, <1>3 DEF FrameOK, InTask, LoopLabels, Steady
<1>5. SameRole(Top(p), f) /\ Top(p).at \notin {"pin", "gather"} /\ f.at \notin {"pin", "gather"}
  BY <1>1, <1>3 DEF SameRole, InTask, Steady
<1> QED BY <1>1, <1>2, <1>3, <1>4, <1>5 DEF Busy

LEMMA ToStage ==
  ASSUME IInv, NEW p \in Procs, stack[p] # <<>>, Top(p).at \in InTask \ {"self", "release"},
         NEW at \in Steady, NEW f, f = TaskFrame(Top(p).id, at), Becomes(p, f, <<>>),
         UNCHANGED <<queues, node, deleted, done, cpus, barrier, plan>>
  PROVE  /\ Follows(p, f) /\ FrameOK(p, f) /\ f.at = at /\ f.id = Top(p).id
         /\ task[Top(p).id].holds
BY StageFrame DEF Follows

LEMMA StageWaits ==
  ASSUME IInv, NEW p \in Procs, stack[p] # <<>>, Top(p).at \in InTask \ {"self", "release"},
         NEW at \in Steady, NEW f, f = TaskFrame(Top(p).id, at), Becomes(p, f, <<>>),
         at \in Bodies => task[Top(p).id].from < task[Top(p).id].to, task' = task,
         UNCHANGED <<queues, node, deleted, done, cpus, barrier, plan>>
  PROVE  IInv'
<1>1. Follows(p, f) /\ FrameOK(p, f) /\ f.at = at /\ f.id = Top(p).id /\ task[Top(p).id].holds
  BY ToStage
<1>2. Busy(f)
  BY <1>1 DEF Busy
<1> QED BY <1>1, <1>2, WorkWaits

LEMMA StageTurns ==
  ASSUME IInv, NEW p \in Procs, stack[p] # <<>>, Top(p).at \in InTask \ {"self", "release"},
         NEW at \in Steady, at \notin Bodies, NEW f, f = TaskFrame(Top(p).id, at), Becomes(p, f, <<>>),
         NEW t \in TaskSet, task' = Replace(task, Top(p).id, t), t.kind = task[Top(p).id].kind,
         t.state = task[Top(p).id].state, t.holds = task[Top(p).id].holds, TaskOK(t),
         UNCHANGED <<queues, node, deleted, done, cpus, barrier, plan>>
  PROVE  IInv'
<1>1. Follows(p, f) /\ FrameOK(p, f) /\ f.at = at /\ f.id = Top(p).id /\ task[Top(p).id].holds
  BY ToStage
<1>2. PICK id : id = Top(p).id
  OBVIOUS
<1>3. id \in DOMAIN task /\ t.kind # "pin"
  <2>1. PICK e, u : e = Top(p) /\ u = task[Top(p).id]
    OBVIOUS
  <2> QED BY <1>2, <2>1, TaskTop
<1>4. f.at \notin Bodies
  BY <1>1
<1> QED BY <1>1, <1>2, <1>3, <1>4, WorkTurns DEF TaskOK

\* An iteration is over.
LEMMA FinishKeeps ==
  ASSUME IInv, NEW p \in Procs, stack[p] # <<>>, Top(p).at \in {"span", "span_body", "rest", "rest_body"},
         task[Top(p).id].from < task[Top(p).id].to, NEW phase, Finish(p, phase),
         UNCHANGED <<cpus, barrier, plan>>
  PROVE  IInv'
<1>1. Top(p).at \in InTask \ {"self", "release"} /\ Top(p).at \in InTask
  BY DEF InTask
<1>2. PICK t : t = task[Top(p).id]
  OBVIOUS
<1>3. t \in TaskSet /\ TaskOK(t) /\ t.from < t.to
  BY <1>1, <1>2, TaskTop
<1>4. UNCHANGED <<queues, node, deleted, done, cpus, barrier, plan>>
  BY DEF Finish
<1>5. CASE /\ task' = Replace(task, Top(p).id, [t EXCEPT !.from = @ + 1])
           /\ Becomes(p, TaskFrame(Top(p).id, IF phase = "span" THEN "split" ELSE "rest"), <<>>)
  <2>1. PICK u : u = [t EXCEPT !.from = @ + 1]
    OBVIOUS
  <2>2. PICK at : at = IF phase = "span" THEN "split" ELSE "rest"
    OBVIOUS
  <2>3. PICK f : f = TaskFrame(Top(p).id, at)
    OBVIOUS
  <2>4. Becomes(p, f, <<>>)
    BY <1>5, <2>2, <2>3 DEF Becomes
  <2>5. u \in TaskSet /\ u.kind = t.kind /\ u.state = t.state /\ u.holds = t.holds /\ TaskOK(u)
    <3>0. t.from \in Nat /\ t.to \in Nat
      BY <1>3 DEF TaskSet
    <3>1. t.from + 1 \in Nat /\ t.from + 1 <= t.to
      BY ONLY <1>3, <3>0
    <3> QED BY <1>3, <2>1, <3>1 DEF TaskSet, TaskOK
  <2>6. at \in Steady /\ at \notin Bodies
    BY <2>2 DEF Steady, InTask, Bodies
  <2>7. task' = Replace(task, Top(p).id, u)
    BY <1>5, <2>1
  <2> QED BY <1>1, <1>2, <1>4, <2>3, <2>4, <2>5, <2>6, <2>7, StageTurns
<1>6. CASE /\ task' = Replace(task, Top(p).id, [t EXCEPT !.from = @ + 1, !.grain = @ + 1])
           /\ Becomes(p, TaskFrame(Top(p).id, "span"), <<>>)
  <2>1. PICK u : u = [t EXCEPT !.from = @ + 1, !.grain = @ + 1]
    OBVIOUS
  <2>2. PICK at : at = "span"
    OBVIOUS
  <2>3. PICK f : f = TaskFrame(Top(p).id, at)
    OBVIOUS
  <2>4. Becomes(p, f, <<>>)
    BY <1>6, <2>2, <2>3 DEF Becomes
  <2>5. u \in TaskSet /\ u.kind = t.kind /\ u.state = t.state /\ u.holds = t.holds /\ TaskOK(u)
    <3>0. t.from \in Nat /\ t.to \in Nat /\ t.grain \in Nat \ {0}
      BY <1>3 DEF TaskSet
    <3>1. t.from + 1 \in Nat /\ t.from + 1 <= t.to /\ t.grain + 1 \in Nat \ {0}
      BY ONLY <1>3, <3>0
    <3> QED BY <1>3, <2>1, <3>1 DEF TaskSet, TaskOK
  <2>6. at \in Steady /\ at \notin Bodies
    BY <2>2 DEF Steady, InTask, Bodies
  <2>7. task' = Replace(task, Top(p).id, u)
    BY <1>6, <2>1
  <2> QED BY <1>1, <1>2, <1>4, <2>3, <2>4, <2>5, <2>6, <2>7, StageTurns
<1> QED BY <1>2, <1>5, <1>6 DEF Finish

LEMMA FinishBodyKeeps ==
  ASSUME IInv, NEW p \in Procs, FinishBody(p), UNCHANGED <<cpus, barrier, plan>>
  PROVE  IInv'
<1>1. stack[p] # <<>> /\ Top(p).at \in Bodies
  BY DEF FinishBody
<1>2. PICK phase : phase = IF Top(p).at = "span_body" THEN "span" ELSE "rest"
  OBVIOUS
<1>3. Finish(p, phase)
  BY <1>2 DEF FinishBody, Finish
<1>4. Top(p).at \in {"span", "span_body", "rest", "rest_body"}
  BY <1>1 DEF Bodies
<1>5. task[Top(p).id].from < task[Top(p).id].to
  BY <1>1, TopFacts DEF Busy
<1> QED BY <1>1, <1>3, <1>4, <1>5, FinishKeeps

LEMMA DistributeKeeps ==
  ASSUME IInv, NEW p \in Procs, Distribute(p), UNCHANGED <<cpus, barrier, plan>>
  PROVE  IInv'
<1>1. /\ stack[p] # <<>> /\ Top(p).at = "share" /\ Top(p).at \in InTask \ {"self", "release"}
      /\ UNCHANGED <<queues, node, deleted, done, cpus, barrier, plan>>
  BY DEF Distribute, At, InTask
<1>2. PICK e, id, t, j : e = Top(p) /\ id = Top(p).id /\ t = task[Top(p).id] /\ j = JobOf(task[Top(p).id])
  OBVIOUS
<1>3. /\ e \in TaskFrames /\ FrameOK(p, e) /\ Busy(e) /\ e.at = "share" /\ e.id = id /\ id \in DOMAIN task
      /\ t \in TaskSet /\ TaskOK(t) /\ t.kind # "pin"
  BY <1>1, <1>2, TaskTop
<1>4. t.holds
  BY <1>2, <1>3 DEF Busy, InTask
<1>5. CASE t.share /\ Shares(j) /\ ~HalfFull(p)
  <2>1. PICK u : u = [t EXCEPT !.to = Keep(j)]
    OBVIOUS
  <2>2. PICK f : f = [e EXCEPT !.at = "hand", !.todo = Handed(j)]
    OBVIOUS
  <2>3. task' = Replace(task, id, u)
    BY <1>2, <1>5, <2>1 DEF Distribute
  <2>4. Becomes(p, f, <<>>)
    BY <1>2, <1>5, <2>2 DEF Distribute, Becomes
  <2>5. j \in PartSet
    <3>1. j.from \in Nat /\ j.to \in Nat /\ j.grain \in Nat \ {0} /\ j.lo \in Nat /\ j.hi \in Nat
      BY <1>2, <1>3 DEF JobOf, TaskSet
    <3>2. j.from + j.grain < j.to
      BY <1>5 DEF Shares, LongerThanGrain
    <3>3. j.from < j.to
      BY <3>1, <3>2
    <3>4. j.lo < j.hi
      BY <1>2, <1>3, <1>5 DEF JobOf, TaskOK
    <3>5. j \in JobSet
      BY <1>2, <3>1 DEF JobOf, JobSet
    <3> QED BY <3>1, <3>3, <3>4, <3>5 DEF PartSet, ProperJob
  <2>6. /\ Handed(j) \in Seq(PartSet) /\ Handed(j) # <<>>
        /\ Keep(j) \in Nat /\ j.from < Keep(j)
    BY <1>5, <2>5, HandedParts, KeepOne DEF PartSet
  <2>7. /\ u \in TaskSet /\ u.kind = t.kind /\ u.state = t.state /\ u.holds = t.holds
        /\ u.from <= u.to /\ (u.share => u.lo < u.hi)
    <3>1. t.from = j.from /\ t.from \in Nat
      BY <1>2, <1>3 DEF JobOf, TaskSet
    <3>2. t.from <= Keep(j)
      BY <2>6, <3>1
    <3> QED BY <1>3, <2>1, <2>6, <3>2 DEF TaskSet, TaskOK
  <2>8. f \in FrameSet /\ f.at = "hand" /\ f.id = id /\ f.todo # <<>>
    BY <1>3, <2>2, <2>6 DEF FrameSet, TaskFrames, TaskLabels, InTask
  <2>9. FrameOK(p, f)
    BY <1>2, <1>3, <2>8 DEF FrameOK, InTask, LoopLabels
  <2>10. Follows(p, f)
    BY <1>1, <1>2, <2>4, <2>8 DEF Follows, SameRole
  <2>11. f.at \notin Bodies
    BY <2>8 DEF Bodies
  <2>12. /\ u.kind = task[id].kind /\ u.kind # "pin" /\ u.state = task[id].state
         /\ u.holds = task[id].holds
    BY <1>2, <1>3, <2>7
  <2>13. u.holds
    BY <1>4, <2>1, <1>3 DEF TaskSet
  <2> QED BY <1>2, <1>3, <2>3, <2>7, <2>9, <2>10, <2>11, <2>12, <2>13, WorkTurns
<1>6. CASE ~(t.share /\ Shares(j) /\ ~HalfFull(p))
  <2>1. PICK u : u = [t EXCEPT !.grain = IF t.span THEN 1 ELSE @]
    OBVIOUS
  <2>2. PICK at : at = AfterShare(id)
    OBVIOUS
  <2>3. PICK f : f = TaskFrame(id, at)
    OBVIOUS
  <2>4. task' = Replace(task, id, u)
    BY <1>2, <1>6, <2>1 DEF Distribute
  <2>5. Becomes(p, f, <<>>)
    BY <1>2, <1>6, <2>2, <2>3 DEF Distribute, Becomes
  <2>6. u \in TaskSet /\ u.kind = t.kind /\ u.state = t.state /\ u.holds = t.holds /\ TaskOK(u)
    BY <1>3, <2>1 DEF TaskSet, TaskOK
  <2>7. at \in Steady /\ at \notin Bodies
    BY <2>2 DEF Steady, InTask, Bodies, AfterShare
  <2> QED BY <1>1, <1>2, <2>3, <2>4, <2>5, <2>6, <2>7, StageTurns
<1> QED BY <1>5, <1>6

-----------------------------------------------------------------------------
(* Steps that make a task.                                                 *)

\* How a new task of this kind must be found, in places and in frames.
Fits(kind, mentions, runs) ==
  \/ kind \in {"root", "inner"} /\ mentions = 0 /\ runs = 1
  \/ kind \in {"unique", "pin"} /\ mentions + runs = 1
  \/ kind = "proxy" /\ mentions = 2 /\ runs = 0

LEMMA Births ==
  ASSUME IInv, NEW p \in Procs, stack[p] # <<>>, NEW f, NEW g, Moved(p, f, g), NEW i, QueueStep(i, 0),
         Top(p).at \notin {"enter", "release"}, f # Nil,
         f.at # "release", g.at # "release", NEW new, new = Len(task) + 1,
         task' \in Seq(TaskSet), Len(task') = new,
         \A k \in DOMAIN task : Onward(k) /\ (task'[k] = task[k] \/ k = Top(p).id),
         node' \in Seq(NodeSet), Len(node') = new,
         \A k \in DOMAIN task : /\ node'[k].parent = node[k].parent
                                /\ node'[k].count = node[k].count \/ (task[k].kind # "pin" /\ ~Gone(k)),
         deleted' = deleted, plan' = plan,
         NEW u, u = task'[new], NEW v, v = node'[new], TaskOK(u), u.state = 0, u.holds \/ u.kind = "pin",
         v.parent < new, v.parent = 0 <=> u.kind \in {"root", "inner", "pin"},
             u.kind = "pin" => v.count = 0,
         \A k \in Nat \ {0} : k # new => Even(Top(p), f, g, i, 0, k),
         Fits(u.kind, IsMention(f, new) + IsMention(g, new) + Same(new, i), IsRun(f, new) + IsRun(g, new)),
         FrameOK(p, f)', Busy(f)', g # Nil => FrameOK(p, g)' /\ Busy(g)'
  PROVE  /\ Shape' /\ FramesOK' /\ TasksOK' /\ Lives'
         /\ new \in Nat \ {0} /\ new \notin DOMAIN task /\ DOMAIN task' = DOMAIN task \cup {new}
         /\ \A k \in Nat \ {0} : Dropped(k)' = Dropped(k)
         /\ Dropped(new) = 0
<1>1. Shape /\ FramesOK /\ TasksOK /\ Lives /\ Refs
  BY DEF IInv
<1>2. /\ Len(task) \in Nat /\ DOMAIN task = 1 .. Len(task) /\ DOMAIN node = 1 .. Len(task)
      /\ DOMAIN task' = 1 .. Len(task') /\ DOMAIN node' = 1 .. Len(node') /\ deleted \subseteq DOMAIN task
  BY <1>1, LenProperties DEF Shape
<1>3. /\ new \in Nat \ {0} /\ new \notin DOMAIN task /\ DOMAIN task' = DOMAIN task \cup {new}
      /\ DOMAIN node' = DOMAIN node \cup {new} /\ DOMAIN task \subseteq Nat \ {0} /\ DOMAIN node = DOMAIN task
  BY <1>2
<1>4. Shape'
  <2>1. stack' \in [Procs -> Seq(FrameSet)]
    BY DEF Moved
  <2>2. local' \in [Pool -> Seq(Nat \ {0})] /\ mail' \in [Pool -> Seq(Nat \ {0})]
    BY DEF QueueStep
  <2>3. deleted' \subseteq DOMAIN task' /\ Len(node') = Len(task')
    BY <1>2, <1>3
  <2>4. plan' \in Plans
    BY <1>1 DEF Shape
  <2> QED BY <2>1, <2>2, <2>3, <2>4 DEF Shape
<1>5. FramesOK'
  <2>1. \A k \in DOMAIN task : task'[k].kind = task[k].kind /\ (Quiet(k) \/ (k = Top(p).id /\ Top(p).at # "enter"))
    BY DEF Onward, Quiet
  <2>2. Len(task') >= Len(task)
    BY <1>2
  <2> QED BY <1>1, <2>1, <2>2, FramesStay
<1>6. TasksOK'
  <2>1. ASSUME NEW k \in DOMAIN task
        PROVE  /\ TaskOK(task[k])'
               /\ node'[k].parent < k /\ (node'[k].parent = NoTask <=> Rootless(k)')
               /\ (task'[k].kind = "pin" \/ (IsLoop(k)' /\ Gone(k)') => node'[k].count = 0)
    BY <1>1 DEF TasksOK, Onward, Rootless, IsLoop, Gone
  <2>2. /\ TaskOK(task[new])' /\ node'[new].parent < new /\ (node'[new].parent = NoTask <=> Rootless(new)')
        /\ (task'[new].kind = "pin" \/ (IsLoop(new)' /\ Gone(new)') => node'[new].count = 0)
    BY <1>2, <1>3 DEF TaskOK, Rootless, NoTask, Gone
  <2>3. \A k \in DOMAIN task' : k \in DOMAIN task \/ k = new
    BY <1>3
  <2> QED BY <2>1, <2>2, <2>3 DEF TasksOK
<1>7. \A k \in Nat \ {0} : k # new =>
        Mentioned(k)' = Mentioned(k) /\ Ran(k)' = Ran(k) /\ Dropped(k)' = Dropped(k)
  BY <1>1, EvenStays
<1>8. Top(p) \in FrameSet /\ FrameOK(p, Top(p))
  BY TopFacts
<1>9. LifeAt(new) /\ Unborn(new)
  BY <1>1, <1>3 DEF Lives, LifeAt
<1>10. /\ Mentioned(new)' = IsMention(f, new) + IsMention(g, new) + Same(new, i)
       /\ Ran(new)' = IsRun(f, new) + IsRun(g, new)
       /\ Dropped(new)' = 0 /\ Dropped(new) = 0
  <2>1. /\ Mentioned(new) \in Nat /\ Mentioned(new)' \in Nat
        /\ Ran(new) \in Nat /\ Ran(new)' \in Nat /\ Dropped(new) \in Nat /\ Dropped(new)' \in Nat
        /\ Mentioned(new)' + IsMention(Top(p), new) + Same(new, 0)
                = Mentioned(new) + IsMention(f, new) + IsMention(g, new) + Same(new, i)
        /\ Ran(new)' + IsRun(Top(p), new) = Ran(new) + IsRun(f, new) + IsRun(g, new)
        /\ Dropped(new)' + IsDrop(Top(p), new) = Dropped(new) + IsDrop(f, new) + IsDrop(g, new)
    BY <1>1, <1>3, Deltas
  <2>2. Mentioned(new) = 0 /\ Ran(new) = 0 /\ Dropped(new) = 0
    BY <1>9 DEF Unborn
  <2>3. Top(p).id # new
    <3>1. Top(p).id \in 0 .. Len(task)
      BY <1>8 DEF FrameOK
    <3>2. new = Len(task) + 1
      OBVIOUS
    <3> QED BY ONLY <1>2, <3>1, <3>2
  <2>4. Top(p).at = "self" => Top(p).ptr # new
    BY <1>3, <1>8 DEF FrameOK
  <2>5. IsMention(Top(p), new) = 0 /\ IsRun(Top(p), new) = 0 /\ IsDrop(Top(p), new) = 0 /\ Same(new, 0) = 0
    BY <1>3, <2>3, <2>4 DEF IsMention, IsRun, IsDrop, Same
  <2>6. IsDrop(f, new) = 0 /\ IsDrop(g, new) = 0
    BY DEF IsDrop
  <2>7. /\ IsMention(f, new) \in Nat /\ IsMention(g, new) \in Nat /\ Same(new, i) \in Nat
        /\ IsRun(f, new) \in Nat /\ IsRun(g, new) \in Nat
    BY DEF IsMention, IsRun, Same
  <2> QED BY ONLY <2>1, <2>2, <2>5, <2>6, <2>7
<1>11. Lives'
  <2>1. ASSUME NEW k \in Nat \ {0}, k # new PROVE LifeAt(k)'
    <3>1. LifeAt(k)
      BY <1>1 DEF Lives
    <3>2. Gone(k)' <=> Gone(k)
      BY DEF Gone
    <3>3. k \in DOMAIN task => /\ task'[k].kind = task[k].kind /\ task'[k].state = task[k].state
                              /\ task'[k].holds = task[k].holds
      BY DEF Onward
    <3>4. k \in DOMAIN task' <=> k \in DOMAIN task
      BY <1>3, <2>1
    <3>5. Mentioned(k)' = Mentioned(k) /\ Ran(k)' = Ran(k) /\ Dropped(k)' = Dropped(k)
      BY <1>7, <2>1
    <3> QED BY <3>1, <3>2, <3>3, <3>4, <3>5, LifeStays
  <2>2. LifeAt(new)'
    <3>1. new \in DOMAIN task' /\ ~Gone(new)' /\ task'[new].kind = u.kind
      BY <1>2, <1>3 DEF Gone
    <3>2. task'[new].state = 0 /\ (task'[new].holds \/ u.kind = "pin")
      OBVIOUS
    <3>3. PICK m, r : m = IsMention(f, new) + IsMention(g, new) + Same(new, i) /\ r = IsRun(f, new) + IsRun(g, new)
      OBVIOUS
    <3>4. Fits(u.kind, m, r) /\ Mentioned(new)' = m /\ Ran(new)' = r
      BY <1>10, <3>3
    <3>5. CASE u.kind \in {"root", "inner"} /\ m = 0 /\ r = 1
      BY <3>1, <3>2, <3>4, <3>5 DEF LifeAt, Life, IsLoop, Waiting, Proxy
    <3>6. CASE u.kind \in {"unique", "pin"} /\ m + r = 1
      BY <3>1, <3>2, <3>4, <3>6 DEF LifeAt, Life, IsLoop, Waiting, Proxy
    <3>7. CASE u.kind = "proxy" /\ m = 2 /\ r = 0
      BY <3>1, <3>2, <3>4, <3>7 DEF LifeAt, Life, IsLoop, Waiting, Proxy
    <3> QED BY <3>4, <3>5, <3>6, <3>7 DEF Fits
  <2> QED BY <2>1, <2>2 DEF Lives
<1> QED BY <1>3, <1>4, <1>5, <1>6, <1>7, <1>10, <1>11

-----------------------------------------------------------------------------
(* The children of a node.                                                 *)

LEMMA ChildrenFinite == ASSUME Shape, NEW n
                        PROVE IsFiniteSet(Children(n)) /\ Cardinality(Children(n)) \in Nat /\ Children(n) \subseteq DOMAIN node
<1>1. DOMAIN node = 1 .. Len(node) /\ Len(node) \in Nat
  BY LenProperties DEF Shape
<1>2. IsFiniteSet(1 .. Len(node))
  BY <1>1, FS_Interval
<1>3. Children(n) \subseteq 1 .. Len(node)
  BY <1>1 DEF Children
<1>4. IsFiniteSet(Children(n))
  BY <1>2, <1>3, FS_Subset
<1> QED BY <1>1, <1>3, <1>4, FS_CardinalityType

LEMMA Appended ==
  ASSUME NEW X, NEW m \in Seq(X), NEW v \in X, NEW s, s = Append(m, v), NEW new, new = Len(m) + 1
  PROVE  /\ s \in Seq(X) /\ Len(s) = new /\ s[new] = v /\ DOMAIN s = DOMAIN m \cup {new}
         /\ new \notin DOMAIN m /\ \A k \in DOMAIN m : s[k] = m[k]
<1>1. s \in Seq(X) /\ Len(s) = Len(m) + 1 /\ Len(m) \in Nat
  BY AppendProperties, LenProperties
<1>2. DOMAIN m = 1 .. Len(m) /\ DOMAIN s = 1 .. Len(s)
  BY <1>1, LenProperties
<1>3. s[new] = v /\ \A k \in 1 .. Len(m) : s[k] = m[k]
  BY AppendProperties
<1> QED BY <1>1, <1>2, <1>3

\* The nodes become m, and the node v comes after them.
LEMMA ChildrenAppend ==
  ASSUME Shape, NEW m \in Seq(NodeSet), Len(m) = Len(node),
         \A k \in DOMAIN node : m[k].parent = node[k].parent /\ (m[k].count > 0 <=> node[k].count > 0),
         NEW v \in NodeSet, node' = Append(m, v), NEW new, new = Len(node) + 1
  PROVE  /\ node' \in Seq(NodeSet) /\ Len(node') = new /\ node'[new] = v /\ \A k \in DOMAIN node : node'[k] = m[k]
         /\ \A n : /\ v.parent = n /\ v.count > 0 =>
                        Cardinality(Children(n)') = Cardinality(Children(n)) + 1
                   /\ ~(v.parent = n /\ v.count > 0) => Cardinality(Children(n)') = Cardinality(Children(n))
<1>1. PICK s : s = node'
  OBVIOUS
<1>2. /\ s \in Seq(NodeSet) /\ Len(s) = new /\ s[new] = v /\ DOMAIN s = DOMAIN m \cup {new}
      /\ new \notin DOMAIN m /\ \A k \in DOMAIN m : s[k] = m[k]
  BY <1>1, Appended
<1>3. DOMAIN m = DOMAIN node
  BY LenProperties DEF Shape
<1>4. ASSUME NEW n
      PROVE  Children(n)' = Children(n) \cup {c \in {new} : v.parent = n /\ v.count > 0} /\ new \notin Children(n)
  BY <1>1, <1>2, <1>3 DEF Children
<1>5. ASSUME NEW n
      PROVE  /\ v.parent = n /\ v.count > 0 =>
                  Cardinality(Children(n)') = Cardinality(Children(n)) + 1
             /\ ~(v.parent = n /\ v.count > 0) => Cardinality(Children(n)') = Cardinality(Children(n))
  <2>1. CASE v.parent = n /\ v.count > 0
    <3>1. Children(n)' = Children(n) \cup {new} /\ new \notin Children(n)
      BY <1>4, <2>1
    <3>2. Cardinality(Children(n) \cup {new}) = Cardinality(Children(n)) + 1
      BY <3>1, ChildrenFinite, FS_AddElement
    <3> QED BY <2>1, <3>1, <3>2
  <2>2. CASE ~(v.parent = n /\ v.count > 0)
    <3>1. Children(n)' = Children(n)
      BY <1>4, <2>2
    <3> QED BY <2>2, <3>1
  <2> QED BY <2>1, <2>2
<1> QED BY <1>1, <1>2, <1>3, <1>5

\* A node that is not there has no children.
LEMMA Childless == ASSUME Shape, TasksOK, NEW n \in Nat \ {0}, n \notin DOMAIN task
                   PROVE  Cardinality(Children(n)) = 0
<1>1. DOMAIN node = 1 .. Len(task) /\ DOMAIN task = 1 .. Len(task) /\ Len(task) \in Nat
  BY LenProperties DEF Shape
<1>2. ASSUME NEW c \in DOMAIN node PROVE node[c].parent # n
  <2>1. node[c].parent < c /\ node[c] \in NodeSet
    BY <1>1, ElementOfSeq DEF TasksOK, Shape
  <2>2. node[c].parent \in Nat /\ c \in 1 .. Len(task)
    BY <1>1, <2>1 DEF NodeSet
  <2> SUFFICES ASSUME node[c].parent = n PROVE FALSE
    OBVIOUS
  <2>3. n \in 1 .. Len(task)
    BY ONLY <1>1, <2>1, <2>2, node[c].parent = n, n \in Nat \ {0}
  <2> QED BY <1>1, <2>3
<1>3. Children(n) = {}
  BY <1>2 DEF Children
<1> QED BY <1>3, FS_EmptySet

-----------------------------------------------------------------------------
(* A loop begins.                                                          *)

LoopKinds == {"root", "inner"}

LEMMA BeginKeeps ==
  ASSUME IInv, NEW p \in Procs, stack[p] # <<>>, NEW f \in FrameSet, SameRole(Top(p), f),
         Top(p).at \notin {"pin", "gather"}, f.at \notin {"pin", "gather"}, FrameOK(p, f), Busy(f),
         NEW kind \in LoopKinds, NEW size \in Nat, BeginLoop(p, kind, size),
         Becomes(p, f, <<TaskFrame(Fresh, "share")>>), UNCHANGED <<cpus, barrier, plan>>
  PROVE  IInv'
<1>0. /\ Shape /\ FramesOK /\ TasksOK /\ Lives /\ Refs /\ Bounds
      /\ UNCHANGED queues /\ deleted' = deleted /\ done' = done /\ barrier' = barrier /\ plan' = plan /\ cpus' = cpus
  BY DEF IInv, BeginLoop
<1>1. PICK new : new = Fresh
  OBVIOUS
<1>2. /\ Len(task) \in Nat /\ DOMAIN task = 1 .. Len(task) /\ DOMAIN node = 1 .. Len(task) /\ Len(node) = Len(task)
      /\ new = Len(task) + 1 /\ new \in Nat \ {0}
  BY <1>0, <1>1, LenProperties DEF Shape, Fresh
<1>3. PICK u : u = Task(kind, Fresh, [from |-> 0, to |-> size, lo |-> 0, hi |-> N, grain |-> GrainSize],
                        plan.sharing /\ TaskStackEmpty(p), plan.timespan)
  OBVIOUS
<1>4. u = [kind |-> kind, loop |-> Fresh, from |-> 0, to |-> size, lo |-> 0, hi |-> N, grain |-> GrainSize,
           share |-> (plan.sharing /\ TaskStackEmpty(p)), span |-> plan.timespan, state |-> 0,
               holds |-> TRUE]
  BY <1>3 DEF Task
<1>5. u \in TaskSet /\ u.kind = kind /\ TaskOK(u) /\ u.state = 0 /\ u.holds = TRUE
  <2>1. plan.timespan \in BOOLEAN /\ N \in Nat \ {0} /\ GrainSize \in Nat \ {0} /\ 0 < N /\ 0 <= size
    BY <1>0, ShapeAssumption DEF Shape, GoodPlan
  <2>2. kind \in Kinds /\ Fresh \in Nat
    BY <1>1, <1>2 DEF LoopKinds, Kinds
  <2>3. u \in TaskSet
    BY <1>4, <2>1, <2>2 DEF TaskSet, TaskStackEmpty
  <2>4. u.kind = kind /\ u.from = 0 /\ u.to = size /\ u.lo = 0 /\ u.hi = N /\ u.state = 0 /\ u.holds = TRUE
    BY <1>4
  <2> QED BY <2>1, <2>3, <2>4 DEF TaskOK
<1>6. task' = Append(task, u)
  BY <1>3 DEF BeginLoop
<1>7. PICK s : s = task'
  OBVIOUS
<1>8. /\ s \in Seq(TaskSet) /\ Len(s) = new /\ s[new] = u /\ \A k \in DOMAIN task : s[k] = task[k]
  BY <1>0, <1>2, <1>5, <1>6, <1>7, Appended DEF Shape
<1>9. PICK v : v = [parent |-> NoTask, count |-> 2]
  OBVIOUS
<1>10. v \in NodeSet /\ v.parent = 0 /\ v.count = 2 /\ node' = Append(node, v)
  BY <1>9 DEF NodeSet, NoTask, BeginLoop
<1>11. /\ node' \in Seq(NodeSet) /\ Len(node') = new /\ node'[new] = v /\ \A k \in DOMAIN node : node'[k] = node[k]
       /\ \A n : v.parent # n => Cardinality(Children(n)') = Cardinality(Children(n))
  <2>1. \A k \in DOMAIN node : node[k].parent = node[k].parent /\ (node[k].count > 0 <=> node[k].count > 0)
    OBVIOUS
  <2>2. node \in Seq(NodeSet) /\ Len(node) = Len(node) /\ new = Len(node) + 1
    BY <1>0, <1>2 DEF Shape
  <2> QED BY <1>0, <1>10, <2>1, <2>2, ChildrenAppend
<1>12. PICK g : g = TaskFrame(new, "share")
  OBVIOUS
<1>13. g \in FrameSet /\ g.at = "share" /\ g.id = new
  <2>1. "share" \in TaskLabels
    BY DEF TaskLabels, InTask
  <2> QED BY <1>2, <1>12, <2>1, TaskFrameIn
<1>14. Moved(p, f, g)
  <2>1. Becomes(p, f, <<g>>)
    BY <1>1, <1>12 DEF Becomes
  <2> QED BY <1>0, <1>13, <2>1, CallsMoves
<1>15. QueueStep(0, 0)
  BY <1>0, QueuesStay
<1>16. f.id = Top(p).id /\ f.at \notin {"enter", "self", "release"} /\ Top(p).at \notin {"enter", "self", "release"}
  BY DEF SameRole
<1>17. f.id # new /\ f.id \in 0 .. Len(task)
  <2>1. f.id \in 0 .. Len(task)
    BY DEF FrameOK
  <2> QED BY ONLY <1>2, <2>1
<1>18. \A k \in Nat \ {0} : k # new => Even(Top(p), f, g, 0, 0, k)
  BY <1>13, <1>16 DEF Even, IsMention, IsRun, IsDrop, Same
<1>19. Fits(u.kind, IsMention(f, new) + IsMention(g, new) + Same(new, 0), IsRun(f, new) + IsRun(g, new))
  <2>1. /\ IsMention(f, new) = 0 /\ IsMention(g, new) = 0 /\ Same(new, 0) = 0
        /\ IsRun(f, new) = 0 /\ IsRun(g, new) = 1
    BY <1>2, <1>13, <1>16, <1>17 DEF IsMention, IsRun, Same
  <2> QED BY <1>5, <2>1 DEF Fits, LoopKinds
<1>20. \A k \in DOMAIN task : Onward(k) /\ (task'[k] = task[k] \/ k = Top(p).id)
  BY <1>0, <1>7, <1>8 DEF Onward, TasksOK, TaskOK
<1>21. FrameOK(p, f)' /\ Busy(f)'
  <2>1. f.at \in InTask \cup {"enter", "leave", "to_pin", "pinned"} => f.id # 0
    BY DEF FrameSet, TaskFrames, LoopFrames, MainFrames, PinFrames, LoopLabels, InTask
  <2>2. f.id # 0 => f.id \in DOMAIN task
    BY <1>2, <1>17
  <2>3. f.id # 0 => /\ task'[f.id].kind = task[f.id].kind /\ task'[f.id].holds = task[f.id].holds
                    /\ task'[f.id].from = task[f.id].from /\ task'[f.id].to = task[f.id].to
    BY <1>7, <1>8, <2>2
  <2>4. f.id \in 0 .. Len(task')
    <3>1. f.id \in 0 .. new
      BY ONLY <1>2, <1>17
    <3> QED BY <1>7, <1>8, <3>1
  <2>5. f.at # "self" /\ f.at # "release"
    BY <1>16
  <2>6. FrameOK(p, f)'
    BY <2>1, <2>3, <2>4, <2>5 DEF FrameOK, IsLoop, InTask, LoopLabels, Pool
  <2>7. Busy(f)'
    BY <2>1, <2>3 DEF Busy, InTask, Bodies
  <2> QED BY <2>6, <2>7
<1>22. FrameOK(p, g)' /\ Busy(g)'
  <2>1. task'[new] = u /\ Len(task') = new
    BY <1>7, <1>8
  <2>2. u.kind # "pin"
    BY <1>5 DEF LoopKinds
  <2>3. new \in 0 .. Len(task')
    BY <1>2, <2>1
  <2> QED BY <1>5, <1>13, <2>1, <2>2, <2>3 DEF FrameOK, Busy, InTask, LoopLabels, Bodies
<1>23. /\ Shape' /\ FramesOK' /\ TasksOK' /\ Lives'
       /\ new \notin DOMAIN task /\ DOMAIN task' = DOMAIN task \cup {new}
       /\ \A k \in Nat \ {0} : Dropped(k)' = Dropped(k)
       /\ Dropped(new) = 0
  <2>1. f # Nil /\ g.at # "release" /\ f.at # "release"
    BY <1>13, <1>16, NilIsNone
  <2>2. task' \in Seq(TaskSet) /\ Len(task') = new /\ task'[new] = u
    BY <1>7, <1>8
  <2>3. \A k \in DOMAIN task : /\ node'[k].parent = node[k].parent
                               /\ node'[k].count = node[k].count \/ (task[k].kind # "pin" /\ ~Gone(k))
    BY <1>2, <1>11
  <2>4. /\ v.parent < new /\ (v.parent = 0 <=> u.kind \in {"root", "inner", "pin"}) /\ u.kind # "pin"
    BY <1>2, <1>5, <1>10 DEF LoopKinds
  <2>5. u.holds
    BY <1>5
  <2> QED BY <1>0, <1>2, <1>5, <1>11, <1>14, <1>15, <1>16, <1>18, <1>19, <1>20, <1>21, <1>22,
             <2>1, <2>2, <2>3, <2>4, <2>5, Births
<1>24. Refs'
  <2>1. ASSUME NEW n \in DOMAIN node PROVE RefsAt(n)'
    <3>1. RefsAt(n) /\ n \in Nat \ {0} /\ n \in DOMAIN task
      BY <1>0, <1>2 DEF Refs
    <3>2. Dropped(n)' = Dropped(n) /\ Cardinality(Children(n)') = Cardinality(Children(n)) /\ node'[n].count = node[n].count
      BY <1>10, <1>11, <1>23, <3>1
    <3>3. Held(n)' = Held(n) /\ Owned(n)' = Owned(n)
      BY <1>0, <1>7, <1>8, <3>1 DEF Held, Owned, IsLoop, Gone
    <3> QED BY <3>1, <3>2, <3>3 DEF RefsAt
  <2>2. RefsAt(new)'
    <3>1. Cardinality(Children(new)) = 0
      BY <1>0, <1>2, <1>23, Childless
    <3>2. Cardinality(Children(new)') = 0
      BY <1>2, <1>10, <1>11, <3>1
    <3>3. Dropped(new)' = 0
      BY <1>2, <1>23
    <3>4. task'[new] = u /\ new \notin deleted'
      BY <1>0, <1>2, <1>7, <1>8, <1>23 DEF Shape
    <3>5. Held(new)' = 1 /\ Owned(new)' = 1
      BY <1>5, <3>4 DEF Held, Owned, IsLoop, Gone, LoopKinds
    <3>6. node'[new].count = 2
      BY <1>10, <1>11
    <3> QED BY <3>2, <3>3, <3>5, <3>6 DEF RefsAt
  <2>3. \A n \in DOMAIN node' : n \in DOMAIN node \/ n = new
    BY <1>2, <1>11
  <2> QED BY <2>1, <2>2, <2>3 DEF Refs
<1>25. Pins'
  <2>1. g.at \notin {"pin", "gather"}
    BY <1>13
  <2>2. \A k \in PinTasks : Gone(k)' <=> Gone(k)
    BY <1>0 DEF Gone
  <2>3. \A k \in DOMAIN task : task'[k].kind = task[k].kind /\ (task[k].kind = "pin" => task'[k].from = task[k].from)
    BY <1>7, <1>8
  <2>4. \A k \in DOMAIN task' : k \in DOMAIN task \/ task'[k].kind # "pin"
    BY <1>5, <1>7, <1>8, <1>23 DEF LoopKinds
  <2>5. DOMAIN task \subseteq DOMAIN task'
    BY <1>23
  <2> QED BY <1>0, <1>14, <2>1, <2>2, <2>3, <2>4, <2>5, WorkPins
<1>26. Bounds'
  <2>1. done' \in BOOLEAN /\ cpus' \in [Pool -> SUBSET (0 .. N - 1)]
    BY <1>0 DEF Bounds
  <2> QED BY <1>15, <2>1, BoundsStay
<1> QED BY <1>23, <1>24, <1>25, <1>26 DEF IInv

LEMMA CallLoopKeeps ==
  ASSUME IInv, NEW p \in Procs, CallLoop(p), UNCHANGED <<cpus, barrier, plan>>
  PROVE  IInv'
<1>1. stack[p] # <<>> /\ Top(p).at = "main" /\ Top(p).calls > 0
  BY DEF CallLoop, At
<1>2. PICK e : e = Top(p)
  OBVIOUS
<1>3. e \in FrameSet /\ FrameOK(p, e) /\ e \in MainFrames
  BY <1>1, <1>2, TopFacts, FrameKinds
<1>4. PICK f : f = MainFrame(Top(p).calls - 1)
  OBVIOUS
<1>5. f \in FrameSet /\ f.at = "main" /\ f.id = 0 /\ e.at = "main" /\ e.id = 0
  <2>1. e.calls \in Nat /\ e.calls > 0
    BY <1>1, <1>2, <1>3 DEF MainFrames
  <2>2. e.calls - 1 \in Nat
    BY ONLY <2>1
  <2>3. f = [at |-> "main", id |-> 0, calls |-> e.calls - 1]
    BY <1>2, <1>4 DEF MainFrame, NoTask
  <2> QED BY <1>3, <2>2, <2>3 DEF FrameSet, MainFrames
<1>6. FrameOK(p, f) /\ Busy(f) /\ SameRole(Top(p), f)
  <2>1. f.id \in 0 .. Len(task)
    BY <1>3, <1>5 DEF FrameOK
  <2> QED BY <1>2, <1>5, <2>1 DEF FrameOK, Busy, SameRole, InTask, LoopLabels, Bodies
<1>7. PICK kind, size : kind = "root" /\ size = plan.size
  OBVIOUS
<1>8. kind \in LoopKinds /\ size \in Nat
  BY <1>7, ShapeAssumption DEF LoopKinds, IInv, Shape, GoodPlan
<1>9. BeginLoop(p, kind, size)
  BY <1>7 DEF CallLoop, BeginLoop
<1>10. Becomes(p, f, <<TaskFrame(Fresh, "share")>>)
  BY <1>4 DEF CallLoop, Becomes
<1>11. Top(p).at \notin {"pin", "gather"} /\ f.at \notin {"pin", "gather"}
  BY <1>1, <1>5
<1> QED BY <1>1, <1>5, <1>6, <1>8, <1>9, <1>10, <1>11, BeginKeeps

-----------------------------------------------------------------------------
(* The loops of Execute.                                                   *)

LEMMA ExecuteKeeps ==
  ASSUME IInv, NEW p \in Procs, stack[p] # <<>>, Top(p).at \in {"span", "rest"},
         task[Top(p).id].from < task[Top(p).id].to, NEW phase, NEW body \in Bodies, Execute(p, phase, body),
         UNCHANGED <<cpus, barrier, plan>>
  PROVE  IInv'
<1>1. /\ Top(p).at \in {"span", "span_body", "rest", "rest_body"} /\ Top(p).at \in InTask \ {"self", "release"}
      /\ body \in Steady
  BY DEF InTask, Bodies, Steady
<1>2. PICK f : f = TaskFrame(Top(p).id, body)
  OBVIOUS
<1>3. /\ f \in FrameSet /\ f.at = body /\ f.id = Top(p).id /\ FrameOK(p, f) /\ SameRole(Top(p), f)
      /\ Top(p).at \notin {"pin", "gather"} /\ f.at \notin {"pin", "gather"}
      /\ task[Top(p).id].holds
  <2>1. Top(p).at \in InTask \ {"self", "release"}
    BY <1>1
  <2>2. body \in Steady
    BY <1>1
  <2> QED BY ONLY IInv, p \in Procs, stack[p] # <<>>, <1>2, <2>1, <2>2, StageFrame
<1>4. CASE /\ Becomes(p, TaskFrame(Top(p).id, body), <<TaskFrame(Fresh, "share")>>)
           /\ BeginLoop(p, "inner", plan.inner)
  <2>1. PICK kind, size : kind = "inner" /\ size = plan.inner
    OBVIOUS
  <2>2. kind \in LoopKinds /\ size \in Nat
    BY <2>1, ShapeAssumption DEF LoopKinds, IInv, Shape, GoodPlan
  <2>3. BeginLoop(p, kind, size)
    BY <1>4, <2>1 DEF BeginLoop
  <2>4. Becomes(p, f, <<TaskFrame(Fresh, "share")>>)
    BY <1>2, <1>4 DEF Becomes
  <2>5. Busy(f)
    BY <1>3 DEF Busy
  <2> QED BY <1>3, <2>2, <2>3, <2>4, <2>5, BeginKeeps
<1>5. CASE /\ Becomes(p, TaskFrame(Top(p).id, body), <<>>)
           /\ UNCHANGED <<queues, objects, ran, done>>
  <2>1. Becomes(p, f, <<>>)
    BY <1>2, <1>5 DEF Becomes
  <2>2. task' = task /\ UNCHANGED <<queues, node, deleted, done, cpus, barrier, plan>>
    BY <1>5 DEF objects
  <2> QED BY <1>1, <1>2, <2>1, <2>2, StageWaits
<1>6. CASE Finish(p, phase)
  BY <1>1, <1>6, FinishKeeps
<1> QED BY <1>4, <1>5, <1>6 DEF Execute

LEMMA SpanKeeps ==
  ASSUME IInv, NEW p \in Procs, Span(p), UNCHANGED <<cpus, barrier, plan>>
  PROVE  IInv'
<1>1. stack[p] # <<>> /\ Top(p).at = "span" /\ Top(p).at \in {"span", "rest"} /\ Top(p).at \in InTask \ {"self", "release"}
  BY DEF Span, At, InTask
<1>2. CASE task[Top(p).id].from < task[Top(p).id].to
  <2>1. PICK phase, body : phase = "span" /\ body = "span_body"
    OBVIOUS
  <2>2. Execute(p, phase, body)
    BY <1>2, <2>1 DEF Span, Execute, Finish
  <2>3. body \in Bodies
    BY <2>1 DEF Bodies
  <2> QED BY <1>1, <1>2, <2>2, <2>3, ExecuteKeeps
<1>3. CASE ~(task[Top(p).id].from < task[Top(p).id].to)
  <2>1. PICK at, f : at = "split" /\ f = TaskFrame(Top(p).id, "split")
    OBVIOUS
  <2>2. f = TaskFrame(Top(p).id, at) /\ at \in Steady /\ at \notin Bodies
    BY <2>1 DEF Steady, InTask, Bodies
  <2>3. /\ Becomes(p, f, <<>>) /\ task' = task
        /\ UNCHANGED <<queues, node, deleted, done, cpus, barrier, plan>>
    BY <1>3, <2>1 DEF Span, Becomes, objects
  <2> QED BY <1>1, <2>2, <2>3, StageWaits
<1> QED BY <1>2, <1>3

\* The task has nothing to share with others any more.
LEMMA SplitsNoMore ==
  ASSUME IInv, NEW p \in Procs, At(p, "split"), Becomes(p, TaskFrame(Top(p).id, "rest"), <<>>),
         UNCHANGED <<queues, objects, done, cpus, barrier, plan>>
  PROVE  IInv'
<1>1. stack[p] # <<>> /\ Top(p).at \in InTask \ {"self", "release"}
  BY DEF At, InTask
<1>2. PICK at, f : at = "rest" /\ f = TaskFrame(Top(p).id, "rest")
  OBVIOUS
<1>3. f = TaskFrame(Top(p).id, at) /\ at \in Steady /\ at \notin Bodies
  BY <1>2 DEF Steady, InTask, Bodies
<1>4. /\ Becomes(p, f, <<>>) /\ task' = task
      /\ UNCHANGED <<queues, node, deleted, done, cpus, barrier, plan>>
  BY <1>2 DEF Becomes, objects
<1> QED BY <1>1, <1>3, <1>4, StageWaits

LEMMA RestExecutes ==
  ASSUME IInv, NEW p \in Procs, At(p, "rest"), task[Top(p).id].from # task[Top(p).id].to,
         Execute(p, "rest", "rest_body"), UNCHANGED <<cpus, barrier, plan>>
  PROVE  IInv'
<1>1. stack[p] # <<>> /\ Top(p).at \in {"span", "rest"} /\ Top(p).at \in InTask
  BY DEF At, InTask
<1>2. PICK t : t = task[Top(p).id]
  OBVIOUS
<1>3. t \in TaskSet /\ TaskOK(t) /\ t.from # t.to
  BY <1>1, <1>2, TaskTop
<1>4. t.from < t.to
  <2>1. t.from \in Nat /\ t.to \in Nat /\ t.from <= t.to
    BY <1>3 DEF TaskSet, TaskOK
  <2> QED BY ONLY <1>3, <2>1
<1>5. PICK phase, body : phase = "rest" /\ body = "rest_body"
  OBVIOUS
<1>6. Execute(p, phase, body) /\ body \in Bodies
  BY <1>5 DEF Execute, Finish, Bodies
<1> QED BY <1>1, <1>2, <1>4, <1>6, ExecuteKeeps

-----------------------------------------------------------------------------
(* Tasks that are pushed, or run on the spot.                              *)

\* What becomes of task id, whose entry is g: it enters a queue as i, or its
\* entry is called.
Sent(id, kind, i, g) == \/ i = id /\ g = Nil
                        \/ i = 0 /\ g = Entry(id, kind)

LEMMA Pushed ==
  ASSUME Shape, Bounds, NEW p \in Procs, stack[p] # <<>>, NEW f \in FrameSet, NEW q \in Pool,
         NEW id \in Nat \ {0}, NEW kind \in Queueable,
         PushTask(p, q, id, f) \/ ExecuteTask(p, q, id, kind, f)
  PROVE  \E i, g : Moved(p, f, g) /\ QueueStep(i, 0) /\ Sent(id, kind, i, g)
<1>1. CASE PushTask(p, q, id, f)
  <2>1. Becomes(p, f, <<>>)
    BY <1>1 DEF PushTask
  <2>2. Moved(p, f, Nil)
    BY <2>1, BecomesMoves
  <2>3. QueueStep(id, 0)
    <3>1. CASE p = q
      <4>1. Len(local[q]) < QueueCap /\ Put(local, local', q, id) /\ mail' = mail
        BY <1>1, <3>1 DEF PushTask, Put
      <4> QED BY <4>1, LocalPush
    <3>2. CASE p # q
      <4>1. Len(mail[q]) < MailCap /\ Put(mail, mail', q, id) /\ local' = local
        BY <1>1, <3>2 DEF PushTask, Put
      <4> QED BY <4>1, MailPush
    <3> QED BY <3>1, <3>2
  <2>4. Sent(id, kind, id, Nil)
    BY DEF Sent
  <2> QED BY <2>2, <2>3, <2>4
<1>2. CASE ExecuteTask(p, q, id, kind, f)
  <2>1. PICK g : g = Entry(id, kind)
    OBVIOUS
  <2>2. Becomes(p, f, <<g>>) /\ UNCHANGED queues
    BY <1>2, <2>1 DEF ExecuteTask, Becomes
  <2>3. g \in FrameSet
    BY <2>1, EntryIn
  <2>4. Moved(p, f, g)
    BY <2>2, <2>3, CallsMoves
  <2>5. QueueStep(0, 0)
    BY <2>2, QueuesStay
  <2>6. Sent(id, kind, 0, g)
    BY <2>1 DEF Sent
  <2> QED BY <2>4, <2>5, <2>6
<1> QED BY <1>1, <1>2

\* What it counts as: once for a queue or a proxy's entry, or as a run.
LEMMA SentWeight ==
  ASSUME NEW id \in Nat \ {0}, NEW kind \in Queueable, NEW i, NEW g, Sent(id, kind, i, g)
  PROVE  /\ \A k \in Nat \ {0} : /\ IsMention(g, k) + Same(k, i) + IsRun(g, k) = Same(k, id)
                                 /\ IsMention(g, k) \in Nat /\ Same(k, i) \in Nat /\ IsRun(g, k) \in Nat
                                 /\ kind = "proxy" => IsRun(g, k) = 0
                                 /\ IsDrop(g, k) = 0
         /\ g.at \notin {"release", "pin", "gather"}
<1>1. CASE i = id /\ g = Nil
  <2>1. \A k \in Nat \ {0} : IsMention(g, k) = 0 /\ IsRun(g, k) = 0 /\ IsDrop(g, k) = 0
    BY <1>1 DEF Nil, NoTask, IsMention, IsRun, IsDrop
  <2>2. \A k \in Nat \ {0} : Same(k, i) \in Nat
    BY DEF Same
  <2>3. g.at \notin {"release", "pin", "gather"}
    BY <1>1 DEF Nil
  <2> QED BY <1>1, <2>1, <2>2, <2>3
<1>2. CASE i = 0 /\ g = Entry(id, kind)
  <2>1. ASSUME NEW k \in Nat \ {0}
        PROVE  /\ IsMention(g, k) = (IF kind = "proxy" THEN Same(k, id) ELSE 0)
               /\ IsRun(g, k) = (IF kind = "proxy" THEN 0 ELSE Same(k, id)) /\ IsDrop(g, k) = 0
               /\ Same(k, i) = 0 /\ Same(k, id) \in Nat
    <3>1. Same(k, i) = 0 /\ Same(k, id) \in Nat
      BY <1>2 DEF Same
    <3> QED BY <1>2, <3>1, EntryWeight
  <2>2. ASSUME NEW k \in Nat \ {0}
        PROVE  /\ IsMention(g, k) + Same(k, i) + IsRun(g, k) = Same(k, id)
               /\ IsMention(g, k) \in Nat /\ Same(k, i) \in Nat /\ IsRun(g, k) \in Nat
               /\ kind = "proxy" => IsRun(g, k) = 0
               /\ IsDrop(g, k) = 0
    <3>1. CASE kind = "proxy"
      BY <2>1, <3>1
    <3>2. CASE kind # "proxy"
      BY <2>1, <3>2
    <3> QED BY <3>1, <3>2
  <2>3. g.at \notin {"release", "pin", "gather"}
    <3>1. \/ kind = "proxy" /\ g.at = "enter"
          \/ kind = "pin" /\ g.at = "to_pin"
          \/ kind = "unique" /\ g.at = "split"
      BY <1>2, EntryAt DEF Queueable
    <3> QED BY <3>1
  <2> QED BY <2>2, <2>3
<1> QED BY <1>1, <1>2 DEF Sent

\* The entry of a task that holds its node, once the tasks are as they are then.
LEMMA SentFrame ==
  ASSUME NEW p, NEW id \in Nat \ {0}, NEW kind \in Queueable, NEW i, NEW g, Sent(id, kind, i, g), g # Nil,
         id <= Len(task'), Len(task') \in Nat, task'[id].kind = kind, kind = "unique" => task'[id].holds
  PROVE  FrameOK(p, g)' /\ Busy(g)'
<1>1. g = Entry(id, kind)
  BY DEF Sent
<1>2. g.id = id
  BY <1>1, EntryIn
<1>3. \/ kind = "proxy" /\ g.at = "enter"
      \/ kind = "pin" /\ g.at = "to_pin"
      \/ kind = "unique" /\ g.at = "split"
  BY <1>1, EntryAt DEF Queueable
<1>4. g.id \in 0 .. Len(task')
  BY <1>2
<1> QED BY <1>2, <1>3, <1>4 DEF FrameOK, Busy, InTask, LoopLabels, Bodies

-----------------------------------------------------------------------------
(* Task id gives a part of its range to a new task.                        *)

\* The objects then.
LEMMA Spawned ==
  ASSUME Shape, NEW id \in DOMAIN task, task[id].holds, node[id].count > 0,
         NEW to \in Nat, NEW u \in TaskSet, Spawn(id, to, u), NEW new, new = Fresh
  PROVE  /\ task' \in Seq(TaskSet) /\ Len(task') = new /\ task'[new] = u
         /\ task'[id] = [task[id] EXCEPT !.to = to]
         /\ \A k \in DOMAIN task : k # id => task'[k] = task[k]
         /\ node' \in Seq(NodeSet) /\ Len(node') = new
         /\ node'[new].parent = id /\ node'[new].count = 1
         /\ node'[id].count = node[id].count + 1
         /\ \A k \in DOMAIN task : node'[k].parent = node[k].parent /\ (k # id => node'[k].count = node[k].count)
         /\ \A n : Cardinality(Children(n)') = Cardinality(Children(n)) + Same(n, id)
<1>1. /\ task \in Seq(TaskSet) /\ node \in Seq(NodeSet) /\ DOMAIN task = DOMAIN node /\ Len(node) = Len(task)
      /\ id \in DOMAIN node /\ new = Len(task) + 1 /\ id \in Nat
  BY LenProperties DEF Shape, Fresh
<1>2. task[id] \in TaskSet /\ node[id] \in NodeSet
  BY <1>1, ElementOfSeq
<1>3. PICK t, c : t = [task[id] EXCEPT !.to = to] /\ c = [node[id] EXCEPT !.count = @ + 1]
  OBVIOUS
<1>4. t \in TaskSet
  BY <1>2, <1>3 DEF TaskSet
<1>5. c \in NodeSet /\ c.parent = node[id].parent /\ c.count = node[id].count + 1 /\ node[id].count \in Nat
  BY <1>2, <1>3 DEF NodeSet
<1>6. PICK m, s : m = [task EXCEPT ![id] = t] /\ s = [node EXCEPT ![id] = c]
  OBVIOUS
<1>7. m \in Seq(TaskSet) /\ Len(m) = Len(task) /\ m[id] = t /\ \A k \in DOMAIN task : k # id => m[k] = task[k]
  BY <1>1, <1>4, <1>6, ExceptSeq
<1>8. s \in Seq(NodeSet) /\ Len(s) = Len(node) /\ s[id] = c /\ \A k \in DOMAIN node : k # id => s[k] = node[k]
  BY <1>1, <1>5, <1>6, ExceptSeq
<1>9. task' = Append(m, u)
  BY <1>3, <1>6 DEF Spawn, Replace
<1>10. PICK v : v = [parent |-> id, count |-> 1]
  OBVIOUS
<1>11. v \in NodeSet /\ v.parent = id /\ v.count = 1 /\ node' = Append(s, v)
  BY <1>1, <1>3, <1>6, <1>10 DEF NodeSet, Spawn, Replace
<1>12. PICK w : w = task'
  OBVIOUS
<1>13. /\ w \in Seq(TaskSet) /\ Len(w) = new /\ w[new] = u /\ \A k \in DOMAIN m : w[k] = m[k]
  BY <1>1, <1>7, <1>9, <1>12, Appended
<1>14. DOMAIN m = DOMAIN task
  BY <1>6
<1>15. \A k \in DOMAIN node : s[k].parent = node[k].parent /\ (s[k].count > 0 <=> node[k].count > 0)
  <2>1. s[id].parent = node[id].parent /\ s[id].count > 0
    BY <1>5, <1>8
  <2> QED BY <1>8, <2>1
<1>16. /\ node' \in Seq(NodeSet) /\ Len(node') = new /\ node'[new] = v /\ \A k \in DOMAIN node : node'[k] = s[k]
       /\ \A n : /\ v.parent = n /\ v.count > 0 =>
                        Cardinality(Children(n)') = Cardinality(Children(n)) + 1
                 /\ ~(v.parent = n /\ v.count > 0) => Cardinality(Children(n)') = Cardinality(Children(n))
  <2>1. new = Len(node) + 1
    BY <1>1
  <2> QED BY <1>8, <1>11, <1>15, <2>1, ChildrenAppend
<1>17. \A n : Cardinality(Children(n)') = Cardinality(Children(n)) + Same(n, id)
  <2>1. ASSUME NEW n PROVE Cardinality(Children(n)') = Cardinality(Children(n)) + Same(n, id)
    <3>1. CASE n = id
      <4>1. Same(n, id) = 1
        BY <3>1 DEF Same
      <4> QED BY <1>11, <1>16, <3>1, <4>1
    <3>2. CASE n # id
      <4>1. Same(n, id) = 0 /\ Cardinality(Children(n)) \in Nat
        BY <3>2, ChildrenFinite DEF Same
      <4>2. Cardinality(Children(n)') = Cardinality(Children(n))
        BY <1>11, <1>16, <3>2
      <4> QED BY <4>1, <4>2
    <3> QED BY <3>1, <3>2
  <2> QED BY <2>1
<1>18. /\ task' \in Seq(TaskSet) /\ Len(task') = new /\ task'[new] = u
       /\ task'[id] = [task[id] EXCEPT !.to = to]
       /\ \A k \in DOMAIN task : k # id => task'[k] = task[k]
  BY <1>3, <1>7, <1>12, <1>13, <1>14
<1>19. /\ node'[new].parent = id /\ node'[new].count = 1
       /\ node'[id].count = node[id].count + 1
       /\ \A k \in DOMAIN task : node'[k].parent = node[k].parent /\ (k # id => node'[k].count = node[k].count)
  <2>1. node'[new].parent = id /\ node'[new].count = 1
    BY <1>11, <1>16
  <2>2. node'[id].count = node[id].count + 1
    BY <1>1, <1>5, <1>8, <1>16
  <2>3. \A k \in DOMAIN task : node'[k].parent = node[k].parent /\ (k # id => node'[k].count = node[k].count)
    BY <1>1, <1>8, <1>15, <1>16
  <2> QED BY <2>1, <2>2, <2>3
<1> QED BY <1>16, <1>17, <1>18, <1>19

SpawnKinds == {"proxy", "unique"}

LEMMA SpawnKeeps ==
  ASSUME IInv, NEW p \in Procs, stack[p] # <<>>, NEW id, id = Top(p).id, Top(p).at \in {"hand", "split"},
         NEW u \in TaskSet, u.kind \in SpawnKinds, TaskOK(u), u.state = 0, u.holds,
         NEW to \in Nat, task[id].from <= to, Spawn(id, to, u), NEW new, new = Fresh,
         NEW f \in FrameSet, f.id = id, f.at \in {"hand", "self", "split"}, f.at # "split" => f.todo # <<>>,
         f.at = "self" <=> u.kind = "proxy", f.at = "self" => f.ptr = new,
         NEW i, NEW g, Moved(p, f, g), QueueStep(i, 0), Sent(new, u.kind, i, g),
         UNCHANGED <<cpus, barrier, plan>>
  PROVE  IInv'
<1>0. /\ Shape /\ FramesOK /\ TasksOK /\ Lives /\ Refs /\ Bounds
      /\ deleted' = deleted /\ done' = done /\ barrier' = barrier /\ plan' = plan /\ cpus' = cpus
  BY DEF IInv, Spawn
<1>1. /\ id \in Nat \ {0} /\ id \in DOMAIN task /\ ~Gone(id) /\ task[id] \in TaskSet /\ TaskOK(task[id])
      /\ task[id].kind # "pin" /\ task[id].holds
  <2>1. PICK e, t : e = Top(p) /\ t = task[Top(p).id]
    OBVIOUS
  <2>2. Top(p).at \in InTask
    BY DEF InTask
  <2>3. /\ Busy(e) /\ e.id \in Nat \ {0} /\ e.id \in DOMAIN task /\ ~Gone(e.id)
        /\ t \in TaskSet /\ TaskOK(t) /\ t.kind # "pin"
    BY <2>1, <2>2, TaskTop
  <2> QED BY <2>1, <2>3 DEF Busy, InTask
<1>2. /\ Len(task) \in Nat /\ DOMAIN task = 1 .. Len(task) /\ DOMAIN node = DOMAIN task
      /\ new = Len(task) + 1 /\ new \in Nat \ {0} /\ id # new /\ id < new
  BY <1>0, <1>1, LenProperties DEF Shape, Fresh
<1>3. /\ RefsAt(id) /\ node[id].count > 0 /\ node[id].count \in Nat
  <2>1. RefsAt(id) /\ Held(id) = 1 /\ Cardinality(Children(id)) \in Nat /\ Dropped(id) \in Nat /\ Owned(id) \in Nat
    BY <1>0, <1>1, <1>2, ChildrenFinite, Tallies DEF Refs, Held, Owned
  <2> QED BY <2>1 DEF RefsAt
<1>4. /\ task' \in Seq(TaskSet) /\ Len(task') = new /\ task'[new] = u
      /\ task'[id] = [task[id] EXCEPT !.to = to]
      /\ \A k \in DOMAIN task : k # id => task'[k] = task[k]
      /\ node' \in Seq(NodeSet) /\ Len(node') = new
      /\ node'[new].parent = id /\ node'[new].count = 1
      /\ node'[id].count = node[id].count + 1
      /\ \A k \in DOMAIN task : node'[k].parent = node[k].parent /\ (k # id => node'[k].count = node[k].count)
      /\ \A n : Cardinality(Children(n)') = Cardinality(Children(n)) + Same(n, id)
  BY <1>0, <1>1, <1>3, Spawned
<1>5. /\ task'[id].kind = task[id].kind /\ task'[id].state = task[id].state /\ task'[id].holds = task[id].holds
      /\ task'[id].from = task[id].from /\ task'[id].to = to
      /\ task'[id].share = task[id].share /\ task'[id].lo = task[id].lo /\ task'[id].hi = task[id].hi
  <2>1. PICK t, w : t = task[id] /\ w = task'[id]
    OBVIOUS
  <2>2. t \in TaskSet /\ w = [t EXCEPT !.to = to]
    BY <1>1, <1>4, <2>1
  <2>3. w.kind = t.kind /\ w.state = t.state /\ w.from = t.from /\ w.to = to /\ w.lo = t.lo /\ w.hi = t.hi
    BY ONLY <2>2 DEF TaskSet
  <2>4. w.holds = t.holds /\ w.share = t.share
    BY ONLY <2>2, Zenon DEF TaskSet
  <2> QED BY <2>1, <2>3, <2>4
<1>6. \A k \in DOMAIN task : Onward(k) /\ (task'[k] = task[k] \/ k = Top(p).id)
  <2>1. Onward(id)
    BY <1>1, <1>5 DEF Onward, TaskOK
  <2>2. ASSUME NEW k \in DOMAIN task, k # id PROVE Onward(k) /\ task'[k] = task[k]
    BY <1>0, <1>4, <2>2 DEF Onward, TasksOK, TaskOK
  <2> QED BY <2>1, <2>2
<1>7. u.kind \in Queueable
  BY DEF SpawnKinds, Queueable
<1>8. /\ \A k \in Nat \ {0} : /\ IsMention(g, k) + Same(k, i) + IsRun(g, k) = Same(k, new)
                              /\ IsMention(g, k) \in Nat /\ Same(k, i) \in Nat /\ IsRun(g, k) \in Nat
                              /\ u.kind = "proxy" => IsRun(g, k) = 0
                              /\ IsDrop(g, k) = 0
      /\ g.at \notin {"release", "pin", "gather"}
  <2>1. PICK kind : kind = u.kind
    OBVIOUS
  <2>2. kind \in Queueable /\ Sent(new, kind, i, g)
    BY <1>7, <2>1
  <2> QED BY <1>2, <2>1, <2>2, SentWeight
<1>9. \A k \in Nat \ {0} : k # new => Even(Top(p), f, g, i, 0, k)
  <2>1. ASSUME NEW k \in Nat \ {0}, k # new PROVE Even(Top(p), f, g, i, 0, k)
    <3>1. /\ IsMention(g, k) + Same(k, i) + IsRun(g, k) = 0
          /\ IsMention(g, k) \in Nat /\ Same(k, i) \in Nat /\ IsRun(g, k) \in Nat /\ IsDrop(g, k) = 0
      BY <1>8, <2>1 DEF Same
    <3>2. IsMention(g, k) = 0 /\ Same(k, i) = 0 /\ IsRun(g, k) = 0
      BY ONLY <3>1
    <3>3. IsMention(f, k) = 0 /\ IsMention(Top(p), k) = 0 /\ IsDrop(f, k) = 0 /\ IsDrop(Top(p), k) = 0 /\ Same(k, 0) = 0
      BY <2>1 DEF IsMention, IsDrop, Same
    <3>4. IsRun(f, k) = IsRun(Top(p), k) /\ IsRun(f, k) \in Nat
      BY DEF IsRun
    <3> QED BY <3>1, <3>2, <3>3, <3>4 DEF Even
  <2> QED BY <2>1
<1>10. Fits(u.kind, IsMention(f, new) + IsMention(g, new) + Same(new, i), IsRun(f, new) + IsRun(g, new))
  <2>1. /\ IsMention(g, new) + Same(new, i) + IsRun(g, new) = 1
        /\ IsMention(g, new) \in Nat /\ Same(new, i) \in Nat /\ IsRun(g, new) \in Nat
        /\ u.kind = "proxy" => IsRun(g, new) = 0
    BY <1>2, <1>8 DEF Same
  <2>2. IsRun(f, new) = 0
    BY <1>2 DEF IsRun
  <2>3. CASE u.kind = "proxy"
    <3>1. IsMention(f, new) = 1
      BY <2>3 DEF IsMention
    <3>2. IsMention(f, new) + IsMention(g, new) + Same(new, i) = 2 /\ IsRun(f, new) + IsRun(g, new) = 0
      BY <2>1, <2>2, <2>3, <3>1
    <3> QED BY <2>3, <3>2 DEF Fits
  <2>4. CASE u.kind = "unique"
    <3>1. IsMention(f, new) = 0
      BY <2>4 DEF IsMention
    <3>2. IsMention(f, new) + IsMention(g, new) + Same(new, i) + (IsRun(f, new) + IsRun(g, new)) = 1
      BY ONLY <2>1, <2>2, <3>1
    <3> QED BY <2>4, <3>2 DEF Fits
  <2> QED BY <2>3, <2>4 DEF SpawnKinds
<1>11. FrameOK(p, f)' /\ Busy(f)'
  <2>1. f.id \in 0 .. Len(task') /\ new \in DOMAIN task'
    <3>1. DOMAIN task' = 1 .. new
      BY <1>4, LenProperties
    <3>2. id \in 0 .. new /\ new \in 1 .. new
      <4>1. id \in Nat /\ new \in Nat /\ id < new /\ new >= 1
        BY <1>1, <1>2
      <4> QED BY ONLY <4>1
    <3> QED BY <1>1, <1>4, <3>1, <3>2
  <2>2. f.at = "self" => f.ptr \in DOMAIN task' /\ task'[f.ptr].kind = "proxy"
    BY <1>4, <2>1
  <2> QED BY <1>1, <1>5, <2>1, <2>2 DEF FrameOK, Busy, InTask, LoopLabels, Bodies
<1>12. g # Nil => FrameOK(p, g)' /\ Busy(g)'
  <2>1. PICK kind : kind = u.kind
    OBVIOUS
  <2>2. kind \in Queueable /\ Sent(new, kind, i, g) /\ new <= Len(task') /\ Len(task') \in Nat /\ task'[new].kind = kind
    BY <1>2, <1>4, <1>7, <2>1
  <2>3. task'[new].holds
    BY <1>4
  <2> QED BY <1>2, <2>2, <2>3, SentFrame
<1>13. /\ Shape' /\ FramesOK' /\ TasksOK' /\ Lives'
       /\ new \notin DOMAIN task /\ DOMAIN task' = DOMAIN task \cup {new}
       /\ \A k \in Nat \ {0} : Dropped(k)' = Dropped(k)
       /\ Dropped(new) = 0
  <2>1. f # Nil /\ g.at # "release" /\ f.at # "release" /\ Top(p).at \notin {"enter", "release"}
    BY <1>8, NilIsNone
  <2>2. \A k \in DOMAIN task : /\ node'[k].parent = node[k].parent
                               /\ node'[k].count = node[k].count \/ (task[k].kind # "pin" /\ ~Gone(k))
    BY <1>1, <1>4
  <2>3. PICK v : v = node'[new]
    OBVIOUS
  <2>4. v.parent < new /\ (v.parent = 0 <=> u.kind \in {"root", "inner", "pin"}) /\ u.kind # "pin"
    BY <1>1, <1>2, <1>4, <2>3 DEF SpawnKinds
  <2>5. new = Len(task) + 1
    BY <1>2
  <2>6. /\ TaskOK(u) /\ u.state = 0 /\ (u.holds \/ u.kind = "pin")
        /\ task' \in Seq(TaskSet) /\ Len(task') = new /\ node' \in Seq(NodeSet) /\ Len(node') = new
        /\ deleted' = deleted /\ plan' = plan /\ u = task'[new]
    BY <1>0, <1>4
  <2> QED BY <1>6, <1>9, <1>10, <1>11, <1>12, <2>1, <2>2, <2>3, <2>4, <2>5, <2>6, Births
<1>14. Refs'
  <2>1. ASSUME NEW n \in DOMAIN task PROVE RefsAt(n)'
    <3>1. RefsAt(n) /\ n \in Nat \ {0}
      BY <1>0, <1>2 DEF Refs
    <3>2. Dropped(n)' = Dropped(n) /\ Cardinality(Children(n)') = Cardinality(Children(n)) + Same(n, id)
      BY <1>4, <1>13, <3>1
    <3>3. Held(n)' = Held(n) /\ Owned(n)' = Owned(n)
      BY <1>0, <1>6 DEF Held, Owned, IsLoop, Gone, Onward
    <3>4. /\ Cardinality(Children(n)) \in Nat /\ Dropped(n) \in Nat /\ Held(n) \in Nat /\ Owned(n) \in Nat
      BY <1>0, ChildrenFinite, Tallies DEF Held, Owned
    <3>5. node'[n].count = node[n].count + Same(n, id)
      <4>1. CASE n = id
        BY <1>4, <4>1 DEF Same
      <4>2. CASE n # id
        <5>1. Same(n, id) = 0 /\ node[n].count \in Nat
          BY <3>1, <3>4, <4>2 DEF Same, RefsAt
        <5> QED BY <1>4, <4>2, <5>1
      <4> QED BY <4>1, <4>2
    <3>6. Same(n, id) \in Nat
      BY DEF Same
    <3>7. node[n].count = Cardinality(Children(n)) + Dropped(n) + Held(n) + Owned(n)
      BY <3>1 DEF RefsAt
    <3>8. node'[n].count = Cardinality(Children(n)') + Dropped(n)' + Held(n)' + Owned(n)'
      BY ONLY <3>2, <3>3, <3>4, <3>5, <3>6, <3>7
    <3> QED BY <3>8 DEF RefsAt
  <2>2. RefsAt(new)'
    <3>1. Cardinality(Children(new)) = 0 /\ Same(new, id) = 0
      BY <1>0, <1>2, <1>13, Childless DEF Same
    <3>2. Cardinality(Children(new)') = 0
      BY <1>4, <3>1
    <3>3. Dropped(new)' = 0
      BY <1>2, <1>13
    <3>4. Held(new)' = 1 /\ Owned(new)' = 0
      BY <1>4 DEF Held, Owned, IsLoop, SpawnKinds
    <3> QED BY <1>4, <3>2, <3>3, <3>4 DEF RefsAt
  <2>3. \A n \in DOMAIN node' : n \in DOMAIN task \/ n = new
    BY <1>2, <1>4, LenProperties
  <2> QED BY <2>1, <2>2, <2>3 DEF Refs
<1>15. Pins'
  <2>1. Top(p).at \notin {"pin", "gather"} /\ f.at \notin {"pin", "gather"} /\ g.at \notin {"pin", "gather"}
    BY <1>8
  <2>2. \A k \in PinTasks : Gone(k)' <=> Gone(k)
    BY <1>0 DEF Gone
  <2>3. \A k \in DOMAIN task : task'[k].kind = task[k].kind /\ (task[k].kind = "pin" => task'[k].from = task[k].from)
    BY <1>1, <1>6 DEF Onward
  <2>4. \A k \in DOMAIN task' : k \in DOMAIN task \/ task'[k].kind # "pin"
    BY <1>4, <1>13 DEF SpawnKinds
  <2>5. DOMAIN task \subseteq DOMAIN task'
    BY <1>13
  <2> QED BY <1>0, <2>1, <2>2, <2>3, <2>4, <2>5, WorkPins
<1>16. Bounds'
  <2>1. done' \in BOOLEAN /\ cpus' \in [Pool -> SUBSET (0 .. N - 1)]
    BY <1>0 DEF Bounds
  <2> QED BY <2>1, BoundsStay
<1> QED BY <1>13, <1>14, <1>15, <1>16 DEF IInv

LEMMA HandKeeps ==
  ASSUME IInv, NEW p \in Procs, Hand(p), UNCHANGED <<cpus, barrier, plan>>
  PROVE  IInv'
<1>1. stack[p] # <<>> /\ Top(p).at = "hand" /\ Top(p).at \in InTask /\ Top(p).at \in {"hand", "split"}
  BY DEF Hand, At, InTask
<1>2. PICK e, id, t, new : e = Top(p) /\ id = Top(p).id /\ t = task[Top(p).id] /\ new = Fresh
  OBVIOUS
<1>3. /\ e \in TaskFrames /\ FrameOK(p, e) /\ e.id = id /\ e.at = "hand" /\ id \in Nat \ {0} /\ id \in DOMAIN task
      /\ t \in TaskSet /\ TaskOK(t)
  BY <1>1, <1>2, TaskTop
<1>4. Shape /\ Bounds /\ new \in Nat \ {0}
  <2>1. Len(task) \in Nat
    BY LenProperties DEF IInv, Shape
  <2> QED BY <1>2, <2>1 DEF IInv, Fresh
<1>5. e.todo \in Seq(PartSet) /\ e.todo # <<>>
  BY <1>3 DEF TaskFrames, FrameOK
<1>6. PICK part : part = Head(e.todo)
  OBVIOUS
<1>7. part \in PartSet
  BY <1>5, <1>6, HeadTailProperties
<1>8. /\ part.from \in Nat /\ part.to \in Nat /\ part.lo \in Nat /\ part.hi \in Nat /\ part.grain \in Nat \ {0}
      /\ part.from <= part.to /\ part.lo < part.hi
  BY <1>7 DEF PartSet, JobSet, ProperJob
<1>9. PICK u : u = Task("proxy", t.loop, part, t.share, t.span)
  OBVIOUS
<1>10. u \in TaskSet /\ u.kind = "proxy" /\ TaskOK(u) /\ u.state = 0 /\ u.holds
  <2>1. t.loop \in Nat /\ t.share \in BOOLEAN /\ t.span \in BOOLEAN
    BY <1>3 DEF TaskSet
  <2>2. u \in TaskSet
    BY <1>8, <1>9, <2>1 DEF Task, TaskSet, Kinds
  <2>3. u.kind = "proxy" /\ u.state = 0 /\ u.holds
    BY <1>9 DEF Task
  <2>4. TaskOK(u)
    BY <1>8, <1>9 DEF Task, TaskOK
  <2> QED BY <2>2, <2>3, <2>4
<1>11. PICK f : f = [e EXCEPT !.at = "self", !.ptr = new]
  OBVIOUS
<1>12. f \in FrameSet /\ f.id = id /\ f.at = "self" /\ f.ptr = new /\ f.todo # <<>>
  BY <1>3, <1>4, <1>5, <1>11 DEF FrameSet, TaskFrames, TaskLabels, InTask
<1>13. PICK to : to = task[id].to
  OBVIOUS
<1>14. to \in Nat /\ task[id].from <= to
  BY <1>2, <1>3, <1>13 DEF TaskSet, TaskOK
<1>15. Spawn(id, to, u)
  BY <1>2, <1>6, <1>9, <1>13 DEF Hand
<1>16. PICK q, kind : q = part.lo % N /\ kind = "proxy"
  OBVIOUS
<1>17. q \in Pool /\ kind \in Queueable
  BY <1>8, <1>16, ShapeAssumption DEF Pool, Queueable
<1>18. PushTask(p, q, new, f) \/ ExecuteTask(p, q, new, kind, f)
  BY <1>2, <1>6, <1>11, <1>16 DEF Hand, RunOnThread, PushTask, ExecuteTask, Becomes
<1>19. PICK i, g : Moved(p, f, g) /\ QueueStep(i, 0) /\ Sent(new, kind, i, g)
  BY <1>1, <1>4, <1>12, <1>17, <1>18, Pushed
<1>20. u.kind = kind /\ u.kind \in SpawnKinds
  BY <1>10, <1>16 DEF SpawnKinds
<1>21. Sent(new, u.kind, i, g)
  BY <1>19, <1>20
<1>22. /\ f.at \in {"hand", "self", "split"} /\ (f.at # "split" => f.todo # <<>>)
       /\ (f.at = "self" <=> u.kind = "proxy") /\ (f.at = "self" => f.ptr = new)
  BY <1>10, <1>12
<1> QED BY <1>1, <1>2, <1>10, <1>12, <1>14, <1>15, <1>19, <1>20, <1>21, <1>22, SpawnKeeps

LEMMA SplitKeeps ==
  ASSUME IInv, NEW p \in Procs, Split(p), UNCHANGED <<cpus, barrier, plan>>
  PROVE  IInv'
<1>1. stack[p] # <<>> /\ Top(p).at = "split" /\ Top(p).at \in InTask /\ Top(p).at \in {"hand", "split"}
  BY DEF Split, At, InTask
<1>2. PICK e, id, t, new : e = Top(p) /\ id = Top(p).id /\ t = task[Top(p).id] /\ new = Fresh
  OBVIOUS
<1>3. /\ e \in FrameSet /\ FrameOK(p, e) /\ e.id = id /\ e.at = "split" /\ id \in Nat \ {0} /\ id \in DOMAIN task
      /\ t \in TaskSet /\ TaskOK(t)
  BY <1>1, <1>2, TaskTop DEF FrameSet
<1>4. Shape /\ Bounds /\ new \in Nat \ {0}
  <2>1. Len(task) \in Nat
    BY LenProperties DEF IInv, Shape
  <2> QED BY <1>2, <2>1 DEF IInv, Fresh
<1>5. CASE t.from # t.to /\ Divisible(p, t)
  <2>1. PICK mid : mid = t.from + (t.to - t.from) \div 2
    OBVIOUS
  <2>2. mid \in Nat /\ t.from <= mid /\ mid <= t.to /\ t.to \in Nat /\ t.grain \in Nat \ {0} /\ t.loop \in Nat
    <3>1. t.from \in Nat /\ t.to \in Nat /\ t.from <= t.to /\ t.grain \in Nat \ {0} /\ t.loop \in Nat
      BY <1>3 DEF TaskSet, TaskOK
    <3> QED BY ONLY <2>1, <3>1
  <2>3. PICK u : u = Task("unique", t.loop,
                          [from |-> mid, to |-> t.to, lo |-> 0, hi |-> 0, grain |-> t.grain], FALSE, FALSE)
    OBVIOUS
  <2>4. u \in TaskSet /\ u.kind = "unique" /\ TaskOK(u) /\ u.state = 0 /\ u.holds
    <3>1. u \in TaskSet
      BY <2>2, <2>3 DEF Task, TaskSet, Kinds
    <3>2. u.kind = "unique" /\ u.state = 0 /\ u.holds
      BY <2>3 DEF Task
    <3>3. TaskOK(u)
      BY <2>2, <2>3 DEF Task, TaskOK
    <3> QED BY <3>1, <3>2, <3>3
  <2>5. Spawn(id, mid, u)
    BY <1>2, <1>5, <2>1, <2>3 DEF Split
  <2>6. task[id].from <= mid
    BY <1>2, <2>2
  <2>7. PICK kind : kind = "unique"
    OBVIOUS
  <2>8. PICK q \in Pool : PushTask(p, q, new, e) \/ ExecuteTask(p, q, new, kind, e)
    <3>1. ScheduleWithHint(p, new, kind, e)
      BY <1>2, <1>5, <2>7 DEF Split, ScheduleWithHint, PushTask, ExecuteTask, Becomes
    <3> QED BY <3>1 DEF ScheduleWithHint
  <2>9. kind \in Queueable
    BY <2>7 DEF Queueable
  <2>10. PICK i, g : Moved(p, e, g) /\ QueueStep(i, 0) /\ Sent(new, kind, i, g)
    BY <1>1, <1>3, <1>4, <2>8, <2>9, Pushed
  <2>11. u.kind = kind /\ u.kind \in SpawnKinds
    BY <2>4, <2>7 DEF SpawnKinds
  <2>12. Sent(new, u.kind, i, g)
    BY <2>10, <2>11
  <2>13. /\ e.at \in {"hand", "self", "split"} /\ (e.at # "split" => e.todo # <<>>)
         /\ (e.at = "self" <=> u.kind = "proxy") /\ (e.at = "self" => e.ptr = new)
    BY <1>3, <2>4
  <2> QED BY <1>1, <1>2, <1>3, <2>2, <2>4, <2>5, <2>6, <2>10, <2>11, <2>12, <2>13, SpawnKeeps
<1>6. CASE ~(t.from # t.to /\ Divisible(p, t))
  <2>1. /\ At(p, "split") /\ Becomes(p, TaskFrame(Top(p).id, "rest"), <<>>)
        /\ UNCHANGED <<queues, objects, ran, done>>
    BY <1>2, <1>6 DEF Split, Becomes
  <2> QED BY <2>1, SplitsNoMore
<1> QED BY <1>5, <1>6

\* A proxy that has been pushed once goes to the own queue too.
LEMMA HandToSelfKeeps ==
  ASSUME IInv, NEW p \in Procs, HandToSelf(p), UNCHANGED <<cpus, barrier, plan>>
  PROVE  IInv'
<1>1. /\ stack[p] # <<>> /\ Top(p).at = "self" /\ Top(p).at \in InTask
      /\ node' = node /\ deleted' = deleted /\ done' = done /\ plan' = plan /\ cpus' = cpus /\ barrier' = barrier
  BY DEF HandToSelf, At, InTask
<1>2. PICK e, id, t, ptr : e = Top(p) /\ id = Top(p).id /\ t = task[Top(p).id] /\ ptr = Top(p).ptr
  OBVIOUS
<1>3. /\ e \in TaskFrames /\ FrameOK(p, e) /\ Busy(e) /\ e.id = id /\ e.at = "self" /\ e.ptr = ptr
      /\ id \in Nat \ {0} /\ id \in DOMAIN task /\ t \in TaskSet /\ TaskOK(t) /\ t.kind # "pin"
  BY <1>1, <1>2, TaskTop
<1>4. Shape /\ Bounds /\ TasksOK /\ Len(task) \in Nat /\ DOMAIN task = 1 .. Len(task)
  BY LenProperties DEF IInv, Shape
<1>5. /\ e.todo \in Seq(PartSet) /\ e.todo # <<>> /\ ptr \in DOMAIN task /\ task[ptr].kind = "proxy" /\ t.holds
      /\ ptr \in Nat \ {0}
  BY <1>2, <1>3, <1>4 DEF TaskFrames, FrameOK, Busy, InTask
<1>6. PICK last \in BOOLEAN : last = (Len(e.todo) = 1)
  OBVIOUS
<1>7. PICK f : f = IF last THEN TaskFrame(id, AfterShare(id))
                   ELSE [e EXCEPT !.at = "hand", !.todo = Tail(e.todo), !.ptr = NoTask]
  OBVIOUS
<1>8. /\ f \in FrameSet /\ f.id = id /\ f.at \in {"hand", "span", "split"}
      /\ f.at = "hand" => f.todo # <<>>
  <2>1. CASE last
    <3>1. PICK at : at = AfterShare(id)
      OBVIOUS
    <3>2. at \in TaskLabels /\ at \in {"span", "split"}
      BY <3>1 DEF AfterShare, TaskLabels, InTask
    <3>3. f = TaskFrame(id, at)
      BY <1>7, <2>1, <3>1
    <3>4. f \in FrameSet /\ f.at = at /\ f.id = id
      BY <1>3, <3>2, <3>3, TaskFrameIn
    <3> QED BY <3>2, <3>4
  <2>2. CASE ~last
    <3>1. Tail(e.todo) \in Seq(PartSet) /\ Len(Tail(e.todo)) = Len(e.todo) - 1
      BY <1>5, HeadTailProperties
    <3>2. Tail(e.todo) # <<>>
      <4>1. Len(e.todo) # 1 /\ Len(e.todo) \in Nat
        BY <1>5, <1>6, <2>2, LenProperties
      <4>2. Len(Tail(e.todo)) # 0
        BY <3>1, <4>1
      <4> QED BY <3>1, <4>2, EmptySeq
    <3>3. f = [e EXCEPT !.at = "hand", !.todo = Tail(e.todo), !.ptr = 0]
      BY <1>7, <2>2 DEF NoTask
    <3> QED BY <1>3, <3>1, <3>2, <3>3 DEF FrameSet, TaskFrames, TaskLabels, InTask
  <2> QED BY <2>1, <2>2
<1>9. PICK kind : kind = "proxy"
  OBVIOUS
<1>10. PICK q \in Pool : PushTask(p, q, ptr, f) \/ ExecuteTask(p, q, ptr, kind, f)
  <2>1. ScheduleWithHint(p, ptr, kind, f)
    BY <1>2, <1>6, <1>7, <1>9 DEF HandToSelf, ScheduleWithHint, PushTask, ExecuteTask, Becomes
  <2> QED BY <2>1 DEF ScheduleWithHint
<1>11. kind \in Queueable
  BY <1>9 DEF Queueable
<1>12. PICK i, g : Moved(p, f, g) /\ QueueStep(i, 0) /\ Sent(ptr, kind, i, g)
  BY <1>1, <1>4, <1>5, <1>8, <1>10, <1>11, Pushed
<1>13. PICK u : u = IF last /\ t.span THEN [t EXCEPT !.grain = 1] ELSE t
  OBVIOUS
<1>14. /\ u \in TaskSet /\ u.kind = t.kind /\ u.state = t.state /\ u.from = t.from /\ TaskOK(u)
       /\ u.holds = t.holds
  BY <1>3, <1>13 DEF TaskSet, TaskOK
<1>15. /\ task' \in Seq(TaskSet) /\ Len(task') = Len(task) /\ DOMAIN task' = DOMAIN task
       /\ task'[id] = u /\ \A k \in DOMAIN task : k # id => task'[k] = task[k]
  <2>1. CASE last /\ t.span
    <3>1. task' = Replace(task, id, u)
      BY <1>2, <1>6, <1>13, <2>1 DEF HandToSelf
    <3> QED BY <1>3, <1>4, <1>14, <3>1, Retasked
  <2>2. CASE ~(last /\ t.span)
    <3>1. task' = task
      BY <1>2, <1>6, <2>2 DEF HandToSelf
    <3> QED BY <1>2, <1>4, <1>13, <2>2, <3>1 DEF Shape
  <2> QED BY <2>1, <2>2
<1>16. \A k \in DOMAIN task : Onward(k) /\ (task'[k] = task[k] \/ (k = Top(p).id /\ Top(p).at # "enter"))
  <2>1. Onward(id)
    BY <1>2, <1>14, <1>15 DEF Onward, TaskOK
  <2>2. ASSUME NEW k \in DOMAIN task, k # id PROVE Onward(k) /\ task'[k] = task[k]
    BY <1>4, <1>15, <2>2 DEF Onward, TasksOK, TaskOK
  <2> QED BY <1>1, <1>2, <2>1, <2>2
<1>17. /\ \A k \in Nat \ {0} : /\ IsMention(g, k) + Same(k, i) + IsRun(g, k) = Same(k, ptr)
                               /\ IsMention(g, k) \in Nat /\ Same(k, i) \in Nat /\ IsRun(g, k) \in Nat
                               /\ kind = "proxy" => IsRun(g, k) = 0
                               /\ IsDrop(g, k) = 0
       /\ g.at \notin {"release", "pin", "gather"}
  BY <1>5, <1>11, <1>12, SentWeight
<1>18. ASSUME NEW k \in Nat \ {0} PROVE Even(Top(p), f, g, i, 0, k)
  <2>1. /\ IsMention(g, k) + Same(k, i) = Same(k, ptr) /\ IsRun(g, k) = 0 /\ IsDrop(g, k) = 0
        /\ IsMention(g, k) \in Nat /\ Same(k, i) \in Nat
    BY <1>9, <1>17
  <2>2. /\ IsMention(f, k) = 0 /\ IsDrop(f, k) = 0 /\ IsDrop(e, k) = 0 /\ Same(k, 0) = 0
        /\ IsMention(e, k) = Same(k, ptr) /\ Same(k, ptr) \in Nat
        /\ IsRun(e, k) = IsRun(f, k) /\ IsRun(f, k) \in Nat
    BY <1>3, <1>8 DEF IsMention, IsDrop, IsRun, Same
  <2>3. /\ IsMention(e, k) + Same(k, 0) = IsMention(f, k) + IsMention(g, k) + Same(k, i)
        /\ IsRun(e, k) = IsRun(f, k) + IsRun(g, k)
        /\ IsDrop(e, k) = IsDrop(f, k) + IsDrop(g, k)
    BY ONLY <2>1, <2>2
  <2> QED BY <1>2, <2>3 DEF Even
<1>19. FrameOK(p, f)' /\ Busy(f)'
  <2>1. f.id \in 0 .. Len(task')
    BY <1>3, <1>4, <1>8, <1>15
  <2>2. task'[f.id].kind # "pin" /\ task'[f.id].holds
    BY <1>3, <1>5, <1>8, <1>14, <1>15
  <2> QED BY <1>8, <2>1, <2>2 DEF FrameOK, Busy, InTask, LoopLabels, Bodies
<1>20. g # Nil => FrameOK(p, g)' /\ Busy(g)'
  <2>1. ptr <= Len(task') /\ Len(task') \in Nat
    BY <1>4, <1>5, <1>15
  <2>2. task'[ptr].kind = kind
    BY <1>5, <1>9, <1>16 DEF Onward
  <2>3. kind # "unique"
    BY <1>9
  <2> QED BY <1>5, <1>11, <1>12, <2>1, <2>2, <2>3, SentFrame
<1>21. Shape' /\ FramesOK' /\ TasksOK' /\ Lives' /\ Refs'
  BY <1>1, <1>12, <1>15, <1>16, <1>18, <1>19, <1>20, Passes
<1>22. Pins'
  <2>1. /\ Top(p).at \notin {"pin", "gather"} /\ f.at \notin {"pin", "gather"} /\ g.at \notin {"pin", "gather"}
    BY <1>1, <1>8, <1>17
  <2>2. \A k \in PinTasks : Gone(k)' <=> Gone(k)
    BY <1>1 DEF Gone
  <2>3. \A k \in DOMAIN task : task'[k].kind = task[k].kind /\ (task[k].kind = "pin" => task'[k].from = task[k].from)
    BY <1>2, <1>3, <1>14, <1>15
  <2>4. DOMAIN task \subseteq DOMAIN task' /\ \A k \in DOMAIN task' : k \in DOMAIN task \/ task'[k].kind # "pin"
    BY <1>15
  <2> QED BY <1>1, <1>12, <2>1, <2>2, <2>3, <2>4, WorkPins
<1>23. Bounds'
  <2>1. done' \in BOOLEAN /\ cpus' \in [Pool -> SUBSET (0 .. N - 1)]
    BY <1>1, <1>4 DEF Bounds
  <2> QED BY <1>12, <2>1, BoundsStay
<1> QED BY <1>21, <1>22, <1>23 DEF IInv

-----------------------------------------------------------------------------
(* Steps at the end of a task.                                             *)

LEMMA LifeGoesOn ==
  ASSUME NEW k, LifeAt(k), Mentioned(k)' = Mentioned(k), Ran(k)' = Ran(k),
         k \in DOMAIN task, k \in DOMAIN task', Gone(k)' <=> Gone(k), task'[k] = task[k]
  PROVE  LifeAt(k)'
BY DEF LifeAt, Life, IsLoop, Proxy, Waiting

\* A thread goes on as f, or leaves: what is left to show is that the task it
\* runs is where it should be, and what the nodes count.
LEMMA Settles ==
  ASSUME IInv, NEW p \in Procs, stack[p] # <<>>, NEW f, Moved(p, f, Nil), QueueStep(0, 0),
         NEW id, id = Top(p).id, id \in DOMAIN task,
         f.at \notin {"enter", "self"}, Top(p).at # "self", f = Nil \/ f.id = id,
         plan' = plan, done' \in BOOLEAN, cpus' \in [Pool -> SUBSET (0 .. N - 1)],
         task' \in Seq(TaskSet), Len(task') = Len(task),
         \A k \in DOMAIN task : task'[k].kind = task[k].kind /\ TaskOK(task[k])' /\ (k # id => task'[k] = task[k]),
         Quiet(id) \/ Top(p).at # "enter",
         node' \in Seq(NodeSet), Len(node') = Len(node),
             \A k \in DOMAIN task : node'[k].parent = node[k].parent,
         deleted' \subseteq DOMAIN task, \A k \in DOMAIN task : k # id => (Gone(k)' <=> Gone(k)),
         \A k \in DOMAIN task : task[k].kind = "pin" \/ (IsLoop(k) /\ Gone(k)') => node'[k].count = 0,
         f # Nil => FrameOK(p, f)' /\ Busy(f)', Life(id)'
  PROVE  /\ Shape' /\ FramesOK' /\ TasksOK' /\ Lives' /\ Bounds'
<1>1. Shape /\ FramesOK /\ TasksOK /\ Lives
  BY DEF IInv
<1>2. DOMAIN task' = DOMAIN task /\ DOMAIN node' = DOMAIN node /\ DOMAIN node = DOMAIN task
      /\ DOMAIN task \subseteq Nat \ {0} /\ DOMAIN task = 1 .. Len(task) /\ Len(task) \in Nat
  BY <1>1, LenProperties DEF Shape
<1>3. Shape'
  <2>1. stack' \in [Procs -> Seq(FrameSet)]
    BY DEF Moved
  <2>2. local' \in [Pool -> Seq(Nat \ {0})] /\ mail' \in [Pool -> Seq(Nat \ {0})]
    BY DEF QueueStep
  <2> QED BY <1>1, <1>2, <2>1, <2>2 DEF Shape
<1>4. FramesOK'
  <2>1. \A k \in DOMAIN task : task'[k].kind = task[k].kind /\ (Quiet(k) \/ (k = Top(p).id /\ Top(p).at # "enter"))
    BY DEF Quiet
  <2>2. Len(task') >= Len(task)
    BY <1>2
  <2>3. Nil # Nil => FrameOK(p, Nil)' /\ Busy(Nil)'
    OBVIOUS
  <2>4. PICK g : g = Nil
    OBVIOUS
  <2>5. Moved(p, f, g) /\ (g # Nil => FrameOK(p, g)' /\ Busy(g)')
    BY <2>4
  <2> QED BY <1>1, <2>1, <2>2, <2>5, FramesStay
<1>5. TasksOK'
  <2>1. ASSUME NEW k \in DOMAIN task'
        PROVE  /\ TaskOK(task[k])'
               /\ node'[k].parent < k /\ (node'[k].parent = NoTask <=> Rootless(k)')
               /\ task'[k].kind = "pin" \/ (IsLoop(k)' /\ Gone(k)') => node'[k].count = 0
    <3>1. k \in DOMAIN task /\ task'[k].kind = task[k].kind
      BY <1>2
    <3>2. node[k].parent < k /\ (node[k].parent = NoTask <=> Rootless(k))
      BY <1>1, <3>1 DEF TasksOK
    <3> QED BY <3>1, <3>2 DEF Rootless, IsLoop
  <2> QED BY <2>1 DEF TasksOK
<1>6. ASSUME NEW k \in Nat \ {0}, k # id
      PROVE  /\ Mentioned(k)' = Mentioned(k) /\ Ran(k)' = Ran(k)
             /\ k \notin DOMAIN task => Dropped(k)' = Dropped(k)
  <2>1. /\ Mentioned(k) \in Nat /\ Mentioned(k)' \in Nat
        /\ Ran(k) \in Nat /\ Ran(k)' \in Nat /\ Dropped(k) \in Nat /\ Dropped(k)' \in Nat
        /\ Mentioned(k)' + IsMention(Top(p), k) + Same(k, 0)
             = Mentioned(k) + IsMention(f, k) + IsMention(Nil, k) + Same(k, 0)
        /\ Ran(k)' + IsRun(Top(p), k) = Ran(k) + IsRun(f, k) + IsRun(Nil, k)
        /\ Dropped(k)' + IsDrop(Top(p), k) = Dropped(k) + IsDrop(f, k) + IsDrop(Nil, k)
    <3>1. PICK g, zero : g = Nil /\ zero = 0
      OBVIOUS
    <3>2. Moved(p, f, g) /\ QueueStep(zero, zero)
      BY <3>1
    <3>3. /\ Mentioned(k) \in Nat /\ Mentioned(k)' \in Nat
          /\ Ran(k) \in Nat /\ Ran(k)' \in Nat /\ Dropped(k) \in Nat /\ Dropped(k)' \in Nat
          /\ Mentioned(k)' + IsMention(Top(p), k) + Same(k, zero)
               = Mentioned(k) + IsMention(f, k) + IsMention(g, k) + Same(k, zero)
          /\ Ran(k)' + IsRun(Top(p), k) = Ran(k) + IsRun(f, k) + IsRun(g, k)
          /\ Dropped(k)' + IsDrop(Top(p), k) = Dropped(k) + IsDrop(f, k) + IsDrop(g, k)
      BY <1>1, <3>2, Deltas
    <3> QED BY <3>1, <3>3, Zenon
  <2>2. /\ IsMention(Top(p), k) = 0 /\ IsMention(f, k) = 0 /\ IsMention(Nil, k) = 0 /\ Same(k, 0) = 0
        /\ IsRun(Top(p), k) = 0 /\ IsRun(f, k) = 0 /\ IsRun(Nil, k) = 0 /\ IsDrop(Nil, k) = 0
    BY <1>6 DEF IsMention, IsRun, IsDrop, Same, Nil, NoTask
  <2>3. k \notin DOMAIN task => IsDrop(Top(p), k) = 0 /\ IsDrop(f, k) = 0
    <3>1. FrameOK(p, Top(p))
      BY TopFacts
    <3>2. Top(p).at = "release" => Top(p).ptr \in DOMAIN task
      BY <3>1 DEF FrameOK
    <3>3. f.at = "release" => f.ptr \in DOMAIN task
      <4>1. CASE f = Nil
        BY <4>1 DEF Nil
      <4>2. CASE f # Nil
        BY <1>2, <4>2 DEF FrameOK
      <4> QED BY <4>1, <4>2
    <3> QED BY <3>2, <3>3 DEF IsDrop
  <2> QED BY <2>1, <2>2, <2>3
<1>7. Lives'
  <2>1. ASSUME NEW k \in Nat \ {0} PROVE LifeAt(k)'
    <3>1. LifeAt(k)
      BY <1>1 DEF Lives
    <3>2. CASE k = id
      BY <1>2, <3>2 DEF LifeAt
    <3>3. CASE k # id /\ k \in DOMAIN task
      <4>1. k \in DOMAIN task' /\ (Gone(k)' <=> Gone(k)) /\ task'[k] = task[k]
        BY <1>2, <3>3
      <4> QED BY <1>6, <3>1, <3>3, <4>1, LifeGoesOn
    <3>4. CASE k # id /\ k \notin DOMAIN task
      BY <1>2, <1>6, <3>1, <3>4 DEF LifeAt, Unborn
    <3> QED BY <3>2, <3>3, <3>4
  <2> QED BY <2>1 DEF Lives
<1>8. Bounds'
  BY BoundsStay
<1> QED BY <1>3, <1>4, <1>5, <1>7, <1>8

\* What becomes of the task of that thread, and of the nodes being released.
LEMMA SettledCounts ==
  ASSUME Shape, NEW p \in Procs, stack[p] # <<>>, NEW f, Moved(p, f, Nil), QueueStep(0, 0),
         NEW k \in Nat \ {0}
  PROVE  /\ Mentioned(k) \in Nat /\ Mentioned(k)' \in Nat
         /\ Ran(k) \in Nat /\ Ran(k)' \in Nat /\ Dropped(k) \in Nat /\ Dropped(k)' \in Nat
         /\ Mentioned(k)' + IsMention(Top(p), k) = Mentioned(k) + IsMention(f, k)
         /\ Ran(k)' + IsRun(Top(p), k) = Ran(k) + IsRun(f, k)
         /\ Dropped(k)' + IsDrop(Top(p), k) = Dropped(k) + IsDrop(f, k)
<1>1. /\ Mentioned(k) \in Nat /\ Mentioned(k)' \in Nat
      /\ Ran(k) \in Nat /\ Ran(k)' \in Nat /\ Dropped(k) \in Nat /\ Dropped(k)' \in Nat
      /\ Mentioned(k)' + IsMention(Top(p), k) + Same(k, 0)
             = Mentioned(k) + IsMention(f, k) + IsMention(Nil, k) + Same(k, 0)
      /\ Ran(k)' + IsRun(Top(p), k) = Ran(k) + IsRun(f, k) + IsRun(Nil, k)
      /\ Dropped(k)' + IsDrop(Top(p), k) = Dropped(k) + IsDrop(f, k) + IsDrop(Nil, k)
  BY Deltas
<1>2. IsMention(Nil, k) = 0 /\ IsRun(Nil, k) = 0 /\ IsDrop(Nil, k) = 0 /\ Same(k, 0) = 0
  BY DEF IsMention, IsRun, IsDrop, Same, Nil, NoTask
<1>3. /\ IsMention(f, k) \in Nat /\ IsRun(f, k) \in Nat /\ IsDrop(f, k) \in Nat
      /\ IsMention(Top(p), k) \in Nat /\ IsRun(Top(p), k) \in Nat /\ IsDrop(Top(p), k) \in Nat
  BY DEF IsMention, IsRun, IsDrop
<1> QED BY ONLY <1>1, <1>2, <1>3

\* The pins, in such a step of a task that is not one of theirs.
LEMMA SettledPins ==
  ASSUME IInv, NEW p \in Procs, stack[p] # <<>>, NEW f, Moved(p, f, Nil),
         Top(p).at \notin {"pin", "gather"}, f.at \notin {"pin", "gather"}, barrier' = barrier,
         NEW id, id = Top(p).id, id \in DOMAIN task, task[id].kind # "pin",
         task' \in Seq(TaskSet), Len(task') = Len(task),
         \A k \in DOMAIN task : task'[k].kind = task[k].kind /\ (k # id => task'[k] = task[k]),
         \A k \in DOMAIN task : k # id => (Gone(k)' <=> Gone(k))
  PROVE  Pins'
<1>1. DOMAIN task' = DOMAIN task
  BY LenProperties DEF IInv, Shape
<1>2. PICK g : g = Nil
  OBVIOUS
<1>3. g.at \notin {"pin", "gather"} /\ Moved(p, f, g)
  BY <1>2 DEF Nil
<1>4. \A k \in PinTasks : Gone(k)' <=> Gone(k)
  BY DEF PinTasks
<1>5. \A k \in DOMAIN task : task'[k].kind = task[k].kind /\ (task[k].kind = "pin" => task'[k].from = task[k].from)
  OBVIOUS
<1>6. DOMAIN task \subseteq DOMAIN task' /\ \A k \in DOMAIN task' : k \in DOMAIN task \/ task'[k].kind # "pin"
  BY <1>1
<1> QED BY <1>3, <1>4, <1>5, <1>6, WorkPins

\* The task of a running frame, as it was and as Retasked leaves it.
LEMMA TopTask ==
  ASSUME IInv, NEW p \in Procs, stack[p] # <<>>, NEW id, id = Top(p).id, id # 0
  PROVE  /\ Shape /\ TasksOK /\ Lives /\ Refs /\ Bounds
         /\ id \in Nat \ {0} /\ id \in DOMAIN task /\ ~Gone(id) /\ task[id] \in TaskSet /\ TaskOK(task[id]) /\ Life(id)
         /\ DOMAIN node = DOMAIN task /\ DOMAIN task = 1 .. Len(task) /\ Len(task) \in Nat
         /\ QueueStep(0, 0) \/ queues' # queues
<1>1. Shape /\ TasksOK /\ Lives /\ Refs /\ Bounds
  BY DEF IInv
<1>2. id \in Nat \ {0} /\ id \in DOMAIN task /\ ~Gone(id) /\ task[id] \in TaskSet /\ TaskOK(task[id])
  BY TopFacts
<1>3. Life(id)
  BY <1>1, <1>2 DEF Lives, LifeAt
<1>4. DOMAIN node = DOMAIN task /\ DOMAIN task = 1 .. Len(task) /\ Len(task) \in Nat
  BY <1>1, LenProperties DEF Shape
<1>5. QueueStep(0, 0) \/ queues' # queues
  BY <1>1, QueuesStay
<1> QED BY <1>1, <1>2, <1>3, <1>4, <1>5

LEMMA RestKeeps ==
  ASSUME IInv, NEW p \in Procs, Rest(p), UNCHANGED <<cpus, barrier, plan>>
  PROVE  IInv'
<1>1. stack[p] # <<>> /\ Top(p).at = "rest" /\ Top(p).at \in InTask
  BY DEF Rest, At, InTask
<1>2. PICK e, id, t : e = Top(p) /\ id = Top(p).id /\ t = task[Top(p).id]
  OBVIOUS
<1>3. /\ e \in TaskFrames /\ FrameOK(p, e) /\ Busy(e) /\ e.id = id /\ e.at = "rest" /\ id \in Nat \ {0} /\ id \in DOMAIN task
      /\ t \in TaskSet /\ TaskOK(t) /\ t.kind # "pin" /\ Ran(id) = 1 /\ ~Gone(id)
  BY <1>1, <1>2, TaskTop
<1>4. t.holds
  BY <1>2, <1>3 DEF Busy, InTask
<1>5. CASE t.from # t.to
  <2>1. Execute(p, "rest", "rest_body") /\ At(p, "rest")
    BY <1>2, <1>5 DEF Rest, Execute, Finish
  <2> QED BY <1>2, <1>5, <2>1, RestExecutes
<1>6. CASE t.from = t.to
  <2>1. PICK u, f : u = [t EXCEPT !.holds = FALSE] /\ f = [TaskFrame(id, "release") EXCEPT !.ptr = id]
    OBVIOUS
  <2>2. /\ task' = Replace(task, id, u) /\ UNCHANGED <<queues, node, deleted, done, plan, cpus, barrier>>
    BY <1>2, <1>6, <2>1 DEF Rest
  <2>3. Becomes(p, f, <<>>)
    BY <1>2, <1>6, <2>1 DEF Rest, Becomes
  <2>4. f \in FrameSet /\ f.at = "release" /\ f.id = id /\ f.ptr = id
    <3>1. f = [at |-> "release", id |-> id, todo |-> <<>>, ptr |-> id]
      BY <2>1 DEF TaskFrame
    <3>2. <<>> \in Seq(PartSet) /\ "release" \in TaskLabels
      BY EmptySeq DEF TaskLabels, InTask
    <3> QED BY <1>3, <3>1, <3>2 DEF FrameSet, TaskFrames
  <2>5. /\ Shape /\ TasksOK /\ Refs /\ Bounds /\ Life(id) /\ QueueStep(0, 0)
        /\ DOMAIN node = DOMAIN task /\ DOMAIN task = 1 .. Len(task) /\ Len(task) \in Nat
    BY <1>1, <1>2, <1>3, <2>2, TopTask
  <2>6. Moved(p, f, Nil)
    BY <1>1, <2>3, <2>4, <2>5, BecomesMoves
  <2>7. /\ u \in TaskSet /\ TaskOK(u) /\ u.kind = t.kind /\ u.state = t.state /\ ~u.holds
    <3>1. u \in TaskSet
      BY <1>3, <2>1 DEF TaskSet
    <3>2. TaskOK(u) /\ u.kind = t.kind /\ u.state = t.state
      BY <1>3, <2>1 DEF TaskSet, TaskOK
    <3>3. u.holds = FALSE
      BY <1>3, <2>1 DEF TaskSet
    <3> QED BY <3>1, <3>2, <3>3
  <2>8. /\ task' \in Seq(TaskSet) /\ Len(task') = Len(task) /\ DOMAIN task' = DOMAIN task
        /\ task'[id] = u /\ \A k \in DOMAIN task : k # id => task'[k] = task[k]
    BY <1>3, <2>2, <2>5, <2>7, Retasked
  <2>9. ASSUME NEW k \in DOMAIN task
        PROVE  /\ task'[k].kind = task[k].kind /\ TaskOK(task[k])' /\ (k # id => task'[k] = task[k])
               /\ Gone(k)' <=> Gone(k)
    <3>1. Gone(k)' <=> Gone(k)
      BY <2>2 DEF Gone
    <3>2. CASE k = id
      BY <1>2, <2>7, <2>8, <3>1, <3>2 DEF TaskOK
    <3>3. CASE k # id
      BY <2>5, <2>8, <3>1, <3>3 DEF TasksOK, TaskOK
    <3> QED BY <3>2, <3>3
  <2>10. ASSUME NEW k \in Nat \ {0}
         PROVE  /\ Mentioned(k)' = Mentioned(k) /\ Ran(k)' = Ran(k) /\ Dropped(k) \in Nat
                /\ Dropped(k)' = Dropped(k) + Same(k, id) /\ Mentioned(k) \in Nat
    <3>1. /\ Mentioned(k) \in Nat /\ Mentioned(k)' \in Nat
          /\ Ran(k) \in Nat /\ Ran(k)' \in Nat /\ Dropped(k) \in Nat /\ Dropped(k)' \in Nat
          /\ Mentioned(k)' + IsMention(e, k) = Mentioned(k) + IsMention(f, k)
          /\ Ran(k)' + IsRun(e, k) = Ran(k) + IsRun(f, k)
          /\ Dropped(k)' + IsDrop(e, k) = Dropped(k) + IsDrop(f, k)
      BY <1>1, <1>2, <2>5, <2>6, SettledCounts
    <3>2. /\ IsMention(e, k) = 0 /\ IsMention(f, k) = 0 /\ IsRun(e, k) = IsRun(f, k) /\ IsRun(e, k) \in Nat
          /\ IsDrop(e, k) = 0 /\ IsDrop(f, k) = Same(k, id) /\ Same(k, id) \in Nat
      BY <1>3, <2>4 DEF IsMention, IsRun, IsDrop, Same
    <3>3. Mentioned(k)' = Mentioned(k)
      BY ONLY <3>1, <3>2
    <3>4. Ran(k)' = Ran(k)
      <4>1. Ran(k)' + IsRun(e, k) = Ran(k) + IsRun(e, k) /\ IsRun(e, k) \in Nat /\ Ran(k)' \in Nat /\ Ran(k) \in Nat
        BY <3>1, <3>2
      <4> QED BY ONLY <4>1
    <3>5. Dropped(k)' = Dropped(k) + Same(k, id)
      BY ONLY <3>1, <3>2
    <3> QED BY <3>1, <3>3, <3>4, <3>5
  <2>11. Life(id)'
    <3>1. /\ Mentioned(id)' = Mentioned(id) /\ Ran(id)' = Ran(id) /\ (Gone(id)' <=> Gone(id))
          /\ task'[id].kind = task[id].kind /\ task'[id].state = task[id].state /\ Mentioned(id) \in Nat
      <4>1. /\ Mentioned(id)' = Mentioned(id) /\ Ran(id)' = Ran(id) /\ Mentioned(id) \in Nat
        BY <1>3, <2>10
      <4>2. Gone(id)' <=> Gone(id)
        BY <1>3, <2>9
      <4>3. task'[id].kind = task[id].kind /\ task'[id].state = task[id].state
        BY <1>2, <2>7, <2>8
      <4> QED BY <4>1, <4>2, <4>3
    <3>2. ~Waiting(id)'
      <4>1. CASE t.kind = "unique"
        <5>1. Mentioned(id) + Ran(id) = 1
          BY <1>2, <1>3, <2>5, <4>1 DEF Life
        <5>2. Mentioned(id)' = 0
          BY <1>3, <3>1, <5>1
        <5> QED BY <1>2, <3>1, <4>1, <5>2 DEF Waiting
      <4>2. CASE t.kind = "proxy"
        <5>1. Proxy(task[id].state, Mentioned(id), Ran(id), Gone(id))
          BY <1>2, <2>5, <4>2 DEF Life
        <5>2. task[id].state # 0
          BY <1>3, <5>1 DEF Proxy
        <5> QED BY <1>2, <3>1, <4>2, <5>2 DEF Waiting
      <4>3. CASE t.kind \notin {"unique", "proxy"}
        BY <1>2, <3>1, <4>3 DEF Waiting
      <4> QED BY <4>1, <4>2, <4>3
    <3> QED BY <2>5, <3>1, <3>2 DEF Life, IsLoop, Proxy
  <2>12. FrameOK(p, f)' /\ Busy(f)'
    <3>1. f.id \in 0 .. Len(task') /\ f.ptr \in DOMAIN task' /\ task'[f.id].kind # "pin"
      BY <1>2, <1>3, <2>4, <2>5, <2>7, <2>8
    <3> QED BY <2>4, <3>1 DEF FrameOK, Busy, InTask, LoopLabels, Bodies
  <2>13. Shape' /\ FramesOK' /\ TasksOK' /\ Lives' /\ Bounds'
    <3>1. /\ f.at \notin {"enter", "self"} /\ Top(p).at # "self" /\ Top(p).at # "enter"
          /\ plan' = plan /\ done' \in BOOLEAN /\ cpus' \in [Pool -> SUBSET (0 .. N - 1)]
          /\ deleted' \subseteq DOMAIN task
      BY <1>1, <2>2, <2>4, <2>5 DEF Bounds, Shape
    <3>2. /\ node' \in Seq(NodeSet) /\ Len(node') = Len(node)
          /\ \A k \in DOMAIN task : node'[k].parent = node[k].parent
      BY <2>2, <2>5 DEF Shape
    <3>3. \A k \in DOMAIN task : task[k].kind = "pin" \/ (IsLoop(k) /\ Gone(k)') => node'[k].count = 0
      BY <2>2, <2>5, <2>9 DEF TasksOK
    <3> QED BY <1>1, <1>2, <1>3, <2>4, <2>5, <2>6, <2>8, <2>9, <2>11, <2>12, <3>1, <3>2, <3>3, Settles
  <2>14. Refs'
    <3>1. ASSUME NEW n \in DOMAIN node PROVE RefsAt(n)'
      <4>1. RefsAt(n) /\ n \in Nat \ {0} /\ n \in DOMAIN task
        BY <2>5 DEF Refs
      <4>2. Dropped(n)' = Dropped(n) + Same(n, id) /\ Dropped(n) \in Nat
        BY <2>10, <4>1
      <4>3. /\ Children(n)' = Children(n) /\ node'[n].count = node[n].count
            /\ Cardinality(Children(n)) \in Nat
        BY <2>2, <2>5, ChildrenFinite DEF Children
      <4>4. Owned(n)' = Owned(n) /\ Owned(n) \in Nat
        BY <2>9, <4>1 DEF Owned, IsLoop
      <4>5. CASE n = id
        <5>1. Held(n) = 1 /\ Held(n)' = 0 /\ Same(n, id) = 1
          BY <1>2, <1>4, <2>7, <2>8, <4>5 DEF Held, Same
        <5>2. node[n].count = Cardinality(Children(n)) + Dropped(n) + Held(n) + Owned(n)
          BY <4>1 DEF RefsAt
        <5>3. node'[n].count = Cardinality(Children(n)') + Dropped(n)' + Held(n)' + Owned(n)'
          BY <4>2, <4>3, <4>4, <5>1, <5>2
        <5> QED BY <5>3 DEF RefsAt
      <4>6. CASE n # id
        <5>1. Dropped(n)' = Dropped(n)
          BY <4>2, <4>6 DEF Same
        <5>2. Held(n)' = Held(n)
          BY <2>8, <4>1, <4>6 DEF Held
        <5> QED BY <4>1, <4>3, <4>4, <5>1, <5>2, RefsStay
      <4> QED BY <4>5, <4>6
    <3> QED BY <2>2, <3>1 DEF Refs
  <2>15. Pins'
    <3>1. Top(p).at \notin {"pin", "gather"} /\ f.at \notin {"pin", "gather"} /\ barrier' = barrier /\ task[id].kind # "pin"
      BY <1>1, <1>2, <1>3, <2>2, <2>4
    <3> QED BY <1>1, <1>2, <1>3, <2>6, <2>8, <2>9, <3>1, SettledPins
  <2> QED BY <2>13, <2>14, <2>15 DEF IInv
<1> QED BY <1>5, <1>6

\* Someone comes to a proxy, or its function is over.
LEMMA ProxyMoves ==
  ASSUME IInv, NEW p \in Procs, stack[p] # <<>>, Top(p).at \in {"enter", "leave"}, NEW id, id = Top(p).id,
         NEW f, Moved(p, f, Nil), f = Nil \/ (f.at = "share" /\ f.id = id),
         f # Nil <=> (Top(p).at = "enter" /\ task[id].state = 0),
         NEW u \in TaskSet, task' = Replace(task, id, u), u.kind = task[id].kind,
             u.state = task[id].state + 1,
         u.holds = task[id].holds, u.from = task[id].from, u.to = task[id].to, TaskOK(u),
         deleted' = deleted \cup (IF task[id].state = 2 THEN {id} ELSE {}),
         UNCHANGED <<queues, node, done, cpus, barrier, plan>>
  PROVE  IInv'
<1>1. PICK e, t : e = Top(p) /\ t = task[id]
  OBVIOUS
<1>2. e \in FrameSet /\ FrameOK(p, e) /\ e.id = id /\ e.at \in {"enter", "leave"}
  BY <1>1, TopFacts
<1>3. id \in Nat \ {0} /\ t.kind = "proxy"
  <2>1. t.kind = "proxy"
    BY <1>1, <1>2 DEF FrameOK
  <2>2. e \in TaskFrames
    BY <1>2, FrameKinds
  <2> QED BY <1>2, <2>1, <2>2 DEF TaskFrames
<1>4. /\ Shape /\ TasksOK /\ Lives /\ Refs /\ Bounds /\ Life(id) /\ QueueStep(0, 0)
      /\ id \in DOMAIN task /\ ~Gone(id) /\ t \in TaskSet
      /\ DOMAIN node = DOMAIN task /\ DOMAIN task = 1 .. Len(task) /\ Len(task) \in Nat
  BY <1>1, <1>3, TopTask
<1>5. /\ task' \in Seq(TaskSet) /\ Len(task') = Len(task) /\ DOMAIN task' = DOMAIN task
      /\ task'[id] = u /\ \A k \in DOMAIN task : k # id => task'[k] = task[k]
  BY <1>4, Retasked
<1>6. \A k \in DOMAIN task : k # id => (Gone(k)' <=> Gone(k))
  BY DEF Gone
<1>7. Gone(id)' <=> t.state = 2
  BY <1>1, <1>4 DEF Gone
<1>8. ASSUME NEW k \in DOMAIN task
      PROVE  task'[k].kind = task[k].kind /\ TaskOK(task[k])' /\ (k # id => task'[k] = task[k])
  <2>1. CASE k = id
    BY <1>5, <2>1 DEF TaskOK
  <2>2. CASE k # id
    BY <1>4, <1>5, <2>2 DEF TasksOK, TaskOK
  <2> QED BY <2>1, <2>2
<1>9. Proxy(t.state, Mentioned(id), Ran(id), Gone(id)) /\ (Waiting(id) => t.holds)
  BY <1>1, <1>3, <1>4 DEF Life
<1>10. /\ Mentioned(id) \in Nat /\ Mentioned(id)' \in Nat /\ Ran(id) \in Nat /\ Ran(id)' \in Nat
       /\ Mentioned(id)' + IsMention(e, id) = Mentioned(id) + IsMention(f, id)
       /\ Ran(id)' + IsRun(e, id) = Ran(id) + IsRun(f, id)
  BY <1>1, <1>3, <1>4, SettledCounts
<1>11. IsMention(f, id) = 0 /\ IsRun(f, id) = (IF f = Nil THEN 0 ELSE 1)
  <2>1. CASE f = Nil
    BY <1>3, <2>1 DEF Nil, NoTask, IsMention, IsRun
  <2>2. CASE f # Nil
    BY <2>2 DEF IsMention, IsRun
  <2> QED BY <2>1, <2>2
<1>12. Proxy(u.state, Mentioned(id)', Ran(id)', Gone(id)') /\ u.state # 0
  <2>1. PICK m, r, mm, rr : m = Mentioned(id) /\ r = Ran(id) /\ mm = Mentioned(id)' /\ rr = Ran(id)'
    OBVIOUS
  <2>2. m \in Nat /\ r \in Nat /\ mm \in Nat /\ rr \in Nat
    BY <1>10, <2>1
  <2>3. \/ t.state = 0 /\ r = 0 /\ m = 2
        \/ t.state = 1 /\ r = 1 /\ m = 1
        \/ t.state = 2 /\ r = 1 /\ m = 0
        \/ t.state = 2 /\ r = 0 /\ m = 1
        \/ t.state = 3 /\ r = 0 /\ m = 0
    BY <1>9, <2>1 DEF Proxy
  <2>4. CASE e.at = "enter"
    <3>1. IsMention(e, id) = 1 /\ IsRun(e, id) = 0
      BY <1>2, <2>4 DEF IsMention, IsRun
    <3>2. mm + 1 = m
      BY <1>10, <1>11, <2>1, <3>1
    <3>3. rr = r + (IF t.state = 0 THEN 1 ELSE 0)
      <4>1. (f = Nil) <=> (t.state # 0)
        BY <1>1, <2>4
      <4> QED BY <1>10, <1>11, <2>1, <3>1, <4>1
    <3> QED BY <1>1, <1>7, <2>1, <2>2, <2>3, <3>2, <3>3 DEF Proxy
  <2>5. CASE e.at = "leave"
    <3>1. IsMention(e, id) = 0 /\ IsRun(e, id) = 1
      BY <1>2, <2>5 DEF IsMention, IsRun
    <3>2. mm = m
      BY <1>10, <1>11, <2>1, <3>1
    <3>3. rr + 1 = r
      <4>1. f = Nil
        BY <1>1, <2>5
      <4> QED BY <1>10, <1>11, <2>1, <3>1, <4>1
    <3> QED BY <1>1, <1>7, <2>1, <2>2, <2>3, <3>2, <3>3 DEF Proxy
  <2> QED BY <1>2, <2>4, <2>5
<1>13. Life(id)'
  <2>1. task'[id].kind = "proxy" /\ task'[id].state = u.state
    BY <1>1, <1>3, <1>5
  <2> QED BY <1>12, <2>1 DEF Life, IsLoop, Waiting
<1>14. f # Nil => FrameOK(p, f)' /\ Busy(f)'
  <2>1. ASSUME f # Nil PROVE FrameOK(p, f)' /\ Busy(f)'
    <3>1. f.at = "share" /\ f.id = id /\ t.state = 0
      BY <1>1, <2>1
    <3>2. t.holds
      BY <1>1, <1>3, <1>9, <3>1 DEF Waiting
    <3>3. f.id \in 0 .. Len(task') /\ task'[f.id].kind # "pin" /\ task'[f.id].holds
      <4>1. f.id \in 0 .. Len(task')
        BY <1>3, <1>4, <1>5, <3>1
      <4>2. task'[f.id].kind # "pin"
        BY <1>1, <1>3, <1>5, <3>1
      <4>3. task'[f.id].holds
        BY <1>1, <1>5, <3>1, <3>2
      <4> QED BY <4>1, <4>2, <4>3
    <3> QED BY <3>1, <3>3 DEF FrameOK, Busy, InTask, LoopLabels, Bodies
  <2> QED BY <2>1
<1>15. /\ f.at \notin {"enter", "self", "release", "pin", "gather"} /\ (f = Nil \/ f.id = id)
       /\ Top(p).at \notin {"self", "release", "pin", "gather"}
  BY DEF Nil
<1>16. Shape' /\ FramesOK' /\ TasksOK' /\ Lives' /\ Bounds'
  <2>1. /\ plan' = plan /\ done' \in BOOLEAN /\ cpus' \in [Pool -> SUBSET (0 .. N - 1)]
        /\ deleted' \subseteq DOMAIN task /\ f.at \notin {"enter", "self"} /\ Top(p).at # "self"
    BY <1>4, <1>15 DEF Bounds, Shape
  <2>2. /\ node' \in Seq(NodeSet) /\ Len(node') = Len(node)
        /\ \A k \in DOMAIN task : node'[k].parent = node[k].parent
    BY <1>4 DEF Shape
  <2>3. \A k \in DOMAIN task : task[k].kind = "pin" \/ (IsLoop(k) /\ Gone(k)') => node'[k].count = 0
    <3>1. ~IsLoop(id)
      BY <1>1, <1>3 DEF IsLoop
    <3>2. \A k \in DOMAIN task : k # id => (task[k].kind = "pin" \/ (IsLoop(k) /\ Gone(k)') => node'[k].count = 0)
      <4>1. ASSUME NEW k \in DOMAIN task, k # id, task[k].kind = "pin" \/ (IsLoop(k) /\ Gone(k)')
            PROVE  node'[k].count = 0
        <5>1. task[k].kind = "pin" \/ (IsLoop(k) /\ Gone(k))
          BY <1>6, <4>1
        <5>2. node[k].count = 0
          BY <1>4, <5>1 DEF TasksOK
        <5> QED BY <5>2
      <4> QED BY <4>1
    <3> QED BY <1>1, <1>3, <3>1, <3>2
  <2>4. Quiet(id)
    BY <1>5 DEF Quiet
  <2> QED BY <1>4, <1>5, <1>6, <1>8, <1>13, <1>14, <1>15, <2>1, <2>2, <2>3, <2>4, Settles
<1>17. Refs'
  <2>1. ASSUME NEW n \in DOMAIN node PROVE RefsAt(n)'
    <3>1. RefsAt(n) /\ n \in Nat \ {0} /\ n \in DOMAIN task
      BY <1>4 DEF Refs
    <3>2. Dropped(n)' = Dropped(n)
      <4>1. /\ Dropped(n) \in Nat /\ Dropped(n)' \in Nat
            /\ Dropped(n)' + IsDrop(Top(p), n) = Dropped(n) + IsDrop(f, n)
        BY <1>4, <3>1, SettledCounts
      <4>2. IsDrop(Top(p), n) = 0 /\ IsDrop(f, n) = 0
        BY <1>15 DEF IsDrop
      <4> QED BY <4>1, <4>2
    <3>3. Children(n)' = Children(n) /\ node'[n].count = node[n].count
      BY DEF Children
    <3>4. Held(n)' = Held(n) /\ Owned(n)' = Owned(n)
      <4>1. CASE n = id
        BY <1>1, <1>3, <1>5, <4>1 DEF Held, Owned, IsLoop
      <4>2. CASE n # id
        BY <1>5, <1>6, <3>1, <4>2 DEF Held, Owned, IsLoop
      <4> QED BY <4>1, <4>2
    <3> QED BY <3>1, <3>2, <3>3, <3>4, RefsStay
  <2> QED BY <2>1 DEF Refs
<1>18. Pins'
  <2>1. /\ Top(p).at \notin {"pin", "gather"} /\ f.at \notin {"pin", "gather"} /\ barrier' = barrier /\ task[id].kind # "pin"
    BY <1>1, <1>3, <1>15
  <2> QED BY <1>4, <1>5, <1>6, <1>8, <2>1, SettledPins
<1> QED BY <1>16, <1>17, <1>18 DEF IInv

LEMMA EnterKeeps ==
  ASSUME IInv, NEW p \in Procs, Enter(p), UNCHANGED <<cpus, barrier, plan>>
  PROVE  IInv'
<1>1. stack[p] # <<>> /\ Top(p).at = "enter" /\ Top(p).at \in {"enter", "leave"}
  BY DEF Enter, At
<1>2. PICK id, t : id = Top(p).id /\ t = task[id]
  OBVIOUS
<1>3. id \in Nat \ {0}
  <2>1. Top(p) \in TaskFrames
    BY <1>1, TopFacts, FrameKinds
  <2> QED BY <1>2, <2>1 DEF TaskFrames
<1>4. Shape /\ id \in DOMAIN task /\ t \in TaskSet /\ TaskOK(t)
  BY <1>1, <1>2, <1>3, TopTask
<1>5. PICK u : u = [t EXCEPT !.state = @ + 1]
  OBVIOUS
<1>6. /\ u \in TaskSet /\ u.kind = t.kind /\ u.state = t.state + 1
      /\ u.from = t.from /\ u.to = t.to /\ TaskOK(u)
  BY <1>4, <1>5 DEF TaskSet, TaskOK
<1>7. u.holds = t.holds
  BY <1>4, <1>5, Zenon DEF TaskSet
<1>8. /\ task' = Replace(task, id, u) /\ deleted' = deleted \cup (IF t.state = 2 THEN {id} ELSE {})
      /\ UNCHANGED <<queues, node, done>>
  BY <1>2, <1>5 DEF Enter
<1>9. \E f : /\ Moved(p, f, Nil) /\ (f = Nil \/ (f.at = "share" /\ f.id = id))
             /\ f # Nil <=> (Top(p).at = "enter" /\ t.state = 0)
  <2>1. CASE t.state = 0
    <3>1. PICK at : at = "share"
      OBVIOUS
    <3>2. PICK f : f = TaskFrame(id, at)
      OBVIOUS
    <3>3. at \in TaskLabels
      BY <3>1 DEF TaskLabels, InTask
    <3>4. f \in FrameSet /\ f.at = at /\ f.id = id
      BY <1>3, <3>2, <3>3, TaskFrameIn
    <3>5. Becomes(p, f, <<>>)
      BY <1>2, <2>1, <3>1, <3>2 DEF Enter, Becomes
    <3>6. Moved(p, f, Nil)
      BY <1>1, <1>4, <3>4, <3>5, BecomesMoves
    <3>7. f # Nil
      BY <3>4, NilIsNone
    <3> QED BY <1>1, <2>1, <3>1, <3>4, <3>6, <3>7
  <2>2. CASE t.state # 0
    <3>1. Leaves(p)
      BY <1>2, <2>2 DEF Enter
    <3>2. Moved(p, Nil, Nil)
      BY <1>1, <1>4, <3>1, LeavesMoves
    <3> QED BY <2>2, <3>2
  <2> QED BY <2>1, <2>2
<1>10. PICK f : /\ Moved(p, f, Nil) /\ (f = Nil \/ (f.at = "share" /\ f.id = id))
                /\ f # Nil <=> (Top(p).at = "enter" /\ t.state = 0)
  BY <1>9
<1> QED BY <1>1, <1>2, <1>6, <1>7, <1>8, <1>10, ProxyMoves

LEMMA LeaveKeeps ==
  ASSUME IInv, NEW p \in Procs, Leave(p), UNCHANGED <<cpus, barrier, plan>>
  PROVE  IInv'
<1>1. stack[p] # <<>> /\ Top(p).at = "leave" /\ Top(p).at \in {"enter", "leave"}
  BY DEF Leave, At
<1>2. PICK id, t : id = Top(p).id /\ t = task[id]
  OBVIOUS
<1>3. id \in Nat \ {0}
  <2>1. Top(p) \in TaskFrames
    BY <1>1, TopFacts, FrameKinds
  <2> QED BY <1>2, <2>1 DEF TaskFrames
<1>4. Shape /\ id \in DOMAIN task /\ t \in TaskSet /\ TaskOK(t)
  BY <1>1, <1>2, <1>3, TopTask
<1>5. PICK u, f : u = [t EXCEPT !.state = @ + 1] /\ f = Nil
  OBVIOUS
<1>6. /\ u \in TaskSet /\ u.kind = t.kind /\ u.state = t.state + 1
      /\ u.from = t.from /\ u.to = t.to /\ TaskOK(u)
  BY <1>4, <1>5 DEF TaskSet, TaskOK
<1>7. u.holds = t.holds
  BY <1>4, <1>5, Zenon DEF TaskSet
<1>8. /\ task' = Replace(task, id, u) /\ deleted' = deleted \cup (IF t.state = 2 THEN {id} ELSE {})
      /\ UNCHANGED <<queues, node, done>>
  BY <1>2, <1>5 DEF Leave
<1>9. Moved(p, f, Nil)
  <2>1. Leaves(p)
    BY DEF Leave
  <2>2. Moved(p, Nil, Nil)
    BY <1>1, <1>4, <2>1, LeavesMoves
  <2> QED BY <1>5, <2>2
<1> QED BY <1>1, <1>2, <1>5, <1>6, <1>7, <1>8, <1>9, ProxyMoves

\* A thread leaves a frame that is not about a task.
LEMMA LeavesIdle ==
  ASSUME IInv, NEW p \in Procs, stack[p] # <<>>, Leaves(p), Top(p).id = 0, Top(p).at \in {"main", "steal"},
         done' \in BOOLEAN, UNCHANGED <<queues, objects, cpus, barrier, plan>>
  PROVE  IInv'
<1>1. /\ Shape /\ Bounds /\ TasksOK /\ task' = task /\ node' = node /\ deleted' = deleted
  BY DEF IInv, objects
<1>2. PICK f : f = Nil
  OBVIOUS
<1>3. Moved(p, f, f)
  BY <1>1, <1>2, LeavesMoves
<1>4. QueueStep(0, 0)
  BY <1>1, QueuesStay
<1>5. ASSUME NEW k \in Nat \ {0} PROVE Even(Top(p), f, f, 0, 0, k)
  <2>1. /\ IsMention(Top(p), k) = 0 /\ IsMention(f, k) = 0 /\ IsRun(Top(p), k) = 0 /\ IsRun(f, k) = 0
        /\ IsDrop(Top(p), k) = 0 /\ IsDrop(f, k) = 0 /\ Same(k, 0) = 0
    BY <1>2 DEF Nil, NoTask, IsMention, IsRun, IsDrop, Same
  <2> QED BY <2>1 DEF Even
<1>6. task' \in Seq(TaskSet) /\ Len(task') = Len(task)
  BY <1>1 DEF Shape
<1>7. \A k \in DOMAIN task : Onward(k) /\ (task'[k] = task[k] \/ (k = Top(p).id /\ Top(p).at # "enter"))
  BY <1>1 DEF Onward, TasksOK, TaskOK
<1>8. f # Nil => FrameOK(p, f)' /\ Busy(f)'
  BY <1>2
<1>9. Shape' /\ FramesOK' /\ TasksOK' /\ Lives' /\ Refs'
  BY <1>1, <1>3, <1>4, <1>5, <1>6, <1>7, <1>8, Passes
<1>10. Pins'
  <2>1. Top(p).at \notin {"pin", "gather"} /\ f.at \notin {"pin", "gather"}
    BY <1>2 DEF Nil
  <2>2. \A k \in PinTasks : Gone(k)' <=> Gone(k)
    BY <1>1 DEF Gone
  <2> QED BY <1>1, <1>3, <2>1, <2>2, WorkPins
<1>11. Bounds'
  <2>1. cpus' \in [Pool -> SUBSET (0 .. N - 1)]
    BY <1>1 DEF Bounds
  <2> QED BY <1>4, <2>1, BoundsStay
<1> QED BY <1>9, <1>10, <1>11 DEF IInv

LEMMA ExitKeeps ==
  ASSUME IInv, NEW p \in Procs, Exit(p), UNCHANGED <<cpus, barrier, plan>>
  PROVE  IInv'
<1>1. stack[p] # <<>> /\ Top(p).at = "main" /\ Leaves(p)
  BY DEF Exit, At
<1>2. Top(p).id = 0
  <2>1. Top(p) \in MainFrames
    BY <1>1, TopFacts, FrameKinds
  <2> QED BY <2>1 DEF MainFrames
<1>3. done' \in BOOLEAN
  BY DEF Exit, IInv, Bounds
<1>4. UNCHANGED <<queues, objects>>
  BY DEF Exit
<1> QED BY <1>1, <1>2, <1>3, <1>4, LeavesIdle

LEMMA NothingFoundKeeps ==
  ASSUME IInv, NEW p \in Procs, NothingFound(p), UNCHANGED <<cpus, barrier, plan>>
  PROVE  IInv'
<1>1. /\ stack[p] # <<>> /\ Top(p).at = "steal" /\ Top(p).at \in LoopLabels \ {"join"}
      /\ UNCHANGED <<queues, objects, done>>
  BY DEF NothingFound, At, LoopLabels
<1>2. CASE Top(p).id = NoTask /\ done
  <2>1. Leaves(p) /\ Top(p).id = 0
    BY <1>2 DEF NothingFound, NoTask
  <2>2. done' \in BOOLEAN
    BY <1>1 DEF IInv, Bounds
  <2> QED BY <1>1, <2>1, <2>2, LeavesIdle
<1>3. CASE ~(Top(p).id = NoTask /\ done)
  <2>1. PICK b \in BOOLEAN : b = TRUE
    OBVIOUS
  <2>2. Becomes(p, Again(Top(p), b), <<>>)
    BY <1>3, <2>1 DEF NothingFound, Becomes
  <2> QED BY <1>1, <2>2, NothingFoundGoesOn
<1> QED BY <1>2, <1>3

\* A node's count goes to c.
LEMMA Recounted ==
  ASSUME Shape, NEW n \in DOMAIN task, NEW c \in NodeSet, c.parent = node[n].parent,
         node' = Replace(node, n, c)
  PROVE  /\ node' \in Seq(NodeSet) /\ Len(node') = Len(node) /\ DOMAIN node' = DOMAIN node /\ node'[n].count = c.count
         /\ \A k \in DOMAIN task : node'[k].parent = node[k].parent /\ (k # n => node'[k].count = node[k].count)
         /\ (c.count > 0 <=> node[n].count > 0) => \A k : Children(k)' = Children(k)
         /\ c.count = 0 /\ node[n].count > 0 =>
              \A k : Cardinality(Children(k)') + Same(k, node[n].parent) = Cardinality(Children(k))
<1>1. node \in Seq(NodeSet) /\ DOMAIN node = DOMAIN task
  BY LenProperties DEF Shape
<1>2. /\ node' \in Seq(NodeSet) /\ Len(node') = Len(node) /\ node'[n] = c
      /\ \A k \in DOMAIN node : k # n => node'[k] = node[k]
  BY <1>1, ExceptSeq DEF Replace
<1>3. DOMAIN node' = DOMAIN node
  BY <1>1, <1>2, LenProperties
<1>4. \A k \in DOMAIN node : node'[k].parent = node[k].parent
  BY <1>1, <1>2
<1>5. ASSUME c.count > 0 <=> node[n].count > 0, NEW k PROVE Children(k)' = Children(k)
  <2>1. \A i \in DOMAIN node : node'[i].count > 0 <=> node[i].count > 0
    BY <1>1, <1>2, <1>5
  <2> QED BY <1>3, <1>4, <2>1 DEF Children
<1>6. ASSUME c.count = 0, node[n].count > 0, NEW k
      PROVE  Cardinality(Children(k)') + Same(k, node[n].parent) = Cardinality(Children(k))
  <2>1. IsFiniteSet(Children(k)) /\ Cardinality(Children(k)) \in Nat
    BY ChildrenFinite
  <2>2. Children(k)' = Children(k) \ {n}
    BY <1>1, <1>2, <1>3, <1>4, <1>6 DEF Children
  <2>3. n \in Children(k) <=> k = node[n].parent
    BY <1>1, <1>6 DEF Children
  <2>4. CASE k = node[n].parent
    <3>1. Cardinality(Children(k)') = Cardinality(Children(k)) - 1
      <4>1. PICK C, D : C = Children(k) /\ D = Children(k)'
        OBVIOUS
      <4>2. IsFiniteSet(C) /\ n \in C /\ D = C \ {n}
        BY <2>1, <2>2, <2>3, <2>4, <4>1
      <4>3. Cardinality(D) = Cardinality(C) - 1
        BY ONLY <4>2, FS_RemoveElement
      <4> QED BY ONLY <4>1, <4>3
    <3>2. Same(k, node[n].parent) = 1
      BY <2>4 DEF Same
    <3> QED BY <2>1, <3>1, <3>2
  <2>5. CASE k # node[n].parent
    <3>1. Children(k)' = Children(k)
      BY <2>2, <2>3, <2>5
    <3>2. Same(k, node[n].parent) = 0
      BY <2>5 DEF Same
    <3> QED BY <2>1, <3>1, <3>2
  <2> QED BY <2>4, <2>5
<1> QED BY <1>1, <1>2, <1>3, <1>4, <1>5, <1>6

LEMMA JoinKeeps ==
  ASSUME IInv, NEW p \in Procs, Join(p), UNCHANGED <<cpus, barrier, plan>>
  PROVE  IInv'
<1>1. stack[p] # <<>> /\ Top(p).at = "join" /\ Top(p).at \in LoopLabels /\ UNCHANGED <<queues, task, done>>
  BY DEF Join, At, LoopLabels
<1>2. PICK id, c : id = Top(p).id /\ c = [node[id] EXCEPT !.count = 0]
  OBVIOUS
<1>3. id \in Nat \ {0} /\ IsLoop(id)
  <2>1. FrameOK(p, Top(p)) /\ Top(p).id \in Nat
    BY <1>1, LoopTop
  <2> QED BY <1>1, <1>2, <2>1 DEF FrameOK, LoopLabels
<1>4. /\ Shape /\ TasksOK /\ Lives /\ Refs /\ Bounds /\ Life(id) /\ QueueStep(0, 0)
      /\ id \in DOMAIN task /\ ~Gone(id) /\ node[id] \in NodeSet /\ Ran(id) = 1
      /\ DOMAIN node = DOMAIN task /\ DOMAIN task = 1 .. Len(task) /\ Len(task) \in Nat
  <2>1. /\ Shape /\ TasksOK /\ Lives /\ Refs /\ Bounds /\ Life(id) /\ QueueStep(0, 0)
        /\ id \in DOMAIN task /\ ~Gone(id)
        /\ DOMAIN node = DOMAIN task /\ DOMAIN task = 1 .. Len(task) /\ Len(task) \in Nat
    BY <1>1, <1>2, <1>3, TopTask
  <2>2. node[id] \in NodeSet
    BY <2>1, ElementOfSeq DEF Shape
  <2>3. Ran(id) = 1
    BY <1>3, <2>1 DEF Life
  <2> QED BY <2>1, <2>2, <2>3
<1>5. CASE node[id].count = 1
  <2>1. Leaves(p) /\ deleted' = deleted \cup {id} /\ node' = Replace(node, id, c)
    BY <1>2, <1>5 DEF Join
  <2>2. c \in NodeSet /\ c.parent = node[id].parent /\ c.count = 0
    BY <1>2, <1>4 DEF NodeSet
  <2>3. /\ node' \in Seq(NodeSet) /\ Len(node') = Len(node) /\ DOMAIN node' = DOMAIN node /\ node'[id].count = 0
        /\ \A k \in DOMAIN task : node'[k].parent = node[k].parent /\ (k # id => node'[k].count = node[k].count)
        /\ \A k : Cardinality(Children(k)') + Same(k, node[id].parent) = Cardinality(Children(k))
    BY <1>4, <1>5, <2>1, <2>2, Recounted
  <2>4. Moved(p, Nil, Nil)
    BY <1>1, <1>4, <2>1, LeavesMoves
  <2>5. ASSUME NEW k \in Nat \ {0}
        PROVE  /\ Mentioned(k)' = Mentioned(k) /\ Ran(k) \in Nat /\ Ran(k)' \in Nat /\ Dropped(k)' = Dropped(k)
               /\ Ran(k)' + Same(k, id) = Ran(k) /\ Dropped(k) \in Nat /\ Mentioned(k) \in Nat
    <3>1. /\ Mentioned(k) \in Nat /\ Mentioned(k)' \in Nat
          /\ Ran(k) \in Nat /\ Ran(k)' \in Nat /\ Dropped(k) \in Nat /\ Dropped(k)' \in Nat
          /\ Mentioned(k)' + IsMention(Top(p), k) = Mentioned(k) + IsMention(Nil, k)
          /\ Ran(k)' + IsRun(Top(p), k) = Ran(k) + IsRun(Nil, k)
          /\ Dropped(k)' + IsDrop(Top(p), k) = Dropped(k) + IsDrop(Nil, k)
      BY <1>1, <1>4, <2>4, SettledCounts
    <3>2. /\ IsMention(Top(p), k) = 0 /\ IsMention(Nil, k) = 0 /\ IsRun(Top(p), k) = Same(k, id) /\ IsRun(Nil, k) = 0
          /\ IsDrop(Top(p), k) = 0 /\ IsDrop(Nil, k) = 0
      BY <1>1, <1>2 DEF Nil, NoTask, IsMention, IsRun, IsDrop, Same
    <3> QED BY <3>1, <3>2
  <2>6. \A k \in DOMAIN task : k # id => (Gone(k)' <=> Gone(k))
    BY <2>1 DEF Gone
  <2>7. Gone(id)'
    BY <2>1 DEF Gone
  <2>8. Life(id)'
    <3>1. Mentioned(id)' = 0 /\ Ran(id)' = 0
      <4>1. Mentioned(id) = 0 /\ Same(id, id) = 1
        BY <1>3, <1>4 DEF Life, Same
      <4> QED BY <1>3, <1>4, <2>5, <4>1
    <3>2. task'[id].kind \in {"root", "inner"}
      BY <1>1, <1>3 DEF IsLoop
    <3> QED BY <2>7, <3>1, <3>2 DEF Life, IsLoop, Waiting
  <2>9. Shape' /\ FramesOK' /\ TasksOK' /\ Lives' /\ Bounds'
    <3>0. PICK f : f = Nil
      OBVIOUS
    <3>1. /\ plan' = plan /\ done' \in BOOLEAN /\ cpus' \in [Pool -> SUBSET (0 .. N - 1)]
          /\ deleted' \subseteq DOMAIN task /\ f.at \notin {"enter", "self"} /\ Top(p).at # "self" /\ Top(p).at # "enter"
          /\ task' \in Seq(TaskSet) /\ Len(task') = Len(task)
      BY <1>1, <1>4, <2>1, <3>0 DEF Bounds, Shape, Nil
    <3>2. \A k \in DOMAIN task : task[k].kind = "pin" \/ (IsLoop(k) /\ Gone(k)') => node'[k].count = 0
      <4>1. ASSUME NEW k \in DOMAIN task, k # id, task[k].kind = "pin" \/ (IsLoop(k) /\ Gone(k)')
            PROVE  node'[k].count = 0
        <5>1. task[k].kind = "pin" \/ (IsLoop(k) /\ Gone(k))
          BY <2>6, <4>1
        <5>2. node[k].count = 0
          BY <1>4, <5>1 DEF TasksOK
        <5> QED BY <2>3, <4>1, <5>2
      <4> QED BY <2>3, <4>1
    <3>3. \A k \in DOMAIN task : task'[k].kind = task[k].kind /\ TaskOK(task[k])' /\ (k # id => task'[k] = task[k])
      BY <1>1, <1>4 DEF TasksOK, TaskOK
    <3>4. (f # Nil => FrameOK(p, f)' /\ Busy(f)') /\ Moved(p, f, Nil) /\ (f = Nil \/ f.id = id)
      BY <2>4, <3>0
    <3>5. /\ node' \in Seq(NodeSet) /\ Len(node') = Len(node)
          /\ \A k \in DOMAIN task : node'[k].parent = node[k].parent
      BY <2>3
    <3> QED BY <1>1, <1>2, <1>4, <2>6, <2>8, <3>1, <3>2, <3>3, <3>4, <3>5, Settles
  <2>10. Refs'
    <3>1. RefsAt(id) /\ Cardinality(Children(id)) \in Nat /\ Dropped(id) \in Nat /\ Held(id) \in Nat /\ Owned(id) = 1
      BY <1>3, <1>4, ChildrenFinite, Tallies DEF Refs, Held, Owned
    <3>2. Cardinality(Children(id)) = 0 /\ Dropped(id) = 0 /\ Held(id) = 0
      BY <1>5, <3>1 DEF RefsAt
    <3>3. node[id].parent = 0
      BY <1>3, <1>4 DEF TasksOK, Rootless, IsLoop, NoTask
    <3>4. ASSUME NEW n \in DOMAIN node PROVE RefsAt(n)'
      <4>1. RefsAt(n) /\ n \in Nat \ {0} /\ n \in DOMAIN task
        BY <1>4 DEF Refs
      <4>2. Dropped(n)' = Dropped(n)
        BY <2>5, <4>1
      <4>3. Cardinality(Children(n)') = Cardinality(Children(n))
        <5>1. Same(n, node[id].parent) = 0
          BY <3>3, <4>1 DEF Same
        <5>2. Cardinality(Children(n)) \in Nat /\ Cardinality(Children(n)') + Same(n, node[id].parent) = Cardinality(Children(n))
          BY <1>4, <2>3, ChildrenFinite
        <5>3. IsFiniteSet(Children(n)') /\ Cardinality(Children(n)') \in Nat
          <6>1. Shape'
            BY <2>9
          <6>2. Children(n)' \subseteq DOMAIN node
            BY <2>3 DEF Children
          <6>3. IsFiniteSet(DOMAIN node)
            BY <1>4, FS_Interval
          <6> QED BY <6>2, <6>3, FS_Subset, FS_CardinalityType
        <5> QED BY <5>1, <5>2, <5>3
      <4>4. Held(n)' = Held(n)
        BY <1>1 DEF Held
      <4>5. CASE n = id
        <5>1. Owned(n)' = 0
          BY <2>7, <4>5 DEF Owned
        <5>2. node'[n].count = Cardinality(Children(n)') + Dropped(n)' + Held(n)' + Owned(n)'
          BY <2>3, <3>2, <4>2, <4>3, <4>4, <4>5, <5>1
        <5> QED BY <5>2 DEF RefsAt
      <4>6. CASE n # id
        <5>1. Owned(n)' = Owned(n) /\ node'[n].count = node[n].count
          BY <1>1, <2>3, <2>6, <4>1, <4>6 DEF Owned, IsLoop
        <5> QED BY <4>1, <4>2, <4>3, <4>4, <5>1 DEF RefsAt
      <4> QED BY <4>5, <4>6
    <3> QED BY <2>3, <3>4 DEF Refs
  <2>11. Pins'
    <3>1. PICK f : f = Nil
      OBVIOUS
    <3>2. /\ Top(p).at \notin {"pin", "gather"} /\ f.at \notin {"pin", "gather"} /\ barrier' = barrier
          /\ task[id].kind # "pin" /\ Moved(p, f, Nil)
      BY <1>1, <1>3, <2>4, <3>1 DEF IsLoop, Nil
    <3>3. task' \in Seq(TaskSet) /\ Len(task') = Len(task)
      BY <1>1, <1>4 DEF Shape
    <3>4. \A k \in DOMAIN task : task'[k].kind = task[k].kind /\ (k # id => task'[k] = task[k])
      BY <1>1
    <3> QED BY <1>1, <1>2, <1>4, <2>6, <3>2, <3>3, <3>4, SettledPins
  <2> QED BY <2>9, <2>10, <2>11 DEF IInv
<1>6. CASE node[id].count # 1
  <2>1. /\ p \in Pool /\ Becomes(p, LoopFrame(Top(p).id, "pop", FALSE), <<>>) /\ At(p, "join")
        /\ UNCHANGED <<queues, objects, done, cpus, barrier, plan>>
    BY <1>2, <1>6 DEF Join, Becomes, objects
  <2> QED BY <2>1, JoinGoesOn
<1> QED BY <1>5, <1>6

\* A pointer to node n, which is counted, is given up; the thread goes on as f.
\* Its task id is deleted when it leaves.
LEMMA ReleaseMoves ==
  ASSUME IInv, NEW p \in Procs, stack[p] # <<>>, Top(p).at = "release",
         NEW id, id = Top(p).id, NEW n, n = Top(p).ptr, NEW c \in NodeSet,
         c.parent = node[n].parent, c.count = node[n].count - 1, node' = Replace(node, n, c),
         NEW f, Moved(p, f, Nil), f = Nil <=> (node[n].count # 1 /\ task[id].kind = "unique"),
         f # Nil => f.id = id,
         f.at \in {"release", "leave", "join", "none"},
         f.at = "release" <=> node[n].count = 1, f.at = "release" => f.ptr = node[n].parent,
         f.at = "leave" => task[id].kind = "proxy", f.at = "join" => f.victim \in Pool /\ f.inc <= N /\ IsLoop(id),
         deleted' = deleted \cup (IF f = Nil THEN {id} ELSE {}),
         UNCHANGED <<queues, task, done, cpus, barrier, plan>>
  PROVE  IInv'
<1>1. PICK e, t : e = Top(p) /\ t = task[id]
  OBVIOUS
<1>2. /\ e \in TaskFrames /\ FrameOK(p, e) /\ e.id = id /\ e.at = "release" /\ e.ptr = n /\ id \in Nat \ {0}
      /\ t.kind # "pin" /\ n \in DOMAIN task /\ Ran(id) = 1
  <2>1. Top(p).at \in InTask
    BY DEF InTask
  <2>2. e \in TaskFrames /\ FrameOK(p, e) /\ e.id \in Nat \ {0} /\ t.kind # "pin" /\ Ran(id) = 1
    BY <1>1, <2>1, TaskTop
  <2> QED BY <1>1, <2>2 DEF FrameOK
<1>3. /\ Shape /\ TasksOK /\ Lives /\ Refs /\ Bounds /\ Life(id) /\ QueueStep(0, 0)
      /\ id \in DOMAIN task /\ ~Gone(id)
      /\ DOMAIN node = DOMAIN task /\ DOMAIN task = 1 .. Len(task) /\ Len(task) \in Nat
  BY <1>1, <1>2, TopTask
<1>4. n \in Nat \ {0} /\ node[n] \in NodeSet
  BY <1>2, <1>3, ElementOfSeq DEF Shape
\* What there is of n.
<1>5. ASSUME NEW k \in Nat \ {0}
      PROVE  /\ Mentioned(k) \in Nat /\ Mentioned(k)' \in Nat
             /\ Ran(k) \in Nat /\ Ran(k)' \in Nat /\ Dropped(k) \in Nat /\ Dropped(k)' \in Nat
             /\ Mentioned(k)' = Mentioned(k)
             /\ Ran(k)' + Same(k, id) = Ran(k) + (IF f = Nil THEN 0 ELSE Same(k, id))
             /\ Dropped(k)' + Same(k, n) = Dropped(k) + (IF node[n].count = 1 THEN Same(k, node[n].parent) ELSE 0)
  <2>1. /\ Mentioned(k) \in Nat /\ Mentioned(k)' \in Nat
        /\ Ran(k) \in Nat /\ Ran(k)' \in Nat /\ Dropped(k) \in Nat /\ Dropped(k)' \in Nat
        /\ Mentioned(k)' + IsMention(e, k) = Mentioned(k) + IsMention(f, k)
        /\ Ran(k)' + IsRun(e, k) = Ran(k) + IsRun(f, k)
        /\ Dropped(k)' + IsDrop(e, k) = Dropped(k) + IsDrop(f, k)
    BY <1>1, <1>3, SettledCounts
  <2>2. IsMention(e, k) = 0 /\ IsMention(f, k) = 0 /\ IsRun(e, k) = Same(k, id) /\ IsDrop(e, k) = Same(k, n)
    BY <1>2 DEF IsMention, IsRun, IsDrop, Same
  <2>3. IsRun(f, k) = (IF f = Nil THEN 0 ELSE Same(k, id))
    <3>1. CASE f = Nil
      BY <3>1 DEF Nil, NoTask, IsRun
    <3>2. CASE f # Nil
      BY <3>2 DEF IsRun, Same
    <3> QED BY <3>1, <3>2
  <2>4. IsDrop(f, k) = (IF node[n].count = 1 THEN Same(k, node[n].parent) ELSE 0)
    BY DEF IsDrop, Same
  <2>5. Mentioned(k)' = Mentioned(k)
    BY <2>1, <2>2
  <2>6. Ran(k)' + Same(k, id) = Ran(k) + (IF f = Nil THEN 0 ELSE Same(k, id))
    BY <2>1, <2>2, <2>3
  <2>7. Dropped(k)' + Same(k, n) = Dropped(k) + (IF node[n].count = 1 THEN Same(k, node[n].parent) ELSE 0)
    BY <2>1, <2>2, <2>4
  <2> QED BY <2>1, <2>5, <2>6, <2>7
<1>6. /\ RefsAt(n) /\ Cardinality(Children(n)) \in Nat /\ Dropped(n) \in Nat /\ Dropped(n) >= 1
      /\ Held(n) \in Nat /\ Owned(n) \in Nat /\ node[n].count \in Nat /\ node[n].count >= 1
  <2>1. /\ RefsAt(n) /\ Cardinality(Children(n)) \in Nat /\ Dropped(n) \in Nat
        /\ Held(n) \in Nat /\ Owned(n) \in Nat /\ node[n].count \in Nat
    BY <1>2, <1>3, <1>4, ChildrenFinite, Tallies DEF Refs, Held, Owned, NodeSet
  <2>2. Dropped(n) >= 1
    <3>1. End(stack, p) \in Frames /\ Frame(End(stack, p)) = e /\ e \in FrameSet
      BY <1>1, <1>3, TopFrame
    <3>2. e \in Dropping(n)
      BY <1>2, <3>1 DEF Dropping
    <3> QED BY <1>3, <3>1, <3>2, CountFrames DEF Dropped
  <2>3. node[n].count >= 1
    <3>1. node[n].count = Cardinality(Children(n)) + Dropped(n) + Held(n) + Owned(n)
      BY <2>1 DEF RefsAt
    <3> QED BY <2>1, <2>2, <3>1
  <2> QED BY <2>1, <2>2, <2>3
<1>7. task[n].kind # "pin" /\ ~(IsLoop(n) /\ Gone(n))
  BY <1>2, <1>3, <1>6 DEF TasksOK
<1>8. node[n].count = 1 =>
        /\ Cardinality(Children(n)) = 0 /\ Dropped(n) = 1 /\ Held(n) = 0 /\ Owned(n) = 0
        /\ node[n].parent \in DOMAIN task /\ node[n].parent # n
  <2>1. ASSUME node[n].count = 1
        PROVE  /\ Cardinality(Children(n)) = 0 /\ Dropped(n) = 1 /\ Held(n) = 0 /\ Owned(n) = 0
               /\ node[n].parent \in DOMAIN task /\ node[n].parent # n
    <3>1. Cardinality(Children(n)) = 0 /\ Dropped(n) = 1 /\ Held(n) = 0 /\ Owned(n) = 0
      BY <1>6, <2>1 DEF RefsAt
    <3>2. ~IsLoop(n)
      BY <1>7, <3>1 DEF Owned
    <3>3. node[n].parent # 0 /\ node[n].parent < n /\ node[n].parent \in Nat
      BY <1>2, <1>3, <1>4, <1>7, <3>2 DEF TasksOK, Rootless, IsLoop, NoTask, NodeSet
    <3>4. node[n].parent \in 1 .. Len(task) /\ node[n].parent # n
      <4>1. n <= Len(task) /\ n \in Nat
        BY <1>2, <1>3
      <4> QED BY <1>3, <3>3, <4>1
    <3> QED BY <1>3, <3>1, <3>4
  <2> QED BY <2>1
<1>9. /\ node' \in Seq(NodeSet) /\ Len(node') = Len(node) /\ DOMAIN node' = DOMAIN node /\ node'[n].count = c.count
      /\ \A k \in DOMAIN task : node'[k].parent = node[k].parent /\ (k # n => node'[k].count = node[k].count)
      /\ (c.count > 0 <=> node[n].count > 0) => \A k : Children(k)' = Children(k)
      /\ c.count = 0 /\ node[n].count > 0 =>
              \A k : Cardinality(Children(k)') + Same(k, node[n].parent) = Cardinality(Children(k))
  BY <1>2, <1>3, Recounted
<1>10. \A k \in DOMAIN task : k # id => (Gone(k)' <=> Gone(k))
  BY DEF Gone
<1>11. Gone(id)' <=> f = Nil
  BY <1>3 DEF Gone
<1>12. IsLoop(id) => f # Nil
  BY DEF IsLoop
<1>13. \A k \in DOMAIN task : IsLoop(k) => (Gone(k)' <=> Gone(k))
  BY <1>3, <1>10, <1>11, <1>12
<1>14. Life(id)'
  <2>1. Mentioned(id)' = Mentioned(id) /\ Ran(id)' = (IF f = Nil THEN 0 ELSE 1)
    <3>1. Same(id, id) = 1
      BY DEF Same
    <3>2. /\ Mentioned(id)' = Mentioned(id) /\ Ran(id)' \in Nat /\ Ran(id) = 1
          /\ Ran(id)' + Same(id, id) = Ran(id) + (IF f = Nil THEN 0 ELSE Same(id, id))
      BY <1>2, <1>5
    <3>3. PICK r : r = Ran(id)'
      OBVIOUS
    <3>4. r \in Nat /\ r + 1 = 1 + (IF f = Nil THEN 0 ELSE 1)
      BY <3>1, <3>2, <3>3
    <3>5. r = IF f = Nil THEN 0 ELSE 1
      BY ONLY <3>4
    <3> QED BY <3>2, <3>3, <3>5
  <2>2. CASE f = Nil
    <3>1. t.kind = "unique" /\ Mentioned(id) = 0
      <4>1. t.kind = "unique"
        BY <1>1, <2>2
      <4>2. Mentioned(id) + Ran(id) = 1 /\ Mentioned(id) \in Nat
        BY <1>1, <1>2, <1>3, <1>5, <4>1 DEF Life
      <4> QED BY <1>2, <4>1, <4>2
    <3> QED BY <1>1, <1>11, <2>1, <2>2, <3>1 DEF Life, IsLoop, Waiting
  <2>3. CASE f # Nil
    <3>1. Ran(id)' = Ran(id) /\ (Gone(id)' <=> Gone(id))
      BY <1>2, <1>3, <1>11, <2>1, <2>3
    <3>2. LifeAt(id)
      BY <1>3 DEF LifeAt
    <3>3. LifeAt(id)'
      BY <1>3, <2>1, <3>1, <3>2, LifeGoesOn
    <3> QED BY <1>3, <3>3 DEF LifeAt
  <2> QED BY <2>2, <2>3
<1>15. f # Nil => FrameOK(p, f)' /\ Busy(f)'
  <2>1. ASSUME f # Nil PROVE FrameOK(p, f)' /\ Busy(f)'
    <3>1. f.id = id /\ f.id # 0 /\ f.id \in 0 .. Len(task') /\ task'[f.id].kind # "pin" /\ task' = task
      <4>1. f.id = id /\ task' = task
        BY <2>1
      <4>2. id # 0 /\ id \in 0 .. Len(task)
        BY <1>2, <1>3
      <4>3. task[id].kind # "pin"
        BY <1>1, <1>2
      <4> QED BY <4>1, <4>2, <4>3
    <3>2. f.at = "release" => f.ptr \in DOMAIN task'
      BY <1>8
    <3>3. f.at = "leave" => task'[f.id].kind = "proxy"
      BY <3>1
    <3>4. f.at = "join" => IsLoop(f.id)' /\ f.victim \in Pool /\ f.inc <= N
      BY <3>1 DEF IsLoop
    <3>5. f.at = "release" \/ f.at = "leave" \/ f.at = "join"
      <4>1. f.at = "none" => FALSE
        <5>1. f \in FrameSet
          BY <2>1 DEF Moved
        <5> QED BY <5>1 DEF FrameSet, TaskFrames, LoopFrames, MainFrames, PinFrames, TaskLabels,
                   LoopLabels, InTask
      <4> QED BY <4>1
    <3> QED BY <3>1, <3>2, <3>3, <3>4, <3>5 DEF FrameOK, Busy, InTask, LoopLabels, Bodies, Pool
  <2> QED BY <2>1
<1>16. Shape' /\ FramesOK' /\ TasksOK' /\ Lives' /\ Bounds'
  <2>1. /\ plan' = plan /\ done' \in BOOLEAN /\ cpus' \in [Pool -> SUBSET (0 .. N - 1)]
        /\ deleted' \subseteq DOMAIN task /\ f.at \notin {"enter", "self"} /\ Top(p).at # "self" /\ Top(p).at # "enter"
        /\ task' \in Seq(TaskSet) /\ Len(task') = Len(task) /\ (f = Nil \/ f.id = id)
    BY <1>3 DEF Bounds, Shape
  <2>2. \A k \in DOMAIN task : task[k].kind = "pin" \/ (IsLoop(k) /\ Gone(k)') => node'[k].count = 0
    <3>1. ASSUME NEW k \in DOMAIN task, task[k].kind = "pin" \/ (IsLoop(k) /\ Gone(k)')
          PROVE  node'[k].count = 0
      <4>1. task[k].kind = "pin" \/ (IsLoop(k) /\ Gone(k))
        BY <1>13, <3>1
      <4>2. node[k].count = 0 /\ k # n
        BY <1>3, <1>7, <4>1 DEF TasksOK
      <4> QED BY <1>9, <4>2
    <3> QED BY <3>1
  <2>3. \A k \in DOMAIN task : task'[k].kind = task[k].kind /\ TaskOK(task[k])' /\ (k # id => task'[k] = task[k])
    BY <1>3 DEF TasksOK, TaskOK
  <2>4. /\ node' \in Seq(NodeSet) /\ Len(node') = Len(node)
        /\ \A k \in DOMAIN task : node'[k].parent = node[k].parent
    BY <1>9
  <2> QED BY <1>3, <1>10, <1>14, <1>15, <2>1, <2>2, <2>3, <2>4, Settles
<1>17. Refs'
  <2>1. ASSUME NEW k \in DOMAIN node PROVE RefsAt(k)'
    <3>1. RefsAt(k) /\ k \in Nat \ {0} /\ k \in DOMAIN task
      BY <1>3 DEF Refs
    <3>2. /\ Dropped(k) \in Nat /\ Dropped(k)' \in Nat
          /\ Dropped(k)' + Same(k, n) = Dropped(k) + (IF node[n].count = 1 THEN Same(k, node[n].parent) ELSE 0)
      BY <1>5, <3>1
    <3>3. Held(k)' = Held(k) /\ Owned(k)' = Owned(k) /\ Held(k) \in Nat /\ Owned(k) \in Nat
      BY <1>13, <3>1 DEF Held, Owned, IsLoop
    <3>4. Cardinality(Children(k)) \in Nat /\ Cardinality(Children(k)') \in Nat
      <4>1. Cardinality(Children(k)) \in Nat
        BY <1>3, ChildrenFinite
      <4>2. Children(k)' \subseteq DOMAIN node
        BY <1>9 DEF Children
      <4>3. IsFiniteSet(DOMAIN node)
        BY <1>3, FS_Interval
      <4> QED BY <4>1, <4>2, <4>3, FS_Subset, FS_CardinalityType
    <3>5. Cardinality(Children(k)') + (IF node[n].count = 1 THEN Same(k, node[n].parent) ELSE 0) = Cardinality(Children(k))
      <4>1. CASE node[n].count = 1
        BY <1>9, <4>1
      <4>2. CASE node[n].count # 1
        <5>1. c.count > 0 /\ node[n].count > 0
          BY <1>6, <4>2
        <5>2. Children(k)' = Children(k)
          BY <1>9, <5>1
        <5> QED BY <3>4, <4>2, <5>2
      <4> QED BY <4>1, <4>2
    <3>6. node'[k].count + Same(k, n) = node[k].count /\ node[k].count \in Nat
      <4>1. node[k].count \in Nat
        BY <3>1, <3>2, <3>3, <3>4 DEF RefsAt
      <4>2. CASE k = n
        BY <1>6, <1>9, <4>2 DEF Same
      <4>3. CASE k # n
        <5>1. Same(k, n) = 0 /\ node'[k].count = node[k].count
          BY <1>9, <3>1, <4>3 DEF Same
        <5> QED BY <4>1, <5>1
      <4> QED BY <4>1, <4>2, <4>3
    <3>7. node[k].count = Cardinality(Children(k)) + Dropped(k) + Held(k) + Owned(k)
      BY <3>1 DEF RefsAt
    <3>8. PICK m : m = IF node[n].count = 1 THEN Same(k, node[n].parent) ELSE 0
      OBVIOUS
    <3>9. m \in Nat /\ Same(k, n) \in Nat /\ node'[k].count \in Nat
      <4>1. m \in Nat /\ Same(k, n) \in Nat
        BY <3>8 DEF Same
      <4>2. node'[k] \in NodeSet
        BY <1>9, ElementOfSeq
      <4> QED BY <4>1, <4>2 DEF NodeSet
    <3>10. node'[k].count = Cardinality(Children(k)') + Dropped(k)' + Held(k)' + Owned(k)'
      <4>1. /\ Dropped(k)' + Same(k, n) = Dropped(k) + m
            /\ Cardinality(Children(k)') + m = Cardinality(Children(k))
        BY <3>2, <3>5, <3>8
      <4>2. Held(k)' = Held(k) /\ Owned(k)' = Owned(k) /\ Held(k) \in Nat /\ Owned(k) \in Nat
        BY <3>3
      <4>3. PICK a, b, h, o, s, nn, aa, bb, ss :
              /\ a = Cardinality(Children(k)) /\ b = Dropped(k) /\ h = Held(k) /\ o = Owned(k) /\ s = Same(k, n)
              /\ nn = node[k].count /\ aa = Cardinality(Children(k)') /\ bb = Dropped(k)' /\ ss = node'[k].count
        OBVIOUS
      <4>4. /\ a \in Nat /\ b \in Nat /\ h \in Nat /\ o \in Nat /\ s \in Nat
            /\ aa \in Nat /\ bb \in Nat /\ ss \in Nat /\ m \in Nat
            /\ bb + s = b + m /\ aa + m = a /\ ss + s = nn /\ nn = a + b + h + o
        BY <3>2, <3>4, <3>6, <3>7, <3>9, <4>1, <4>2, <4>3
      <4>5. ss = aa + bb + h + o
        BY ONLY <4>4
      <4> QED BY <4>2, <4>3, <4>5
    <3> QED BY <3>10 DEF RefsAt
  <2> QED BY <1>9, <2>1 DEF Refs
<1>18. Pins'
  <2>1. /\ Top(p).at \notin {"pin", "gather"} /\ f.at \notin {"pin", "gather"} /\ barrier' = barrier
        /\ task[id].kind # "pin"
    BY <1>1, <1>2
  <2>2. task' \in Seq(TaskSet) /\ Len(task') = Len(task)
    BY <1>3 DEF Shape
  <2>3. \A k \in DOMAIN task : task'[k].kind = task[k].kind /\ (k # id => task'[k] = task[k])
    OBVIOUS
  <2> QED BY <1>3, <1>10, <2>1, <2>2, <2>3, SettledPins
<1> QED BY <1>16, <1>17, <1>18 DEF IInv

LEMMA ReleaseKeeps ==
  ASSUME IInv, NEW p \in Procs, Release(p), UNCHANGED <<cpus, barrier, plan>>
  PROVE  IInv'
<1>1. stack[p] # <<>> /\ Top(p).at = "release" /\ Top(p).at \in InTask /\ UNCHANGED <<queues, task, done>>
  BY DEF Release, At, InTask
<1>2. PICK e, id, n, t : e = Top(p) /\ id = Top(p).id /\ n = Top(p).ptr /\ t = task[id]
  OBVIOUS
<1>3. /\ e \in TaskFrames /\ FrameOK(p, e) /\ e.id = id /\ e.at = "release" /\ e.ptr = n /\ id \in Nat \ {0}
      /\ t.kind # "pin" /\ n \in DOMAIN task /\ t \in TaskSet
  <2>1. e \in TaskFrames /\ FrameOK(p, e) /\ e.id \in Nat \ {0} /\ t.kind # "pin" /\ t \in TaskSet
    BY <1>1, <1>2, TaskTop
  <2> QED BY <1>1, <1>2, <2>1 DEF FrameOK
<1>4. Shape /\ node[n] \in NodeSet /\ Refs /\ DOMAIN node = DOMAIN task
  <2>1. Shape /\ Refs /\ DOMAIN node = DOMAIN task
    BY <1>1, <1>2, <1>3, TopTask
  <2> QED BY <1>3, <2>1, ElementOfSeq DEF Shape
<1>5. node[n].count \in Nat /\ node[n].count >= 1
  <2>1. /\ RefsAt(n) /\ Cardinality(Children(n)) \in Nat /\ Dropped(n) \in Nat
        /\ Held(n) \in Nat /\ Owned(n) \in Nat /\ node[n].count \in Nat
    BY <1>3, <1>4, ChildrenFinite, Tallies DEF Refs, Held, Owned, NodeSet
  <2>2. Dropped(n) >= 1
    <3>1. End(stack, p) \in Frames /\ Frame(End(stack, p)) = e /\ e \in FrameSet
      BY <1>1, <1>2, <1>4, TopFrame
    <3>2. e \in Dropping(n)
      BY <1>3, <3>1 DEF Dropping
    <3> QED BY <1>4, <3>1, <3>2, CountFrames DEF Dropped
  <2>3. node[n].count = Cardinality(Children(n)) + Dropped(n) + Held(n) + Owned(n)
    BY <2>1 DEF RefsAt
  <2> QED BY <2>1, <2>2, <2>3
<1>6. PICK c : c = [node[n] EXCEPT !.count = @ - 1]
  OBVIOUS
<1>7. c \in NodeSet /\ c.parent = node[n].parent /\ c.count = node[n].count - 1
  BY <1>4, <1>5, <1>6 DEF NodeSet
<1>8. node' = Replace(node, n, c)
  BY <1>2, <1>6 DEF Release
<1>9. CASE node[n].count = 1
  <2>1. PICK f : f = [e EXCEPT !.ptr = node[n].parent]
    OBVIOUS
  <2>2. Becomes(p, f, <<>>) /\ deleted' = deleted
    BY <1>2, <1>9, <2>1 DEF Release, Becomes
  <2>3. f \in FrameSet /\ f.at = "release" /\ f.id = id /\ f.ptr = node[n].parent
    BY <1>3, <1>4, <2>1 DEF NodeSet, FrameSet, TaskFrames
  <2>4. Moved(p, f, Nil) /\ f # Nil
    BY <1>1, <1>4, <2>2, <2>3, BecomesMoves, NilIsNone
  <2>5. deleted' = deleted \cup (IF f = Nil THEN {id} ELSE {})
    BY <2>2, <2>4
  <2> QED BY <1>1, <1>2, <1>7, <1>8, <1>9, <2>3, <2>4, <2>5, ReleaseMoves
<1>10. CASE node[n].count # 1 /\ t.kind = "unique"
  <2>1. PICK f : f = Nil
    OBVIOUS
  <2>2. Leaves(p) /\ deleted' = deleted \cup {id}
    BY <1>2, <1>10 DEF Release
  <2>3. Moved(p, f, Nil) /\ f.at = "none"
    BY <1>1, <1>4, <2>1, <2>2, LeavesMoves DEF Nil
  <2>4. deleted' = deleted \cup (IF f = Nil THEN {id} ELSE {})
    BY <2>1, <2>2
  <2>5. /\ f.at # "release" /\ f.at # "leave" /\ f.at # "join" /\ f.at \in {"release", "leave", "join", "none"}
    BY <2>3
  <2> QED BY <1>1, <1>2, <1>7, <1>8, <1>10, <2>1, <2>3, <2>4, <2>5, ReleaseMoves
<1>11. CASE node[n].count # 1 /\ t.kind = "proxy"
  <2>1. PICK at, f : at = "leave" /\ f = TaskFrame(id, "leave")
    OBVIOUS
  <2>2. f = TaskFrame(id, at) /\ at \in TaskLabels
    BY <2>1 DEF TaskLabels
  <2>3. f \in FrameSet /\ f.at = "leave" /\ f.id = id
    <3>1. f \in FrameSet /\ f.at = at /\ f.id = id
      BY <1>3, <2>2, TaskFrameIn
    <3> QED BY <2>1, <3>1
  <2>4. Becomes(p, f, <<>>) /\ deleted' = deleted
    <3>1. t.kind # "unique"
      BY <1>11
    <3> QED BY <1>2, <1>11, <2>1, <3>1 DEF Release, Becomes
  <2>5. Moved(p, f, Nil) /\ f # Nil
    BY <1>1, <1>4, <2>3, <2>4, BecomesMoves, NilIsNone
  <2>6. deleted' = deleted \cup (IF f = Nil THEN {id} ELSE {})
    BY <2>4, <2>5
  <2> QED BY <1>1, <1>2, <1>7, <1>8, <1>11, <2>3, <2>5, <2>6, ReleaseMoves
<1>12. CASE node[n].count # 1 /\ t.kind \notin {"unique", "proxy"}
  <2>1. PICK at, b, f : at = "join" /\ b = FALSE /\ f = LoopFrame(id, "join", FALSE)
    OBVIOUS
  <2>2. f = LoopFrame(id, at, b) /\ at \in LoopLabels /\ b \in BOOLEAN
    BY <2>1 DEF LoopLabels
  <2>3. f \in FrameSet /\ f.at = "join" /\ f.id = id /\ f.victim \in Pool /\ f.inc <= N
    <3>1. id \in Nat
      BY <1>3
    <3>2. f \in FrameSet /\ f.at = at /\ f.id = id /\ f.victim \in Pool /\ f.inc <= N
      BY <2>2, <3>1, LoopFrameIn
    <3> QED BY <2>1, <3>2
  <2>4. Becomes(p, f, <<>>) /\ deleted' = deleted
    BY <1>2, <1>12, <2>1 DEF Release, Becomes
  <2>5. Moved(p, f, Nil) /\ f # Nil
    BY <1>1, <1>4, <2>3, <2>4, BecomesMoves, NilIsNone
  <2>6. deleted' = deleted \cup (IF f = Nil THEN {id} ELSE {})
    BY <2>4, <2>5
  <2>7. IsLoop(id)
    BY <1>2, <1>3, <1>12 DEF IsLoop, TaskSet, Kinds
  <2> QED BY <1>1, <1>2, <1>7, <1>8, <1>12, <2>3, <2>5, <2>6, <2>7, ReleaseMoves
<1> QED BY <1>9, <1>10, <1>11, <1>12

-----------------------------------------------------------------------------
(* EigenPinner.                                                            *)

\* A thread goes on as f, and what is changed is the barrier or its CPUs.
LEMMA PinPasses ==
  ASSUME IInv, NEW p \in Procs, stack[p] # <<>>, NEW f, Moved(p, f, Nil),
         \A k \in Nat \ {0} : Even(Top(p), f, Nil, 0, 0, k), f # Nil => FrameOK(p, f) /\ Busy(f),
         UNCHANGED <<queues, objects, done, plan>>, cpus' \in [Pool -> SUBSET (0 .. N - 1)]
  PROVE  Shape' /\ FramesOK' /\ TasksOK' /\ Lives' /\ Refs' /\ Bounds'
<1>1. /\ Shape /\ Bounds /\ TasksOK /\ task' = task /\ node' = node /\ deleted' = deleted
  BY DEF IInv, objects
<1>2. PICK g : g = Nil
  OBVIOUS
<1>3. Moved(p, f, g) /\ (g # Nil => FrameOK(p, g)' /\ Busy(g)')
  BY <1>2
<1>4. QueueStep(0, 0)
  BY <1>1, QueuesStay
<1>5. \A k \in Nat \ {0} : Even(Top(p), f, g, 0, 0, k)
  BY <1>2
<1>6. task' \in Seq(TaskSet) /\ Len(task') = Len(task)
  BY <1>1 DEF Shape
<1>7. \A k \in DOMAIN task : Onward(k) /\ (task'[k] = task[k] \/ (k = Top(p).id /\ Top(p).at # "enter"))
  BY <1>1 DEF Onward, TasksOK, TaskOK
<1>8. f # Nil => FrameOK(p, f)' /\ Busy(f)'
  BY <1>1 DEF FrameOK, Busy, IsLoop, InTask, LoopLabels, Bodies, Pool
<1>9. Shape' /\ FramesOK' /\ TasksOK' /\ Lives' /\ Refs'
  BY <1>1, <1>3, <1>4, <1>5, <1>6, <1>7, <1>8, Passes
<1>10. Bounds'
  <2>1. done' \in BOOLEAN
    BY <1>1 DEF Bounds
  <2> QED BY <1>4, <2>1, BoundsStay
<1> QED BY <1>9, <1>10

LEMMA PinThreadType ==
  ASSUME IInv, NEW p, NEW slot, PinThread(p, slot)
  PROVE  cpus' \in [Pool -> SUBSET (0 .. N - 1)]
<1>1. cpus \in [Pool -> SUBSET (0 .. N - 1)]
  BY DEF IInv, Bounds
<1>2. PICK s : s = IF slot < Cardinality(cpus[p])
                   THEN {c \in cpus[p] : Cardinality({d \in cpus[p] : d < c}) = slot} ELSE cpus[p]
  OBVIOUS
<1>3. s \subseteq cpus[p]
  BY <1>2
<1>4. p \in Pool => s \in SUBSET (0 .. N - 1)
  BY <1>1, <1>3
<1>5. cpus' = [cpus EXCEPT ![p] = s]
  BY <1>2 DEF PinThread, Replace
<1> QED BY <1>1, <1>4, <1>5

\* The frame of a task that pins, or of the constructor.
LEMMA PinTop ==
  ASSUME IInv, NEW p \in Procs, stack[p] # <<>>, Top(p).at \in {"to_pin", "pinned", "gather", "pin"},
         NEW e, e = Top(p)
  PROVE  /\ e \in FrameSet /\ FrameOK(p, e) /\ e.id \in Nat /\ e.id \in 0 .. Len(task)
         /\ e.at \in {"to_pin", "pinned"} => e.id # 0
         /\ e.at = "pin" => e \in PinFrames /\ e.id = 0
         /\ e.id # 0 => /\ e.id \in Nat \ {0} /\ e.id \in PinTasks /\ e.id \in DOMAIN task /\ ~Gone(e.id)
                        /\ Ran(e.id) = 1 /\ Mentioned(e.id) = 0 /\ task[e.id].kind = "pin"
<1>1. e \in FrameSet /\ FrameOK(p, e) /\ e.id \in Nat
  BY TopFacts
<1>2. e.id \in 0 .. Len(task)
  BY <1>1 DEF FrameOK
<1>3. e.at \in {"to_pin", "pinned"} => e.id # 0
  <2>1. e.at \in {"to_pin", "pinned"} => e \in TaskFrames
    BY <1>1, FrameKinds
  <2> QED BY <2>1 DEF TaskFrames
<1>4. e.at = "pin" => e \in PinFrames /\ e.id = 0
  BY <1>1, FrameKinds DEF PinFrames
<1>5. ASSUME e.id # 0
      PROVE  /\ e.id \in Nat \ {0} /\ e.id \in PinTasks /\ e.id \in DOMAIN task /\ ~Gone(e.id)
             /\ Ran(e.id) = 1 /\ Mentioned(e.id) = 0 /\ task[e.id].kind = "pin"
  <2>1. /\ e.id \in Nat \ {0} /\ e.id \in DOMAIN task /\ ~Gone(e.id) /\ Ran(e.id) = 1
    BY <1>5, TopFacts
  <2>2. task[e.id].kind = "pin"
    BY <1>1, <1>4, <1>5 DEF FrameOK
  <2>3. Mentioned(e.id) + Ran(e.id) = 1 /\ Mentioned(e.id) \in Nat
    <3>1. Life(e.id) /\ Shape
      BY <2>1 DEF IInv, Lives, LifeAt
    <3> QED BY <2>1, <2>2, <3>1, Tallies DEF Life
  <2>4. Mentioned(e.id) = 0
    <3>1. PICK m, r : m = Mentioned(e.id) /\ r = Ran(e.id)
      OBVIOUS
    <3>2. m + r = 1 /\ r = 1 /\ m \in Nat
      BY <2>1, <2>3, <3>1
    <3>3. m = 0
      BY ONLY <3>2
    <3> QED BY <3>1, <3>3
  <2> QED BY <2>1, <2>2, <2>4 DEF PinTasks
<1> QED BY <1>1, <1>2, <1>3, <1>4, <1>5

LEMMA PinMeKeeps ==
  ASSUME IInv, NEW p \in Procs, PinMe(p), UNCHANGED <<ran, done>>, plan' = plan
  PROVE  IInv'
<1>1. stack[p] # <<>> /\ Top(p).at = "to_pin" /\ UNCHANGED <<queues, objects, barrier>>
  BY DEF PinMe, At
<1>2. PICK e, at, f : e = Top(p) /\ at = "pinned" /\ f = TaskFrame(Top(p).id, at)
  OBVIOUS
<1>3. e \in FrameSet /\ FrameOK(p, e) /\ e.id \in Nat \ {0} /\ e.id \in 0 .. Len(task) /\ task[e.id].kind = "pin" /\ e.at = "to_pin"
  BY <1>1, <1>2, PinTop
<1>4. f \in FrameSet /\ f.at = "pinned" /\ f.id = e.id
  <2>1. at \in TaskLabels
    BY <1>2 DEF TaskLabels
  <2>2. f \in FrameSet /\ f.at = at /\ f.id = e.id
    BY <1>2, <1>3, <2>1, TaskFrameIn
  <2> QED BY <1>2, <2>2
<1>5. FrameOK(p, f) /\ Busy(f) /\ SameRole(Top(p), f)
  BY <1>1, <1>2, <1>3, <1>4 DEF FrameOK, Busy, SameRole, InTask, LoopLabels, Bodies
<1>6. Becomes(p, f, <<>>)
  BY <1>2 DEF PinMe, Becomes
<1>7. Moved(p, f, Nil)
  BY <1>1, <1>4, <1>6, BecomesMoves DEF IInv
<1>8. cpus' \in [Pool -> SUBSET (0 .. N - 1)]
  BY PinThreadType DEF PinMe
<1>9. Shape' /\ FramesOK' /\ TasksOK' /\ Lives' /\ Refs' /\ Bounds'
  <2>1. \A k \in Nat \ {0} : Even(Top(p), f, Nil, 0, 0, k)
    BY <1>5, SameEven
  <2> QED BY <1>1, <1>5, <1>7, <1>8, <2>1, PinPasses
<1>10. Pins'
  <2>1. PICK g : g = Nil
    OBVIOUS
  <2>2. Top(p).at \notin {"pin", "gather"} /\ f.at \notin {"pin", "gather"} /\ g.at \notin {"pin", "gather"} /\ Moved(p, f, g)
    BY <1>1, <1>4, <1>7, <2>1 DEF Nil
  <2>3. task' = task /\ barrier' = barrier /\ \A k \in PinTasks : Gone(k)' <=> Gone(k)
    BY <1>1 DEF Gone, objects
  <2> QED BY <1>1, <2>2, <2>3, WorkPins
<1> QED BY <1>9, <1>10 DEF IInv

LEMMA PinMainKeeps ==
  ASSUME IInv, NEW p \in Procs, PinMain(p), UNCHANGED <<ran, done>>, plan' = plan
  PROVE  IInv'
<1>1. stack[p] # <<>> /\ Top(p).at = "pin" /\ UNCHANGED <<queues, objects, barrier>>
  BY DEF PinMain, At
<1>2. PICK e, f : e = Top(p) /\ f = [e EXCEPT !.at = "gather"]
  OBVIOUS
<1>3. e \in PinFrames /\ e \in FrameSet /\ FrameOK(p, e) /\ e.id = 0 /\ e.id \in 0 .. Len(task) /\ e.at = "pin"
  BY <1>1, <1>2, PinTop
<1>4. f \in FrameSet /\ f.at = "gather" /\ f.id = 0
  BY <1>2, <1>3 DEF FrameSet, PinFrames
<1>5. FrameOK(p, f) /\ Busy(f) /\ SameRole(Top(p), f)
  BY <1>1, <1>2, <1>3, <1>4 DEF FrameOK, Busy, SameRole, InTask, LoopLabels, Bodies
<1>6. Becomes(p, f, <<>>)
  BY <1>2 DEF PinMain, Becomes
<1>7. Moved(p, f, Nil)
  BY <1>1, <1>4, <1>6, BecomesMoves DEF IInv
<1>8. cpus' \in [Pool -> SUBSET (0 .. N - 1)]
  BY PinThreadType DEF PinMain
<1>9. Shape' /\ FramesOK' /\ TasksOK' /\ Lives' /\ Refs' /\ Bounds'
  <2>1. \A k \in Nat \ {0} : Even(Top(p), f, Nil, 0, 0, k)
    BY <1>5, SameEven
  <2> QED BY <1>1, <1>5, <1>7, <1>8, <2>1, PinPasses
<1>10. Shape /\ Pins /\ task' = task /\ deleted' = deleted /\ barrier' = barrier
  BY <1>1 DEF IInv, objects
<1>11. Pinners' = Pinners /\ \A k \in Nat \ {0} : Gathered(k)' = Gathered(k)
  <2>1. /\ Pinners \in Nat /\ Pinners' \in Nat
        /\ Pinners' + IsPinner(e) = Pinners + IsPinner(f) + IsPinner(Nil)
        /\ \A k \in Nat \ {0} :
              /\ Gathered(k) \in Nat /\ Gathered(k)' \in Nat
              /\ Gathered(k)' + IsGather(e, k) = Gathered(k) + IsGather(f, k) + IsGather(Nil, k)
    BY <1>2, <1>3, <1>7, PinTally
  <2>2. IsPinner(e) = 1 /\ IsPinner(f) = 1 /\ IsPinner(Nil) = 0
    BY <1>3, <1>4 DEF IsPinner, Nil, NoTask
  <2>3. \A k \in Nat \ {0} : IsGather(e, k) = 0 /\ IsGather(f, k) = 0 /\ IsGather(Nil, k) = 0
    BY <1>3, <1>4 DEF IsGather, Nil, NoTask
  <2>4. Pinners' = Pinners
    <3>1. Pinners' + 1 = Pinners + 1 + 0 /\ Pinners \in Nat /\ Pinners' \in Nat
      BY <2>1, <2>2
    <3>2. PICK a, b : a = Pinners' /\ b = Pinners
      OBVIOUS
    <3>3. a + 1 = b + 1 + 0 /\ a \in Nat /\ b \in Nat
      BY <3>1, <3>2
    <3>4. a = b
      BY ONLY <3>3
    <3> QED BY <3>2, <3>4
  <2>5. \A k \in Nat \ {0} : Gathered(k)' = Gathered(k)
    BY <2>1, <2>3
  <2> QED BY <2>4, <2>5
<1>12. PinTasks' = PinTasks /\ PinTasks \subseteq Nat \ {0}
  BY <1>10, LenProperties DEF PinTasks, Shape
<1>13. Absent' = Absent
  BY <1>10, <1>11, <1>12 DEF Absent, Noted, Gone
<1>14. ASSUME NEW x \in Frames', Frame(x)'.at = "pin", NEW id \in PinTasks
       PROVE  task[id].from < Frame(x)'.next
  <2>1. \/ x \in Frames /\ x # End(stack, p) /\ Frame(x)' = Frame(x)
        \/ x[1] = p /\ Frame(x)' # Nil /\ (Frame(x)' = f \/ Frame(x)' = Nil)
    BY <1>7 DEF Moved
  <2>2. x \in Frames /\ Frame(x)' = Frame(x)
    BY <1>4, <1>14, <2>1
  <2> QED BY <1>10, <1>14, <2>2 DEF Pins
<1>15. Cardinality(PinTasks \ deleted)' = Cardinality(PinTasks \ deleted) /\ Cardinality(Absent)' = Cardinality(Absent)
  BY <1>10, <1>12, <1>13
<1>16. Pins'
  BY <1>10, <1>11, <1>12, <1>14, <1>15 DEF Pins
<1> QED BY <1>9, <1>16 DEF IInv

\* What the frames of EigenPinner count, in a step.
LEMMA PinCounts ==
  ASSUME IInv, NEW p \in Procs, stack[p] # <<>>, NEW f, Moved(p, f, Nil), f.at # "pin",
         task' = task, Top(p).at \in {"pinned", "gather"}, f.at \in {"gather", "none"}, NEW k \in Nat \ {0}
  PROVE  /\ Pinners \in Nat /\ Pinners' \in Nat
         /\ Pinners' + IsPinner(Top(p)) = Pinners + IsPinner(f)
         /\ Gathered(k) \in Nat /\ Gathered(k)' \in Nat
         /\ Gathered(k)' + IsGather(Top(p), k) = Gathered(k) + IsGather(f, k)
         /\ PinTasks' = PinTasks /\ PinTasks \subseteq Nat \ {0}
         /\ \A x \in Frames' : Frame(x)'.at = "pin" => x \in Frames /\ Frame(x)' = Frame(x)
<1>1. Shape /\ Top(p) \in FrameSet
  BY TopFacts DEF IInv
<1>2. /\ Pinners \in Nat /\ Pinners' \in Nat
      /\ Pinners' + IsPinner(Top(p)) = Pinners + IsPinner(f) + IsPinner(Nil)
      /\ Gathered(k) \in Nat /\ Gathered(k)' \in Nat
      /\ Gathered(k)' + IsGather(Top(p), k) = Gathered(k) + IsGather(f, k) + IsGather(Nil, k)
  BY <1>1, PinTally
<1>3. /\ IsPinner(Nil) = 0 /\ IsGather(Nil, k) = 0 /\ IsPinner(f) \in Nat /\ IsGather(f, k) \in Nat
      /\ IsPinner(Top(p)) \in Nat /\ IsGather(Top(p), k) \in Nat
  BY DEF IsPinner, IsGather, Nil, NoTask
<1>4. Pinners' + IsPinner(Top(p)) = Pinners + IsPinner(f)
  BY <1>2, <1>3
<1>5. Gathered(k)' + IsGather(Top(p), k) = Gathered(k) + IsGather(f, k)
  BY <1>2, <1>3
<1>6. PinTasks' = PinTasks /\ PinTasks \subseteq Nat \ {0}
  BY <1>1, LenProperties DEF PinTasks, Shape
<1>7. ASSUME NEW x \in Frames', Frame(x)'.at = "pin" PROVE x \in Frames /\ Frame(x)' = Frame(x)
  <2>1. \/ x \in Frames /\ x # End(stack, p) /\ Frame(x)' = Frame(x)
        \/ x[1] = p /\ Frame(x)' # Nil /\ (Frame(x)' = f \/ Frame(x)' = Nil)
    BY DEF Moved
  <2> QED BY <1>7, <2>1
<1> QED BY <1>2, <1>4, <1>5, <1>6, <1>7

\* A task does not wait for the others before it has pinned its thread.
LEMMA NotGathered ==
  ASSUME IInv, NEW p \in Procs, stack[p] # <<>>, Top(p).at \notin {"enter", "gather"},
         NEW id \in Nat \ {0}, Top(p).id = id
  PROVE  Gathered(id) = 0
<1>1. Shape /\ Lives
  BY DEF IInv
<1>2. End(stack, p) \in Frames /\ Frame(End(stack, p)) = Top(p)
  BY <1>1, TopFrame
<1>3. ASSUME NEW x \in Among(stack, Gathering(id)) PROVE FALSE
  <2>1. x \in Frames /\ Frame(x).at = "gather" /\ Frame(x).id = id
    BY <1>3 DEF Among, Frames, Frame, Item, Gathering
  <2>2. x = End(stack, p)
    BY <1>1, <1>2, <2>1, Alone
  <2> QED BY <1>2, <2>1, <2>2
<1>4. Among(stack, Gathering(id)) = {}
  BY <1>3
<1> QED BY <1>4, FS_EmptySet DEF Gathered, Count

LEMMA NotifyKeeps ==
  ASSUME IInv, NEW p \in Procs, Notify(p), UNCHANGED <<ran, done>>, plan' = plan
  PROVE  IInv'
<1>1. stack[p] # <<>> /\ Top(p).at = "pinned" /\ UNCHANGED <<queues, objects, cpus>>
  BY DEF Notify, At
<1>2. PICK e, at, id, f : e = Top(p) /\ at = "gather" /\ id = Top(p).id /\ f = TaskFrame(Top(p).id, at)
  OBVIOUS
<1>3. /\ e \in FrameSet /\ FrameOK(p, e) /\ e.id = id /\ e.id \in 0 .. Len(task) /\ e.at = "pinned"
      /\ id \in Nat \ {0} /\ id \in PinTasks /\ id \in DOMAIN task /\ ~Gone(id) /\ task[id].kind = "pin"
  BY <1>1, <1>2, PinTop
<1>4. f \in FrameSet /\ f.at = "gather" /\ f.id = id
  <2>1. at \in TaskLabels
    BY <1>2 DEF TaskLabels
  <2>2. f \in FrameSet /\ f.at = at /\ f.id = id
    BY <1>2, <1>3, <2>1, TaskFrameIn
  <2> QED BY <1>2, <2>2
<1>5. FrameOK(p, f) /\ Busy(f) /\ SameRole(Top(p), f)
  BY <1>1, <1>2, <1>3, <1>4 DEF FrameOK, Busy, SameRole, InTask, LoopLabels, Bodies
<1>6. Becomes(p, f, <<>>)
  BY <1>2 DEF Notify, Becomes
<1>7. Moved(p, f, Nil)
  BY <1>1, <1>4, <1>6, BecomesMoves DEF IInv
<1>8. /\ Shape /\ Pins /\ task' = task /\ deleted' = deleted /\ barrier \in [remain : Int, refs : Int]
      /\ barrier' = [barrier EXCEPT !.remain = @ - 1] /\ cpus' \in [Pool -> SUBSET (0 .. N - 1)]
  BY <1>1 DEF IInv, objects, Notify, Bounds, Pins
<1>9. Shape' /\ FramesOK' /\ TasksOK' /\ Lives' /\ Refs' /\ Bounds'
  <2>1. \A k \in Nat \ {0} : Even(Top(p), f, Nil, 0, 0, k)
    BY <1>5, SameEven
  <2> QED BY <1>1, <1>5, <1>7, <1>8, <2>1, PinPasses
<1>10. /\ barrier' \in [remain : Int, refs : Int]
       /\ barrier'.remain = barrier.remain - 1 /\ barrier'.refs = barrier.refs
  BY <1>8
<1>11. /\ Pinners' = Pinners /\ PinTasks' = PinTasks /\ PinTasks \subseteq Nat \ {0}
       /\ \A x \in Frames' : Frame(x)'.at = "pin" => x \in Frames /\ Frame(x)' = Frame(x)
  <2>1. /\ Pinners \in Nat /\ Pinners' \in Nat
        /\ Pinners' + IsPinner(Top(p)) = Pinners + IsPinner(f)
        /\ PinTasks' = PinTasks /\ PinTasks \subseteq Nat \ {0}
        /\ \A x \in Frames' : Frame(x)'.at = "pin" => x \in Frames /\ Frame(x)' = Frame(x)
    BY <1>1, <1>3, <1>4, <1>7, <1>8, PinCounts
  <2>2. IsPinner(Top(p)) = 0 /\ IsPinner(f) = 0
    BY <1>1, <1>3, <1>4 DEF IsPinner, NoTask
  <2>3. PICK a, b : a = Pinners' /\ b = Pinners
    OBVIOUS
  <2>4. a + 0 = b + 0 /\ a \in Nat /\ b \in Nat
    BY <2>1, <2>2, <2>3
  <2>5. a = b
    BY ONLY <2>4
  <2> QED BY <2>1, <2>3, <2>5
<1>12. ASSUME NEW k \in PinTasks PROVE Noted(k)' <=> Noted(k) \/ k = id
  <2>1. /\ Gathered(k) \in Nat /\ Gathered(k)' \in Nat
        /\ Gathered(k)' + IsGather(Top(p), k) = Gathered(k) + IsGather(f, k)
    BY <1>1, <1>4, <1>7, <1>8, <1>11, PinCounts
  <2>2. IsGather(Top(p), k) = 0 /\ IsGather(f, k) = (IF k = id THEN 1 ELSE 0)
    BY <1>1, <1>4 DEF IsGather
  <2>3. Gone(k)' <=> Gone(k)
    BY <1>8 DEF Gone
  <2>4. CASE k = id
    <3>1. Gathered(k)' > 0
      BY <2>1, <2>2, <2>4
    <3> QED BY <2>4, <3>1 DEF Noted
  <2>5. CASE k # id
    <3>1. Gathered(k)' = Gathered(k)
      BY <2>1, <2>2, <2>5
    <3> QED BY <2>3, <2>5, <3>1 DEF Noted
  <2> QED BY <2>4, <2>5
<1>13. Absent' = Absent \ {task[id].from}
  BY <1>3, <1>8, <1>11, <1>12 DEF Absent
<1>14. task[id].from \in Absent
  <2>1. Gathered(id) = 0
    BY <1>1, <1>2, <1>3, NotGathered
  <2>2. ~Noted(id)
    BY <1>3, <2>1 DEF Noted
  <2>3. task[id].from \in 1 .. N - 1 /\ \A k \in PinTasks : task[k].from = task[id].from => k = id
    BY <1>3, <1>8 DEF Pins
  <2> QED BY <2>2, <2>3 DEF Absent
<1>15. Cardinality(Absent') = Cardinality(Absent) - 1
  <2>1. IsFiniteSet(Absent)
    <3>1. IsFiniteSet(1 .. N - 1)
      BY FS_Interval, ShapeAssumption
    <3>2. Absent \subseteq 1 .. N - 1
      BY DEF Absent
    <3> QED BY <3>1, <3>2, FS_Subset
  <2> QED BY <1>13, <1>14, <2>1, FS_RemoveElement
<1>16. Pins'
  <2>1. barrier'.refs >= Cardinality(PinTasks' \ deleted') + Pinners' /\ Pinners' <= 1
    BY <1>8, <1>10, <1>11 DEF Pins
  <2>2. barrier'.remain = Cardinality(Absent')
    BY <1>8, <1>10, <1>15 DEF Pins
  <2>3. /\ \A k \in PinTasks' : task'[k].from \in 1 .. N - 1
        /\ \A i, k \in PinTasks' : task'[i].from = task'[k].from => i = k
    BY <1>8, <1>11 DEF Pins
  <2>4. \A x \in Frames' : Frame(x)'.at = "pin" => \A k \in PinTasks' : task'[k].from < Frame(x)'.next
    BY <1>8, <1>11 DEF Pins
  <2> QED BY <1>10, <2>1, <2>2, <2>3, <2>4 DEF Pins
<1> QED BY <1>9, <1>16 DEF IInv

\* The tasks of EigenPinner are finitely many.
LEMMA PinsFinite ==
  ASSUME Shape
  PROVE  IsFiniteSet(PinTasks \ deleted) /\ Cardinality(PinTasks \ deleted) \in Nat
<1>1. DOMAIN task = 1 .. Len(task) /\ Len(task) \in Nat
  BY LenProperties DEF Shape
<1>2. PICK n : n = Len(task)
  OBVIOUS
<1>3. n \in Int /\ 1 \in Int
  BY <1>1, <1>2
<1>4. IsFiniteSet(1 .. n)
  BY ONLY <1>3, FS_Interval
<1>5. PinTasks \ deleted \subseteq 1 .. n
  BY <1>1, <1>2 DEF PinTasks
<1> QED BY <1>4, <1>5, FS_Subset, FS_CardinalityType

\* The barrier loses one of its pointers, and the frame that held it.
LEMMA GatherPins ==
  ASSUME IInv, NEW p \in Procs, stack[p] # <<>>, Top(p).at = "gather", NEW id, id = Top(p).id,
         NEW f, f = Nil, Moved(p, f, Nil), task' = task,
         barrier' = [barrier EXCEPT !.refs = @ - 1], deleted' = deleted \cup ({id} \ {NoTask})
  PROVE  Pins'
<1>1. Shape /\ Pins /\ barrier \in [remain : Int, refs : Int]
  BY DEF IInv, Pins
<1>2. /\ barrier' \in [remain : Int, refs : Int]
      /\ barrier'.remain = barrier.remain /\ barrier'.refs = barrier.refs - 1
  BY <1>1
<1>3. f.at = "none" /\ f.id = 0
  BY DEF Nil, NoTask
<1>4. /\ Pinners \in Nat /\ Pinners' \in Nat
      /\ Pinners' + IsPinner(Top(p)) = Pinners + IsPinner(f)
      /\ PinTasks' = PinTasks /\ PinTasks \subseteq Nat \ {0}
      /\ \A x \in Frames' : Frame(x)'.at = "pin" => x \in Frames /\ Frame(x)' = Frame(x)
  <2>1. f.at # "pin" /\ f.at \in {"gather", "none"} /\ Top(p).at \in {"pinned", "gather"}
    BY <1>3
  <2>2. 1 \in Nat \ {0}
    OBVIOUS
  <2>3. PICK k \in Nat \ {0} : k = 1
    BY <2>2
  <2> QED BY <2>1, <2>3, PinCounts
<1>5. ASSUME NEW k \in Nat \ {0}, k # id PROVE Gathered(k)' = Gathered(k)
  <2>1. f.at # "pin" /\ f.at \in {"gather", "none"} /\ Top(p).at \in {"pinned", "gather"}
    BY <1>3
  <2>2. /\ Gathered(k) \in Nat /\ Gathered(k)' \in Nat
        /\ Gathered(k)' + IsGather(Top(p), k) = Gathered(k) + IsGather(f, k)
    BY <2>1, PinCounts
  <2>3. IsGather(Top(p), k) = 0 /\ IsGather(f, k) = 0
    BY <1>3, <1>5 DEF IsGather
  <2> QED BY <2>2, <2>3
<1>6. ASSUME id # 0
      PROVE id \in PinTasks /\ ~Gone(id) /\ Gathered(id) > 0
  <2>1. id \in Nat \ {0} /\ id \in PinTasks /\ ~Gone(id)
    BY <1>6, PinTop
  <2>2. Gathered(id) >= 1
    <3>1. Top(p) \in Gathering(id)
      BY <1>1, TopFrame DEF Gathering
    <3>2. End(stack, p) \in Frames /\ Frame(End(stack, p)) \in Gathering(id)
      BY <1>1, <3>1, TopFrame
    <3> QED BY <1>1, <3>2, CountFrames DEF Gathered
  <2>3. Gathered(id) \in Nat
    BY <1>1, Tallies
  <2> QED BY <2>1, <2>2, <2>3
<1>7. ASSUME NEW k \in PinTasks PROVE Noted(k)' <=> Noted(k)
  <2>1. k \in Nat \ {0}
    BY <1>4
  <2>2. CASE k = id
    <3>1. k \in deleted' /\ Noted(k)
      BY <1>6, <2>1, <2>2 DEF Noted, NoTask
    <3> QED BY <3>1 DEF Noted, Gone
  <2>3. CASE k # id
    <3>1. Gathered(k)' = Gathered(k) /\ (k \in deleted' <=> k \in deleted)
      BY <1>5, <2>1, <2>3
    <3> QED BY <3>1 DEF Noted, Gone
  <2> QED BY <2>2, <2>3
<1>8. Absent' = Absent
  BY <1>4, <1>7 DEF Absent
<1>9. PICK c, d : c = Cardinality(PinTasks \ deleted) /\ d = Cardinality(PinTasks \ deleted)'
  OBVIOUS
<1>10. IsFiniteSet(PinTasks \ deleted) /\ c \in Nat
  BY <1>1, <1>9, PinsFinite
<1>11. barrier.refs >= c + Pinners
  BY <1>1, <1>9 DEF Pins
<1>12. d \in Int /\ barrier'.refs >= d + Pinners' /\ Pinners' <= Pinners
  <2>1. PICK a, b, r : a = Pinners' /\ b = Pinners /\ r = barrier.refs
    OBVIOUS
  <2>2. IsPinner(f) = 0
    BY <1>3 DEF IsPinner
  <2>3. CASE id = 0
    <3>1. IsPinner(Top(p)) = 1
      BY <2>3 DEF IsPinner, NoTask
    <3>2. d = c
      BY <1>4, <1>9, <2>3 DEF NoTask
    <3>3. a + 1 = b /\ a \in Nat /\ b \in Nat /\ r \in Int /\ r >= c + b /\ c \in Nat /\ barrier'.refs = r - 1
      BY <1>1, <1>2, <1>4, <1>10, <1>11, <2>1, <2>2, <3>1
    <3>4. r - 1 >= c + a /\ a <= b
      BY ONLY <3>3
    <3> QED BY <1>10, <2>1, <3>2, <3>3, <3>4
  <2>4. CASE id # 0
    <3>1. IsPinner(Top(p)) = 0
      BY <2>4 DEF IsPinner, NoTask
    <3>2. id \in PinTasks \ deleted
      BY <1>6, <2>4 DEF Gone
    <3>3. (PinTasks \ deleted)' = (PinTasks \ deleted) \ {id}
      BY <1>4, <2>4 DEF NoTask
    <3>4. d = c - 1
      <4>1. PICK S : S = PinTasks \ deleted
        OBVIOUS
      <4>2. Cardinality(S \ {id}) = Cardinality(S) - 1
        BY ONLY <1>10, <3>2, <4>1, FS_RemoveElement
      <4> QED BY <1>9, <3>3, <4>1, <4>2, Zenon
    <3>5. a + 0 = b + 0 /\ a \in Nat /\ b \in Nat /\ r \in Int /\ r >= c + b /\ c \in Nat /\ barrier'.refs = r - 1
      BY <1>1, <1>2, <1>4, <1>10, <1>11, <2>1, <2>2, <3>1
    <3>6. r - 1 >= c - 1 + a /\ a <= b
      BY ONLY <3>5
    <3> QED BY <1>10, <2>1, <3>4, <3>5, <3>6
  <2> QED BY <2>3, <2>4
<1>13. Pinners' <= 1
  <2>1. PICK a, b : a = Pinners' /\ b = Pinners
    OBVIOUS
  <2>2. a \in Nat /\ b \in Nat /\ a <= b /\ b <= 1
    BY <1>1, <1>4, <1>12, <2>1 DEF Pins
  <2>3. a <= 1
    BY ONLY <2>2
  <2> QED BY <2>1, <2>3
<1>14. barrier'.refs >= Cardinality(PinTasks \ deleted)' + Pinners'
  BY <1>9, <1>12
<1>15. barrier'.remain = Cardinality(Absent')
  BY <1>1, <1>2, <1>8 DEF Pins
<1>16. /\ \A k \in PinTasks' : task'[k].from \in 1 .. N - 1
       /\ \A i, k \in PinTasks' : task'[i].from = task'[k].from => i = k
  BY <1>1, <1>4 DEF Pins
<1>17. \A x \in Frames' : Frame(x)'.at = "pin" => \A k \in PinTasks' : task'[k].from < Frame(x)'.next
  BY <1>1, <1>4 DEF Pins
<1> QED BY <1>2, <1>13, <1>14, <1>15, <1>16, <1>17 DEF Pins

LEMMA GatherKeeps ==
  ASSUME IInv, NEW p \in Procs, Gather(p), UNCHANGED <<ran, done>>, plan' = plan
  PROVE  IInv'
<1>1. /\ stack[p] # <<>> /\ Top(p).at = "gather" /\ Leaves(p) /\ UNCHANGED <<queues, task, node, cpus>>
      /\ barrier' = [barrier EXCEPT !.refs = @ - 1] /\ deleted' = deleted \cup ({Top(p).id} \ {NoTask})
  BY DEF Gather, At
<1>2. PICK e, id, f : e = Top(p) /\ id = Top(p).id /\ f = Nil
  OBVIOUS
<1>3. /\ e \in FrameSet /\ FrameOK(p, e) /\ e.id = id /\ e.at = "gather" /\ id \in Nat
      /\ id # 0 => /\ id \in Nat \ {0} /\ id \in DOMAIN task /\ ~Gone(id)
                   /\ Ran(id) = 1 /\ Mentioned(id) = 0 /\ task[id].kind = "pin"
  BY <1>1, <1>2, PinTop
<1>4. Moved(p, f, Nil) /\ f.at = "none"
  BY <1>1, <1>2, LeavesMoves DEF IInv, Nil
<1>5. Pins'
  BY <1>1, <1>2, <1>4, GatherPins
<1>6. Shape /\ TasksOK /\ Lives /\ Refs /\ Bounds /\ done' = done /\ done' \in BOOLEAN
      /\ cpus' \in [Pool -> SUBSET (0 .. N - 1)]
  BY <1>1 DEF IInv, Bounds
<1>7. CASE id = 0
  <2>1. deleted' = deleted
    BY <1>1, <1>2, <1>7 DEF NoTask
  <2>2. UNCHANGED <<queues, objects, done, plan>>
    BY <1>1, <2>1 DEF objects
  <2>3. ASSUME NEW k \in Nat \ {0} PROVE Even(Top(p), f, Nil, 0, 0, k)
    BY <1>2, <1>3, <1>7 DEF Even, IsMention, IsRun, IsDrop, Nil, NoTask
  <2>4. Shape' /\ FramesOK' /\ TasksOK' /\ Lives' /\ Refs' /\ Bounds'
    BY <1>1, <1>2, <1>4, <1>6, <2>2, <2>3, PinPasses
  <2> QED BY <1>5, <2>4 DEF IInv
<1>8. CASE id # 0
  <2>1. id \in Nat \ {0} /\ id \in DOMAIN task /\ ~Gone(id) /\ Ran(id) = 1 /\ Mentioned(id) = 0 /\ task[id].kind = "pin"
    BY <1>3, <1>8
  <2>2. QueueStep(0, 0)
    BY <1>1, <1>6, QueuesStay
  <2>3. deleted' = deleted \cup {id}
    BY <1>1, <1>2, <1>8 DEF NoTask
  <2>4. DOMAIN task' = DOMAIN task /\ DOMAIN node = DOMAIN task /\ task' \in Seq(TaskSet) /\ node' \in Seq(NodeSet)
        /\ Len(task') = Len(task) /\ Len(node') = Len(node) /\ DOMAIN task \subseteq Nat \ {0}
        /\ deleted' \subseteq DOMAIN task
    BY <1>1, <1>6, <2>1, <2>3, LenProperties DEF Shape
  <2>5. Mentioned(id)' = 0 /\ Ran(id)' = 0
    <3>1. /\ Mentioned(id) \in Nat /\ Mentioned(id)' \in Nat
          /\ Ran(id) \in Nat /\ Ran(id)' \in Nat
          /\ Mentioned(id)' + IsMention(Top(p), id) = Mentioned(id) + IsMention(f, id)
          /\ Ran(id)' + IsRun(Top(p), id) = Ran(id) + IsRun(f, id)
      BY <1>1, <1>4, <1>6, <2>1, <2>2, SettledCounts
    <3>2. IsMention(Top(p), id) = 0 /\ IsMention(f, id) = 0 /\ IsRun(Top(p), id) = 1 /\ IsRun(f, id) = 0
      BY <1>2, <1>3, <2>1 DEF IsMention, IsRun, Nil, NoTask
    <3>3. PICK a, b : a = Mentioned(id)' /\ b = Ran(id)'
      OBVIOUS
    <3>4. a + 0 = 0 + 0 /\ b + 1 = 1 + 0 /\ a \in Nat /\ b \in Nat
      BY <2>1, <3>1, <3>2, <3>3
    <3>5. a = 0 /\ b = 0
      BY ONLY <3>4
    <3> QED BY <3>3, <3>5
  <2>6. Life(id)'
    <3>1. Gone(id)' /\ task'[id].kind = "pin"
      BY <1>1, <2>1, <2>3 DEF Gone
    <3>2. 0 + 0 = 0
      OBVIOUS
    <3> QED BY <2>5, <3>1, <3>2 DEF Life, IsLoop, Waiting
  <2>7. \A k \in DOMAIN task : k # id => (Gone(k)' <=> Gone(k))
    BY <2>3 DEF Gone
  <2>8. \A k \in DOMAIN task : task[k].kind = "pin" \/ (IsLoop(k) /\ Gone(k)') => node'[k].count = 0
    <3>1. ASSUME NEW k \in DOMAIN task, task[k].kind = "pin" \/ (IsLoop(k) /\ Gone(k)') PROVE node'[k].count = 0
      <4>1. task[k].kind = "pin" \/ (IsLoop(k) /\ Gone(k))
        BY <2>1, <2>7, <3>1
      <4> QED BY <1>1, <1>6, <4>1 DEF TasksOK
    <3> QED BY <3>1
  <2>9. \A k \in DOMAIN task : task'[k].kind = task[k].kind /\ TaskOK(task[k])' /\ (k # id => task'[k] = task[k])
    BY <1>1, <1>6 DEF TasksOK, TaskOK
  <2>10. Shape' /\ FramesOK' /\ TasksOK' /\ Lives' /\ Bounds'
    <3>1. f.at \notin {"enter", "self"} /\ Top(p).at # "self" /\ Top(p).at # "enter" /\ (f = Nil \/ f.id = id)
      BY <1>1, <1>2, <1>4
    <3>2. \A k \in DOMAIN task : node'[k].parent = node[k].parent
      BY <1>1
    <3>3. f # Nil => FrameOK(p, f)' /\ Busy(f)'
      BY <1>2
    <3> QED BY <1>1, <1>2, <1>4, <1>6, <2>1, <2>2, <2>4, <2>6, <2>7, <2>8, <2>9, <3>1, <3>2, <3>3, Settles
  <2>11. Refs'
    <3>1. ASSUME NEW k \in DOMAIN node' PROVE RefsAt(k)'
      <4>1. k \in DOMAIN task /\ k \in Nat \ {0} /\ RefsAt(k)
        BY <1>1, <1>6, <2>4 DEF Refs
      <4>2. node'[k].count = node[k].count /\ Children(k)' = Children(k) /\ Held(k)' = Held(k)
        BY <1>1 DEF Children, Held
      <4>3. Owned(k)' = Owned(k)
        <5>1. CASE k = id
          BY <1>1, <2>1, <5>1 DEF Owned, IsLoop
        <5>2. CASE k # id
          BY <1>1, <2>7, <4>1, <5>2 DEF Owned, IsLoop
        <5> QED BY <5>1, <5>2
      <4>4. Dropped(k)' = Dropped(k)
        <5>1. /\ Dropped(k) \in Nat /\ Dropped(k)' \in Nat
              /\ Dropped(k)' + IsDrop(Top(p), k) = Dropped(k) + IsDrop(f, k)
          BY <1>1, <1>4, <1>6, <2>2, <4>1, SettledCounts
        <5>2. IsDrop(Top(p), k) = 0 /\ IsDrop(f, k) = 0
          BY <1>1, <1>4 DEF IsDrop
        <5> QED BY <5>1, <5>2
      <4> QED BY <4>1, <4>2, <4>3, <4>4, RefsStay
    <3> QED BY <3>1 DEF Refs
  <2> QED BY <1>5, <2>10, <2>11 DEF IInv
<1> QED BY <1>7, <1>8

\* A task for one more thread, which keeps the barrier as well.
LEMMA PushedPins ==
  ASSUME IInv, NEW p \in Procs, stack[p] # <<>>, Top(p).at = "pin", NEW n, n = Top(p).next,
         n \in 1 .. N - 1,
         NEW f, f = [Top(p) EXCEPT !.next = @ + 1], NEW g, Moved(p, f, g), g.at \notin {"pin", "gather"},
         NEW new, new \notin DOMAIN task, DOMAIN task' = DOMAIN task \cup {new}, new \in Nat \ {0},
         \A k \in DOMAIN task : task'[k] = task[k], task'[new].kind = "pin", task'[new].from = n,
         barrier' = [barrier EXCEPT !.refs = @ + 1], deleted' = deleted
  PROVE  Pins'
<1>1. Shape /\ Pins /\ barrier \in [remain : Int, refs : Int]
  BY DEF IInv, Pins
<1>2. /\ barrier' \in [remain : Int, refs : Int]
      /\ barrier'.remain = barrier.remain /\ barrier'.refs = barrier.refs + 1
  BY <1>1
<1>3. PICK e : e = Top(p)
  OBVIOUS
<1>4. e \in PinFrames /\ e \in FrameSet /\ e.at = "pin" /\ e.id = 0 /\ e.next = n
  BY <1>3, PinTop
<1>5. f.at = "pin" /\ f.id = 0 /\ f.next = n + 1
  BY <1>3, <1>4 DEF PinFrames
<1>6. /\ Pinners \in Nat /\ Pinners' \in Nat /\ Pinners' = Pinners
      /\ \A k \in Nat \ {0} : Gathered(k)' = Gathered(k)
  <2>1. /\ Pinners \in Nat /\ Pinners' \in Nat
        /\ Pinners' + IsPinner(e) = Pinners + IsPinner(f) + IsPinner(g)
        /\ \A k \in Nat \ {0} :
              /\ Gathered(k) \in Nat /\ Gathered(k)' \in Nat
              /\ Gathered(k)' + IsGather(e, k) = Gathered(k) + IsGather(f, k) + IsGather(g, k)
    BY <1>3, <1>4, PinTally
  <2>2. IsPinner(e) = 1 /\ IsPinner(f) = 1 /\ IsPinner(g) = 0
    BY <1>4, <1>5 DEF IsPinner
  <2>3. \A k \in Nat \ {0} : IsGather(e, k) = 0 /\ IsGather(f, k) = 0 /\ IsGather(g, k) = 0
    BY <1>4, <1>5 DEF IsGather
  <2>4. Pinners' = Pinners
    <3>1. Pinners' + 1 = Pinners + 1 + 0 /\ Pinners \in Nat /\ Pinners' \in Nat
      BY <2>1, <2>2
    <3>2. PICK a, b : a = Pinners' /\ b = Pinners
      OBVIOUS
    <3>3. a + 1 = b + 1 + 0 /\ a \in Nat /\ b \in Nat
      BY <3>1, <3>2
    <3>4. a = b
      BY ONLY <3>3
    <3> QED BY <3>2, <3>4
  <2>5. ASSUME NEW k \in Nat \ {0} PROVE Gathered(k)' = Gathered(k)
    <3>1. PICK a, b : a = Gathered(k)' /\ b = Gathered(k)
      OBVIOUS
    <3>2. a + 0 = b + 0 + 0 /\ a \in Nat /\ b \in Nat
      BY <2>1, <2>3, <3>1
    <3>3. a = b
      BY ONLY <3>2
    <3> QED BY <3>1, <3>3
  <2> QED BY <2>1, <2>4, <2>5
<1>7. PinTasks' = PinTasks \cup {new} /\ new \notin PinTasks /\ PinTasks \subseteq Nat \ {0} /\ new \notin deleted
  <2>1. DOMAIN task \subseteq Nat \ {0} /\ deleted \subseteq DOMAIN task
    BY <1>1, LenProperties DEF Shape
  <2> QED BY <2>1 DEF PinTasks
\* The constructor is the only thread that is there yet.
<1>8. ASSUME NEW x \in Frames, Frame(x).at = "pin" PROVE x = End(stack, p)
  <2>1. Frame(x) \in PinFrames /\ End(stack, p) \in Frames /\ Frame(End(stack, p)) \in PinFrames
    <3>1. Frame(x) \in FrameSet
      BY <1>1, FrameIn
    <3>2. Frame(x) \in PinFrames
      BY <1>8, <3>1, FrameKinds
    <3> QED BY <1>1, <1>3, <1>4, <3>2, TopFrame
  <2>2. x \in Among(stack, PinFrames) /\ End(stack, p) \in Among(stack, PinFrames) /\ IsFiniteSet(Among(stack, PinFrames))
    BY <1>1, <1>8, <2>1, CountFrames
  <2>3. Cardinality(Among(stack, PinFrames)) <= 1
    BY <1>1 DEF Pins, Pinners, Count
  <2> QED BY ONLY <2>2, <2>3, AtMostOne
<1>9. \A k \in PinTasks : task[k].from < n
  <2>1. End(stack, p) \in Frames /\ Frame(End(stack, p)) = e
    BY <1>1, <1>3, TopFrame
  <2> QED BY <1>1, <1>4, <2>1 DEF Pins
<1>10. ASSUME NEW x \in Frames', Frame(x)'.at = "pin" PROVE Frame(x)'.next = n + 1
  <2>1. \/ x \in Frames /\ x # End(stack, p) /\ Frame(x)' = Frame(x)
        \/ x[1] = p /\ Frame(x)' # Nil /\ (Frame(x)' = f \/ Frame(x)' = g)
    BY DEF Moved
  <2>2. Frame(x)' = f
    BY <1>8, <1>10, <2>1
  <2> QED BY <1>5, <2>2
<1>11. \A k \in PinTasks' : task'[k].from \in 1 .. N - 1 /\ task'[k].from < n + 1
  <2>1. ASSUME NEW k \in PinTasks' PROVE task'[k].from \in 1 .. N - 1 /\ task'[k].from < n + 1
    <3>1. CASE k = new
      BY <3>1
    <3>2. CASE k \in PinTasks
      <4>1. task'[k] = task[k] /\ task[k].from \in 1 .. N - 1 /\ task[k].from < n
        BY <1>1, <1>9, <3>2 DEF Pins, PinTasks
      <4> QED BY <4>1
    <3> QED BY <1>7, <3>1, <3>2
  <2> QED BY <2>1
<1>12. ASSUME NEW i \in PinTasks', NEW k \in PinTasks', task'[i].from = task'[k].from PROVE i = k
  <2>1. ASSUME NEW j \in PinTasks PROVE task'[j] = task[j] /\ task[j].from \in 1 .. N - 1 /\ task[j].from < n
    BY <1>1, <1>9 DEF Pins, PinTasks
  <2>2. task'[new].from = n /\ \A j \in PinTasks : task'[j].from # n
    BY <2>1
  <2>3. CASE i \in PinTasks /\ k \in PinTasks
    BY <1>1, <1>12, <2>1, <2>3 DEF Pins
  <2>4. CASE i = new \/ k = new
    BY <1>7, <1>12, <2>2, <2>4
  <2> QED BY <1>7, <2>3, <2>4
<1>13. Absent' = Absent
  <2>1. Gathered(new) = 0
    <3>1. ASSUME NEW x \in Among(stack, Gathering(new)) PROVE FALSE
      <4>1. x \in Frames /\ Frame(x).at = "gather" /\ Frame(x).id = new
        BY <3>1 DEF Among, Frames, Frame, Item, Gathering
      <4>2. new \in DOMAIN task
        BY <1>1, <4>1, FrameTask DEF IInv
      <4> QED BY <4>2
    <3>2. Among(stack, Gathering(new)) = {}
      BY <3>1
    <3> QED BY <3>2, FS_EmptySet DEF Gathered, Count
  <2>2. ~Noted(new)'
    BY <1>6, <1>7, <2>1 DEF Noted, Gone
  <2>3. ASSUME NEW k \in PinTasks PROVE (Noted(k)' <=> Noted(k)) /\ task'[k] = task[k]
    BY <1>6, <1>7 DEF Noted, Gone, PinTasks
  <2> QED BY <1>7, <2>2, <2>3 DEF Absent
<1>14. barrier'.refs >= Cardinality(PinTasks \ deleted)' + Pinners'
  <2>1. PICK c, d, b, r : /\ c = Cardinality(PinTasks \ deleted) /\ d = Cardinality(PinTasks \ deleted)'
                          /\ b = Pinners /\ r = barrier.refs
    OBVIOUS
  <2>2. IsFiniteSet(PinTasks \ deleted) /\ c \in Nat
    BY <1>1, <2>1, PinsFinite
  <2>3. (PinTasks \ deleted)' = (PinTasks \ deleted) \cup {new} /\ new \notin PinTasks \ deleted
    BY <1>7
  <2>4. d = c + 1
    BY <2>1, <2>2, <2>3, FS_AddElement
  <2>5. r >= c + b /\ r \in Int /\ c \in Nat /\ b \in Nat /\ d = c + 1
    BY <1>1, <1>6, <2>1, <2>2, <2>4 DEF Pins
  <2>6. r + 1 >= d + b
    BY ONLY <2>5
  <2> QED BY <1>2, <1>6, <2>1, <2>6
<1>15. barrier'.remain = Cardinality(Absent')
  BY <1>1, <1>2, <1>13 DEF Pins
<1>16. Pinners' <= 1
  BY <1>1, <1>6 DEF Pins
<1>17. \A x \in Frames' : Frame(x)'.at = "pin" => \A k \in PinTasks' : task'[k].from < Frame(x)'.next
  BY <1>10, <1>11
<1> QED BY <1>2, <1>11, <1>12, <1>14, <1>15, <1>16, <1>17 DEF Pins

LEMMA PushPinKeeps ==
  ASSUME IInv, NEW p \in Procs, PushPin(p), UNCHANGED <<ran, done>>, plan' = plan
  PROVE  IInv'
<1>1. /\ stack[p] # <<>> /\ Top(p).at = "pin" /\ Top(p).next < N /\ deleted' = deleted /\ cpus' = cpus
      /\ barrier' = [barrier EXCEPT !.refs = @ + 1]
      /\ task' = Append(task, PinTask(Top(p).next))
      /\ node' = Append(node, [parent |-> NoTask, count |-> 0])
  BY DEF PushPin, At
<1>2. /\ Shape /\ FramesOK /\ TasksOK /\ Lives /\ Refs /\ Bounds /\ done' = done
  BY DEF IInv
<1>3. PICK e, n, new : e = Top(p) /\ n = Top(p).next /\ new = Fresh
  OBVIOUS
<1>4. /\ Len(task) \in Nat /\ DOMAIN task = 1 .. Len(task) /\ DOMAIN node = 1 .. Len(task) /\ Len(node) = Len(task)
      /\ new = Len(task) + 1 /\ new \in Nat \ {0} /\ new \notin DOMAIN task
  BY <1>2, <1>3, LenProperties DEF Shape, Fresh
<1>5. e \in PinFrames /\ e \in FrameSet /\ e.at = "pin" /\ e.id = 0 /\ e.next = n /\ n \in 1 .. N - 1
  <2>1. e \in PinFrames /\ e \in FrameSet /\ FrameOK(p, e) /\ e.at = "pin" /\ e.id = 0
    BY <1>1, <1>3, PinTop
  <2>2. e.next \in 1 .. N
    BY <2>1 DEF FrameOK
  <2> QED BY <1>1, <1>3, <2>1, <2>2, ShapeAssumption
<1>6. PICK u : u = PinTask(n)
  OBVIOUS
<1>7. u \in TaskSet /\ u.kind = "pin" /\ u.from = n /\ u.to = n /\ u.state = 0 /\ u.share = FALSE /\ u.holds = FALSE
  <2>1. u = [kind |-> "pin", loop |-> 0, from |-> n, to |-> n, lo |-> 0, hi |-> 0, grain |-> 1,
             share |-> FALSE, span |-> FALSE, state |-> 0, holds |-> FALSE]
    BY <1>6 DEF PinTask, Task, NoTask
  <2>2. n \in Nat
    BY <1>5
  <2>3. u \in TaskSet
    BY <2>1, <2>2 DEF TaskSet, Kinds
  <2>4. u.kind = "pin" /\ u.from = n /\ u.to = n /\ u.state = 0
    BY <2>1
  <2>5. u.share = FALSE /\ u.holds = FALSE
    BY <2>1, Zenon
  <2> QED BY <2>3, <2>4, <2>5
<1>8. TaskOK(u)
  BY <1>5, <1>7 DEF TaskOK
<1>9. PICK s : s = task'
  OBVIOUS
<1>10. /\ s \in Seq(TaskSet) /\ Len(s) = new /\ s[new] = u /\ DOMAIN s = DOMAIN task \cup {new}
       /\ \A k \in DOMAIN task : s[k] = task[k]
  <2>1. s = Append(task, u)
    BY <1>1, <1>3, <1>6, <1>9
  <2> QED BY <1>2, <1>4, <1>7, <2>1, Appended DEF Shape
<1>11. PICK v : v = [parent |-> NoTask, count |-> 0]
  OBVIOUS
<1>12. v \in NodeSet /\ v.parent = 0 /\ v.count = 0 /\ node' = Append(node, v)
  BY <1>1, <1>11 DEF NodeSet, NoTask
<1>13. /\ node' \in Seq(NodeSet) /\ Len(node') = new /\ node'[new] = v /\ \A k \in DOMAIN node : node'[k] = node[k]
       /\ \A m : Cardinality(Children(m)') = Cardinality(Children(m))
  <2>1. \A k \in DOMAIN node : node[k].parent = node[k].parent /\ (node[k].count > 0 <=> node[k].count > 0)
    OBVIOUS
  <2>2. node \in Seq(NodeSet) /\ Len(node) = Len(node) /\ new = Len(node) + 1
    BY <1>2, <1>4 DEF Shape
  <2>3. \A m : ~(v.parent = m /\ v.count > 0)
    BY <1>12
  <2> QED BY <1>2, <1>12, <2>1, <2>2, <2>3, ChildrenAppend
<1>14. PICK f : f = [e EXCEPT !.next = @ + 1]
  OBVIOUS
<1>15. f \in FrameSet /\ f.at = "pin" /\ f.id = 0 /\ f.next = n + 1
  BY <1>5, <1>14 DEF FrameSet, PinFrames
<1>16. PICK q, kind : q = n % N /\ kind = "pin"
  OBVIOUS
<1>17. q \in Pool /\ kind \in Queueable
  BY <1>5, <1>16, ShapeAssumption DEF Pool, Queueable
<1>18. PushTask(p, q, new, f) \/ ExecuteTask(p, q, new, kind, f)
  BY <1>3, <1>14, <1>16 DEF PushPin, RunOnThread, PushTask, ExecuteTask, Becomes
<1>19. PICK i, g : Moved(p, f, g) /\ QueueStep(i, 0) /\ Sent(new, kind, i, g)
  BY <1>1, <1>2, <1>4, <1>15, <1>17, <1>18, Pushed
<1>20. /\ \A k \in Nat \ {0} : /\ IsMention(g, k) + Same(k, i) + IsRun(g, k) = Same(k, new)
                               /\ IsMention(g, k) \in Nat /\ Same(k, i) \in Nat /\ IsRun(g, k) \in Nat
                               /\ IsDrop(g, k) = 0
       /\ g.at \notin {"release", "pin", "gather"}
  BY <1>4, <1>17, <1>19, SentWeight
<1>21. \A k \in Nat \ {0} : k # new => Even(Top(p), f, g, i, 0, k)
  <2>1. ASSUME NEW k \in Nat \ {0}, k # new PROVE Even(Top(p), f, g, i, 0, k)
    <3>1. /\ IsMention(g, k) + Same(k, i) + IsRun(g, k) = 0
          /\ IsMention(g, k) \in Nat /\ Same(k, i) \in Nat /\ IsRun(g, k) \in Nat /\ IsDrop(g, k) = 0
      BY <1>20, <2>1 DEF Same
    <3>2. IsMention(g, k) = 0 /\ Same(k, i) = 0 /\ IsRun(g, k) = 0
      BY ONLY <3>1
    <3>3. /\ IsMention(Top(p), k) = 0 /\ IsRun(Top(p), k) = 0 /\ IsDrop(Top(p), k) = 0
          /\ IsMention(f, k) = 0 /\ IsRun(f, k) = 0 /\ IsDrop(f, k) = 0 /\ Same(k, 0) = 0
      BY <1>3, <1>5, <1>15 DEF IsMention, IsRun, IsDrop, Same
    <3> QED BY <3>1, <3>2, <3>3 DEF Even
  <2> QED BY <2>1
<1>22. Fits(u.kind, IsMention(f, new) + IsMention(g, new) + Same(new, i), IsRun(f, new) + IsRun(g, new))
  <2>1. PICK a, b, c : a = IsMention(g, new) /\ b = Same(new, i) /\ c = IsRun(g, new)
    OBVIOUS
  <2>2. a + b + c = 1 /\ a \in Nat /\ b \in Nat /\ c \in Nat
    BY <1>4, <1>20, <2>1 DEF Same
  <2>3. IsMention(f, new) = 0 /\ IsRun(f, new) = 0
    BY <1>4, <1>15 DEF IsMention, IsRun
  <2>4. (0 + a + b) + (0 + c) = 1
    BY ONLY <2>2
  <2>5. Fits(u.kind, 0 + a + b, 0 + c)
    BY <1>7, <2>4 DEF Fits
  <2> QED BY <2>1, <2>3, <2>5
<1>23. FrameOK(p, f)' /\ Busy(f)'
  <2>1. f.id \in 0 .. Len(task') /\ f.next \in 1 .. N
    BY <1>4, <1>5, <1>9, <1>10, <1>15, ShapeAssumption
  <2> QED BY <1>15, <2>1 DEF FrameOK, Busy, InTask, LoopLabels, Bodies
<1>24. g # Nil => FrameOK(p, g)' /\ Busy(g)'
  <2>1. new <= Len(task') /\ Len(task') \in Nat /\ task'[new].kind = kind /\ kind # "unique"
    BY <1>4, <1>7, <1>9, <1>10, <1>16
  <2> QED BY <1>4, <1>17, <1>19, <2>1, SentFrame
<1>25. \A k \in DOMAIN task : Onward(k) /\ (task'[k] = task[k] \/ k = Top(p).id)
  BY <1>2, <1>9, <1>10 DEF Onward, TasksOK, TaskOK
<1>26. /\ Shape' /\ FramesOK' /\ TasksOK' /\ Lives'
       /\ DOMAIN task' = DOMAIN task \cup {new}
       /\ \A k \in Nat \ {0} : Dropped(k)' = Dropped(k)
       /\ Dropped(new) = 0
  <2>1. f # Nil /\ g.at # "release" /\ f.at # "release" /\ Top(p).at \notin {"enter", "release"}
    BY <1>1, <1>15, <1>20, NilIsNone
  <2>2. task' \in Seq(TaskSet) /\ Len(task') = new /\ u = task'[new] /\ v = node'[new]
    BY <1>9, <1>10, <1>13
  <2>3. \A k \in DOMAIN task : /\ node'[k].parent = node[k].parent
                               /\ node'[k].count = node[k].count \/ (task[k].kind # "pin" /\ ~Gone(k))
    BY <1>4, <1>13
  <2>4. /\ v.parent < new /\ (v.parent = 0 <=> u.kind \in {"root", "inner", "pin"}) /\ (u.kind = "pin" => v.count = 0)
    BY <1>4, <1>7, <1>12
  <2>5. u.holds \/ u.kind = "pin"
    BY <1>7
  <2>6. stack[p] # <<>> /\ deleted' = deleted /\ u.state = 0 /\ node' \in Seq(NodeSet) /\ Len(node') = new
    BY <1>1, <1>7, <1>13
  <2> QED BY <1>4, <1>8, <1>19, <1>21, <1>22, <1>23, <1>24, <1>25,
             <2>1, <2>2, <2>3, <2>4, <2>5, <2>6, Births
<1>27. Refs'
  <2>1. ASSUME NEW m \in DOMAIN node PROVE RefsAt(m)'
    <3>1. RefsAt(m) /\ m \in Nat \ {0} /\ m \in DOMAIN task
      BY <1>2, <1>4 DEF Refs
    <3>2. Dropped(m)' = Dropped(m) /\ Cardinality(Children(m)') = Cardinality(Children(m)) /\ node'[m].count = node[m].count
      BY <1>13, <1>26, <3>1
    <3>3. Held(m)' = Held(m) /\ Owned(m)' = Owned(m)
      BY <1>1, <1>9, <1>10, <3>1 DEF Held, Owned, IsLoop, Gone
    <3> QED BY <3>1, <3>2, <3>3 DEF RefsAt
  <2>2. RefsAt(new)'
    <3>1. Cardinality(Children(new)) = 0
      BY <1>2, <1>4, Childless
    <3>2. Cardinality(Children(new)') = 0
      BY <1>13, <3>1
    <3>3. Dropped(new)' = 0
      BY <1>4, <1>26
    <3>4. task'[new] = u
      BY <1>9, <1>10
    <3>5. Held(new)' = 0 /\ Owned(new)' = 0
      BY <1>7, <3>4 DEF Held, Owned, IsLoop
    <3>6. node'[new].count = 0
      BY <1>12, <1>13
    <3> QED BY <3>2, <3>3, <3>5, <3>6 DEF RefsAt
  <2>3. \A m \in DOMAIN node' : m \in DOMAIN node \/ m = new
    BY <1>4, <1>13
  <2> QED BY <2>1, <2>2, <2>3 DEF Refs
<1>28. Pins'
  <2>1. f = [Top(p) EXCEPT !.next = @ + 1]
    BY <1>3, <1>14
  <2>2. (\A k \in DOMAIN task : task'[k] = task[k]) /\ task'[new].kind = "pin" /\ task'[new].from = n
    BY <1>7, <1>9, <1>10
  <2>3. g.at \notin {"pin", "gather"}
    BY <1>20
  <2> QED BY <1>1, <1>3, <1>4, <1>5, <1>19, <1>26, <2>1, <2>2, <2>3, PushedPins
<1>29. Bounds'
  <2>1. done' \in BOOLEAN /\ cpus' \in [Pool -> SUBSET (0 .. N - 1)]
    BY <1>1, <1>2 DEF Bounds
  <2> QED BY <1>19, <2>1, BoundsStay
<1> QED BY <1>26, <1>27, <1>28, <1>29 DEF IInv

-----------------------------------------------------------------------------
(* At the start.                                                           *)

LEMMA StartFrames ==
  ASSUME Init, NEW p \in Procs, NEW s, s = Start(p)
  PROVE  /\ s \in Seq(FrameSet)
         /\ \A k \in DOMAIN s : /\ s[k].id = 0 /\ s[k].at \in {"main", "pop", "pin"} /\ FrameOK(p, s[k]) /\ Busy(s[k])
                                /\ s[k].at = "pin" => p = 0 /\ k = 2 /\ s[k].next = 1
                                /\ s[k].at \notin {"enter", "self", "release", "gather"}
<1>1. plan \in Plans /\ GoodPlan(plan) /\ N \in Nat \ {0} /\ task = <<>> /\ Len(task) = 0
  BY ShapeAssumption, EmptySeq DEF Init
<1>2. PICK m, c, l, empty : m = MainFrame(plan.calls[p]) /\ c = PinFrame(1) /\ l = LoopFrame(NoTask, "pop", empty) /\ empty = FALSE
  OBVIOUS
<1>3. c \in FrameSet /\ c.id = 0 /\ c.at = "pin" /\ c.next = 1 /\ FrameOK(p, c) /\ Busy(c)
  <2>1. c = [at |-> "pin", id |-> 0, next |-> 1]
    BY <1>2 DEF PinFrame, NoTask
  <2>2. c \in FrameSet /\ c.id = 0 /\ c.at = "pin" /\ c.next = 1
    BY <2>1 DEF FrameSet, PinFrames
  <2>3. c.id \in 0 .. Len(task) /\ c.next \in 1 .. N
    BY <1>1, <2>2
  <2> QED BY <2>2, <2>3 DEF FrameOK, Busy, InTask, LoopLabels, Bodies
<1>4. ASSUME p \in Pool PROVE l \in FrameSet /\ l.id = 0 /\ l.at = "pop" /\ FrameOK(p, l) /\ Busy(l)
  <2>1. l = [at |-> "pop", id |-> 0, empty |-> empty, left |-> 0, victim |-> 0, inc |-> 0]
    BY <1>2 DEF LoopFrame, NoTask
  <2>2. empty \in BOOLEAN
    BY <1>2
  <2>3. l \in LoopFrames /\ l.id = 0 /\ l.at = "pop" /\ l.victim = 0 /\ l.inc = 0
    BY <2>1, <2>2 DEF LoopFrames, LoopLabels
  <2>4. l.id \in 0 .. Len(task) /\ l.victim \in Pool /\ l.inc <= N
    BY <1>1, <2>3 DEF Pool
  <2> QED BY <1>4, <2>3, <2>4 DEF FrameSet, FrameOK, Busy, InTask, LoopLabels, Bodies
<1>5. ASSUME p \in Callers PROVE m \in FrameSet /\ m.id = 0 /\ m.at = "main" /\ FrameOK(p, m) /\ Busy(m)
  <2>1. plan.calls[p] \in Nat
    BY <1>1, <1>5 DEF GoodPlan
  <2>2. m = [at |-> "main", id |-> 0, calls |-> plan.calls[p]]
    BY <1>2 DEF MainFrame, NoTask
  <2>3. m \in FrameSet /\ m.id = 0 /\ m.at = "main"
    BY <2>1, <2>2 DEF FrameSet, MainFrames
  <2>4. m.id \in 0 .. Len(task)
    BY <1>1, <2>3
  <2> QED BY <2>3, <2>4 DEF FrameOK, Busy, InTask, LoopLabels, Bodies
<1>6. \/ s = <<m, c>> /\ p = 0 /\ p \in Callers
      \/ s = <<m>> /\ p \in Callers
      \/ s = <<l>> /\ p \in Pool
      \/ s = <<>>
  BY <1>2 DEF Start, Callers
<1>7. CASE s = <<m, c>> /\ p = 0 /\ p \in Callers
  <2>1. DOMAIN s = {1, 2} /\ s[1] = m /\ s[2] = c
    BY <1>7
  <2>2. s \in Seq(FrameSet)
    BY <1>3, <1>5, <1>7
  <2> QED BY <1>3, <1>5, <1>7, <2>1, <2>2
<1>8. CASE s = <<m>> /\ p \in Callers
  <2>1. DOMAIN s = {1} /\ s[1] = m
    BY <1>8
  <2>2. s \in Seq(FrameSet)
    BY <1>5, <1>8
  <2> QED BY <1>5, <1>8, <2>1, <2>2
<1>9. CASE s = <<l>> /\ p \in Pool
  <2>1. DOMAIN s = {1} /\ s[1] = l
    BY <1>9
  <2>2. s \in Seq(FrameSet)
    BY <1>4, <1>9
  <2> QED BY <1>4, <1>9, <2>1, <2>2
<1>10. CASE s = <<>>
  BY <1>10
<1> QED BY <1>6, <1>7, <1>8, <1>9, <1>10

LEMMA InitShape == ASSUME Init PROVE Shape /\ TasksOK /\ Bounds /\ DOMAIN task = {} /\ DOMAIN node = {}
<1>1. /\ plan \in Plans /\ stack = [p \in Procs |-> Start(p)]
      /\ local = [p \in Pool |-> <<>>] /\ mail = [p \in Pool |-> <<>>]
      /\ task = <<>> /\ node = <<>> /\ deleted = {} /\ done = FALSE /\ cpus = [p \in Pool |-> 0 .. N - 1]
  BY DEF Init
<1>2. stack \in [Procs -> Seq(FrameSet)]
  <2>1. \A p \in Procs : Start(p) \in Seq(FrameSet)
    BY StartFrames
  <2> QED BY <1>1, <2>1
<1>3. <<>> \in Seq(Nat \ {0}) /\ <<>> \in Seq(TaskSet) /\ <<>> \in Seq(NodeSet) /\ Len(<<>>) = 0
  BY EmptySeq
<1>4. DOMAIN task = {} /\ DOMAIN node = {}
  BY <1>1
<1>5. local \in [Pool -> Seq(Nat \ {0})] /\ mail \in [Pool -> Seq(Nat \ {0})]
  BY <1>1, <1>3
<1>6. Shape
  BY <1>1, <1>2, <1>3, <1>5 DEF Shape
<1>7. TasksOK
  BY <1>4 DEF TasksOK
<1>8. Bounds
  <2>1. \A q \in Pool : local[q] = <<>> /\ mail[q] = <<>>
    BY <1>1
  <2>2. \A q \in Pool : Len(local[q]) <= QueueCap /\ Len(mail[q]) <= MailCap
    BY <1>3, <2>1, ShapeAssumption
  <2>3. cpus \in [Pool -> SUBSET (0 .. N - 1)] /\ done \in BOOLEAN
    BY <1>1
  <2> QED BY <2>2, <2>3 DEF Bounds
<1> QED BY <1>4, <1>6, <1>7, <1>8

LEMMA InitFrames ==
  ASSUME Init, NEW x \in Frames
  PROVE  /\ Frame(x).id = 0 /\ Frame(x).at \in {"main", "pop", "pin"} /\ FrameOK(x[1], Frame(x)) /\ Busy(Frame(x))
         /\ Frame(x).at = "pin" => x = <<0, 2>> /\ Frame(x).next = 1
         /\ Frame(x).at \notin {"enter", "self", "release", "gather"}
<1>1. stack \in [Procs -> Seq(FrameSet)]
  BY InitShape DEF Shape
<1>2. PICK p \in Procs : \E k \in 1 .. Len(stack[p]) : x = <<p, k>>
  BY <1>1, PlaceOf DEF Frames
<1>3. PICK k \in 1 .. Len(stack[p]) : x = <<p, k>>
  BY <1>2
<1>4. PICK s : s = Start(p)
  OBVIOUS
<1>5. stack[p] = s /\ k \in DOMAIN s
  <2>1. stack[p] = s
    BY <1>4 DEF Init
  <2>2. DOMAIN stack[p] = 1 .. Len(stack[p])
    BY <1>1
  <2> QED BY <2>1, <2>2
<1>6. /\ s[k].id = 0 /\ s[k].at \in {"main", "pop", "pin"} /\ FrameOK(p, s[k]) /\ Busy(s[k])
      /\ s[k].at = "pin" => p = 0 /\ k = 2 /\ s[k].next = 1
      /\ s[k].at \notin {"enter", "self", "release", "gather"}
  BY <1>4, <1>5, StartFrames
<1>7. x[1] = p /\ Frame(x) = s[k]
  BY <1>3, <1>5 DEF Frame
<1> QED BY <1>3, <1>6, <1>7

LEMMA NoneThere == ASSUME NEW f, NEW A, Among(f, A) = {} PROVE Count(f, A) = 0
BY FS_EmptySet DEF Count

LEMMA InitInvariant == ASSUME Init PROVE IInv
<1>1. Shape /\ TasksOK /\ Bounds /\ DOMAIN task = {} /\ DOMAIN node = {}
  BY InitShape
<1>2. FramesOK
  BY InitFrames DEF FramesOK
<1>3. ASSUME NEW k \in Nat \ {0} PROVE LifeAt(k)
  <2>1. \A x \in Frames : /\ Frame(x) \notin Entering(k) /\ Frame(x) \notin Handing(k)
                          /\ Frame(x) \notin Runs(k) /\ Frame(x) \notin Dropping(k)
    BY InitFrames DEF Entering, Handing, Runs, Dropping
  <2>2. /\ Among(stack, Entering(k)) = {} /\ Among(stack, Handing(k)) = {}
        /\ Among(stack, Runs(k)) = {} /\ Among(stack, Dropping(k)) = {}
    BY <2>1 DEF Among, Item, Frames, Frame
  <2>3. /\ Count(stack, Entering(k)) = 0 /\ Count(stack, Handing(k)) = 0
        /\ Count(stack, Runs(k)) = 0 /\ Count(stack, Dropping(k)) = 0
    BY <2>2, NoneThere
  <2>4. Among(local, {k}) = {} /\ Among(mail, {k}) = {}
    <3>1. DOMAIN local = Pool /\ DOMAIN mail = Pool /\ \A q \in Pool : DOMAIN local[q] = {} /\ DOMAIN mail[q] = {}
      BY DEF Init
    <3> QED BY <3>1 DEF Among, Places
  <2>5. Count(local, {k}) = 0 /\ Count(mail, {k}) = 0
    BY <2>4, NoneThere
  <2>6. InQueues(k) = 0 /\ Carried(k) = 0 /\ Ran(k) = 0 /\ Dropped(k) = 0
    BY <2>3, <2>5 DEF InQueues, Carried, Ran, Dropped
  <2>7. Mentioned(k) = 0
    BY <2>6 DEF Mentioned
  <2> QED BY <1>1, <2>6, <2>7 DEF LifeAt, Unborn
<1>4. Refs
  BY <1>1 DEF Refs
<1>5. Pins
  <2>1. barrier = [remain |-> N - 1, refs |-> 1] /\ PinTasks = {}
    BY <1>1 DEF Init, PinTasks
  <2>2. barrier \in [remain : Int, refs : Int] /\ barrier.refs = 1 /\ barrier.remain = N - 1
    BY <2>1, ShapeAssumption
  <2>3. Pinners \in Nat /\ Pinners <= 1
    <3>1. Among(stack, PinFrames) \subseteq {<<0, 2>>}
      <4>1. ASSUME NEW x \in Among(stack, PinFrames) PROVE x = <<0, 2>>
        <5>1. x \in Frames /\ Frame(x) \in PinFrames
          BY <4>1 DEF Among, Item, Frames, Frame
        <5>2. Frame(x).at = "pin"
          BY <5>1, InitFrames DEF PinFrames
        <5> QED BY <5>1, <5>2, InitFrames
      <4> QED BY <4>1
    <3>2. IsFiniteSet({<<0, 2>>}) /\ Cardinality({<<0, 2>>}) = 1
      BY FS_Singleton
    <3>3. Count(stack, PinFrames) <= 1
      BY <3>1, <3>2, FS_Subset DEF Count
    <3> QED BY <1>1, <3>3, Tallies DEF Pinners
  <2>4. Cardinality(PinTasks \ deleted) = 0
    <3>1. PinTasks \ deleted = {}
      BY <2>1
    <3> QED BY <3>1, FS_EmptySet
  <2>5. Cardinality(Absent) = N - 1
    <3>1. Absent = 1 .. N - 1
      BY <2>1 DEF Absent
    <3>2. PICK m : m = N - 1
      OBVIOUS
    <3>3. m \in Nat
      BY <3>2, ShapeAssumption
    <3>4. Cardinality(1 .. m) = m
      <4>1. 1 \in Int /\ m \in Int /\ (1 > m => m = 0) /\ m - 1 + 1 = m
        BY ONLY <3>3
      <4> QED BY ONLY <4>1, FS_Interval
    <3> QED BY <3>1, <3>2, <3>4
  <2>6. barrier.refs >= Cardinality(PinTasks \ deleted) + Pinners
    <3>1. PICK a : a = Pinners
      OBVIOUS
    <3>2. 1 >= 0 + a
      BY <2>3, <3>1
    <3> QED BY <2>2, <2>4, <3>1, <3>2
  <2> QED BY <2>1, <2>2, <2>3, <2>5, <2>6 DEF Pins
<1> QED BY <1>1, <1>2, <1>3, <1>4, <1>5 DEF IInv, Lives

-----------------------------------------------------------------------------
(* The invariant and the properties of the runs.                           *)

LEMMA StutterKeeps == ASSUME IInv, UNCHANGED vars PROVE IInv'
<1>1. UNCHANGED <<stack, local, mail, task, node, deleted, done, cpus, barrier, plan>>
  BY DEF vars, queues, objects
<1>2. Frames' = Frames /\ \A x : Frame(x)' = Frame(x)
  BY <1>1 DEF Frames, Frame
<1>3. Shape' /\ Bounds'
  BY <1>1 DEF IInv, Shape, Bounds
<1>4. FramesOK'
  BY <1>1, <1>2 DEF IInv, FramesOK, FrameOK, Busy, IsLoop
<1>5. TasksOK'
  BY <1>1 DEF IInv, TasksOK, TaskOK, Rootless, IsLoop, Gone
<1>6. /\ \A k : Mentioned(k)' = Mentioned(k) /\ Ran(k)' = Ran(k) /\ Dropped(k)' = Dropped(k)
      /\ \A k : Gathered(k)' = Gathered(k)
      /\ Pinners' = Pinners
  BY <1>1 DEF Mentioned, InQueues, Carried, Ran, Dropped, Gathered, Pinners
<1>7. Lives'
  <2>1. \A k \in Nat \ {0} : LifeAt(k)'
    BY <1>1, <1>6 DEF IInv, Lives, LifeAt, Life, Unborn, IsLoop, Gone, Proxy, Waiting
  <2> QED BY <2>1 DEF Lives
<1>8. Refs'
  BY <1>1, <1>6 DEF IInv, Refs, RefsAt, Children, Held, Owned, IsLoop, Gone
<1>9. PinTasks' = PinTasks /\ Absent' = Absent
  BY <1>1, <1>6 DEF PinTasks, Absent, Noted, Gone
<1>10. Cardinality(PinTasks \ deleted)' = Cardinality(PinTasks \ deleted) /\ Cardinality(Absent)' = Cardinality(Absent)
  BY <1>1, <1>9
<1>11. Pins'
  BY <1>1, <1>2, <1>6, <1>9, <1>10 DEF IInv, Pins
<1> QED BY <1>3, <1>4, <1>5, <1>7, <1>8, <1>11 DEF IInv

LEMMA WorkKeeps == ASSUME IInv, NEW p \in Procs, Work(p), UNCHANGED <<cpus, barrier, plan>> PROVE IInv'
<1>1. CASE CallLoop(p)       BY <1>1, CallLoopKeeps
<1>2. CASE Exit(p)           BY <1>2, ExitKeeps
<1>3. CASE Distribute(p)     BY <1>3, DistributeKeeps
<1>4. CASE Hand(p)           BY <1>4, HandKeeps
<1>5. CASE HandToSelf(p)     BY <1>5, HandToSelfKeeps
<1>6. CASE Span(p)           BY <1>6, SpanKeeps
<1>7. CASE Split(p)          BY <1>7, SplitKeeps
<1>8. CASE Rest(p)           BY <1>8, RestKeeps
<1>9. CASE FinishBody(p)     BY <1>9, FinishBodyKeeps
<1>10. CASE Release(p)       BY <1>10, ReleaseKeeps
<1>11. CASE Enter(p)         BY <1>11, EnterKeeps
<1>12. CASE Leave(p)         BY <1>12, LeaveKeeps
<1>13. CASE Join(p)          BY <1>13, JoinKeeps
<1>14. CASE TakeLocalFront(p) BY <1>14, TakeLocalFrontKeeps
<1>15. CASE TakeMail(p)      BY <1>15, TakeMailKeeps
<1>16. CASE StealMail(p)     BY <1>16, StealMailKeeps
<1>17. CASE StealLocalBack(p) BY <1>17, StealLocalBackKeeps
<1>18. CASE NothingFound(p)  BY <1>18, NothingFoundKeeps
<1> QED BY <1>1, <1>2, <1>3, <1>4, <1>5, <1>6, <1>7, <1>8, <1>9, <1>10, <1>11, <1>12, <1>13, <1>14,
           <1>15, <1>16, <1>17, <1>18 DEF Work

LEMMA PinningKeeps ==
  ASSUME IInv, NEW p \in Procs, Pinning(p), UNCHANGED <<ran, done>>, plan' = plan PROVE IInv'
BY PushPinKeeps, PinMainKeeps, PinMeKeeps, NotifyKeeps, GatherKeeps DEF Pinning

\* IInv, what the counts of tasks, pointers and frames have to do with each
\* other, in every state of every program.
THEOREM Invariant == Spec => []IInv
<1>1. Init => IInv
  BY InitInvariant
<1>2. ASSUME IInv, [Next]_vars PROVE IInv'
  <2>1. CASE UNCHANGED vars
    BY <1>2, <2>1, StutterKeeps
  <2>2. ASSUME NEW p \in Procs, Step(p) PROVE IInv'
    <3>1. CASE Work(p) /\ UNCHANGED <<cpus, barrier>>
      <4>1. Work(p) /\ UNCHANGED <<cpus, barrier, plan>>
        BY <2>2, <3>1 DEF Step
      <4> QED BY <1>2, <4>1, WorkKeeps
    <3>2. CASE Pinning(p) /\ UNCHANGED <<ran, done>>
      <4>1. Pinning(p) /\ UNCHANGED <<ran, done>> /\ plan' = plan
        BY <2>2, <3>2 DEF Step
      <4> QED BY <1>2, <4>1, PinningKeeps
    <3> QED BY <2>2, <3>1, <3>2 DEF Step
  <2>3. CASE Ended
    BY <1>2, <2>3, StutterKeeps DEF Ended
  <2> QED BY <1>2, <2>1, <2>2, <2>3 DEF Next
<1> QED BY <1>1, <1>2, PTL DEF Spec

LEMMA TypeFromInvariant == ASSUME IInv PROVE TypeOK
<1>1. Shape /\ FramesOK /\ Bounds /\ Pins
  BY DEF IInv
<1>2. ASSUME NEW x \in Frames PROVE Frame(x).at \in Labels /\ Frame(x).id \in 0 .. Len(task)
  <2>1. Frame(x) \in FrameSet /\ FrameOK(x[1], Frame(x))
    BY <1>1, FrameIn DEF FramesOK
  <2>2. Frame(x).at \in Labels
    BY <2>1 DEF FrameSet, TaskFrames, LoopFrames, MainFrames, PinFrames, TaskLabels, LoopLabels, InTask,
       Labels
  <2> QED BY <2>1, <2>2 DEF FrameOK
<1>3. barrier.remain \in 0 .. N - 1
  <2>1. PICK m : m = N - 1
    OBVIOUS
  <2>2. m \in Nat
    BY <2>1, ShapeAssumption
  <2>3. IsFiniteSet(1 .. m) /\ Cardinality(1 .. m) = m
    <3>1. 1 \in Int /\ m \in Int /\ (1 > m => m = 0) /\ m - 1 + 1 = m
      BY ONLY <2>2
    <3> QED BY ONLY <3>1, FS_Interval
  <2>4. Absent \subseteq 1 .. m
    BY <2>1 DEF Absent
  <2>5. Cardinality(Absent) <= m /\ Cardinality(Absent) \in Nat
    BY <2>3, <2>4, FS_Subset, FS_CardinalityType
  <2> QED BY <1>1, <2>1, <2>2, <2>5 DEF Pins
<1> QED BY <1>1, <1>2, <1>3 DEF TypeOK, Shape, Bounds

\* The cardinalities of the properties are the counts of the invariant.
LEMMA CountedFrames ==
  ASSUME Shape, NEW k
  PROVE  /\ Cardinality({x \in Frames : Frame(x).at = "release" /\ Frame(x).ptr = k}) = Dropped(k)
         /\ Cardinality({x \in Frames : Frame(x).at = "enter" /\ Frame(x).id = k}) = Count(stack, Entering(k))
         /\ Cardinality({x \in Frames : Frame(x).at = "self" /\ Frame(x).ptr = k}) = Count(stack, Handing(k))
<1>1. \A x \in Frames : Frame(x) \in FrameSet
  BY FrameIn
<1>2. \A A : Among(stack, A) = {x \in Frames : Frame(x) \in A}
  BY DEF Among, Item, Frames, Frame
<1>3. /\ Among(stack, Dropping(k)) = {x \in Frames : Frame(x).at = "release" /\ Frame(x).ptr = k}
      /\ Among(stack, Entering(k)) = {x \in Frames : Frame(x).at = "enter" /\ Frame(x).id = k}
      /\ Among(stack, Handing(k)) = {x \in Frames : Frame(x).at = "self" /\ Frame(x).ptr = k}
  BY <1>1, <1>2 DEF Dropping, Entering, Handing
<1> QED BY <1>3 DEF Dropped, Count

LEMMA RefsFromInvariant == ASSUME IInv PROVE RefCounts
<1>1. Shape /\ Refs /\ DOMAIN node = DOMAIN task
  BY LenProperties DEF IInv, Shape
<1>2. ASSUME NEW n \in DOMAIN node PROVE node[n].count = Pointers(n)
  <2>1. RefsAt(n) /\ n \in DOMAIN task
    BY <1>1 DEF Refs
  <2>2. Cardinality({x \in Frames : Frame(x).at = "release" /\ Frame(x).ptr = n}) = Dropped(n)
    BY <1>1, CountedFrames
  <2>3. Held(n) = (IF task[n].holds THEN 1 ELSE 0) /\ Owned(n) = (IF n \in Open THEN 1 ELSE 0)
    BY <2>1 DEF Held, Owned, Open, Gone
  <2> QED BY <2>1, <2>2, <2>3 DEF RefsAt, Children, Pointers
<1> QED BY <1>2 DEF RefCounts

\* What is in a queue, and the proxy a thread has in hand, are waiting to be run.
LEMMA QueuedMentioned == ASSUME Shape, NEW id \in Queued PROVE id \in Nat \ {0} /\ Mentioned(id) > 0
<1>1. PICK q \in Pool : id \in Range(local[q]) \/ id \in Range(mail[q])
  BY DEF Queued
<1>2. /\ Rows(Pool, Nat \ {0}, local) /\ Rows(Pool, Nat \ {0}, mail)
      /\ local \in [Pool -> Seq(Nat \ {0})] /\ mail \in [Pool -> Seq(Nat \ {0})]
  BY QueueRows DEF Shape
<1>3. ASSUME NEW f, Rows(Pool, Nat \ {0}, f), f \in [Pool -> Seq(Nat \ {0})], id \in Range(f[q])
      PROVE  id \in Nat \ {0} /\ Count(f, {id}) > 0
  <2>1. PICK k \in DOMAIN f[q] : id = f[q][k]
    BY <1>3 DEF Range
  <2>2. k \in 1 .. Len(f[q]) /\ id \in Nat \ {0}
    BY <1>3, <2>1, ElementOfSeq
  <2>3. <<q, k>> \in Among(f, {id})
    <3>1. <<q, k>> \in Places(f)
      BY <1>3, <2>2, PlaceOf
    <3>2. Item(f, <<q, k>>) = id
      BY <2>1 DEF Item
    <3> QED BY <3>1, <3>2 DEF Among
  <2>4. IsFiniteSet(Among(f, {id})) /\ Count(f, {id}) \in Nat
    BY <1>3, CountType
  <2>5. Count(f, {id}) # 0
    BY <2>3, <2>4, FS_EmptySet DEF Count
  <2> QED BY <2>2, <2>4, <2>5
<1>4. id \in Nat \ {0} /\ (Count(local, {id}) > 0 \/ Count(mail, {id}) > 0)
  BY <1>1, <1>2, <1>3
<1>5. PICK a, b, c : a = Count(local, {id}) /\ b = Count(mail, {id}) /\ c = Carried(id)
  OBVIOUS
<1>6. a \in Nat /\ b \in Nat /\ c \in Nat /\ (a > 0 \/ b > 0)
  BY <1>4, <1>5, QueueRows, Tallies
<1>7. a + b + c > 0
  BY ONLY <1>6
<1> QED BY <1>4, <1>5, <1>7 DEF Mentioned, InQueues

LEMMA HandedMentioned == ASSUME Shape, NEW x \in Frames, Frame(x).at = "self", NEW id, Frame(x).ptr = id
                         PROVE  Mentioned(id) > 0
<1>1. Frame(x) \in Handing(id)
  BY FrameIn DEF Handing
<1>2. Count(stack, Handing(id)) >= 1
  BY <1>1, CountFrames
<1>3. PICK a, b, c : a = InQueues(id) /\ b = Count(stack, Entering(id)) /\ c = Count(stack, Handing(id))
  OBVIOUS
<1>4. a \in Nat /\ b \in Nat /\ c \in Nat /\ c >= 1
  BY <1>2, <1>3, CountFrames, Tallies
<1>5. a + (b + c) > 0
  BY ONLY <1>4
<1> QED BY <1>3, <1>5 DEF Mentioned, Carried

LEMMA SafeFromInvariant == ASSUME IInv PROVE NoUseAfterFree
<1>1. Shape /\ FramesOK /\ Lives /\ Refs /\ Pins
  BY DEF IInv
<1>2. DOMAIN node = DOMAIN task /\ DOMAIN task \subseteq Nat \ {0} /\ deleted \subseteq DOMAIN task
  BY <1>1, LenProperties DEF Shape
<1>3. Queued \cap deleted = {}
  BY <1>1, QueuedMentioned, RanOnce DEF Gone
<1>4. ASSUME NEW n \in DOMAIN task, Dropped(n) > 0 \/ task[n].holds \/ (IsLoop(n) /\ ~Gone(n))
      PROVE  node[n].count > 0
  <2>1. PICK a, b, c, d : a = Cardinality(Children(n)) /\ b = Dropped(n) /\ c = Held(n) /\ d = Owned(n)
    OBVIOUS
  <2>2. a \in Nat /\ b \in Nat /\ c \in Nat /\ d \in Nat /\ node[n].count = a + b + c + d
    BY <1>1, <1>2, <2>1, ChildrenFinite, Tallies DEF Refs, RefsAt, Held, Owned
  <2>3. b > 0 \/ c > 0 \/ d > 0
    BY <1>4, <2>1 DEF Held, Owned
  <2>4. a + b + c + d > 0
    BY ONLY <2>2, <2>3
  <2> QED BY <2>2, <2>4
<1>5. ASSUME NEW x \in Frames, NEW f, f = Frame(x)
      PROVE  /\ f.id \notin deleted
             /\ f.at = "self" => f.ptr \notin deleted
             /\ f.at = "release" => f.ptr # NoTask /\ node[f.ptr].count > 0
             /\ f.at \in {"pinned", "gather"} => barrier.refs > 0
             /\ /\ f.id # NoTask
                /\ f.at \notin {"release", "enter", "leave", "to_pin", "pinned", "gather"}
                => node[f.id].count > 0
  <2>1. f \in FrameSet /\ FrameOK(x[1], f) /\ Busy(f)
    BY <1>1, <1>5, FrameIn DEF FramesOK
  <2>2. f.id # 0 => f.id \in DOMAIN task /\ ~Gone(f.id)
    BY <1>1, <1>5, FrameTask
  <2>3. f.id \notin deleted
    BY <1>2, <2>2 DEF Gone
  <2>4. ASSUME f.at = "self" PROVE f.ptr \notin deleted
    <3>1. f.ptr \in Nat \ {0} /\ Mentioned(f.ptr) > 0
      BY <1>1, <1>2, <1>5, <2>1, <2>4, HandedMentioned DEF FrameOK
    <3> QED BY <1>1, <3>1, RanOnce DEF Gone
  <2>5. ASSUME f.at = "release" PROVE f.ptr # NoTask /\ node[f.ptr].count > 0
    <3>1. f.ptr \in DOMAIN task /\ f.ptr # NoTask
      BY <1>2, <2>1, <2>5 DEF FrameOK, NoTask
    <3>2. Dropped(f.ptr) >= 1 /\ Dropped(f.ptr) \in Nat
      <4>1. f \in Dropping(f.ptr)
        BY <2>1, <2>5 DEF Dropping
      <4> QED BY <1>1, <1>5, <4>1, CountFrames DEF Dropped
    <3>3. Dropped(f.ptr) > 0
      BY <3>2
    <3> QED BY <1>4, <3>1, <3>3
  <2>6. ASSUME f.at \in {"pinned", "gather"} PROVE barrier.refs > 0
    <3>1. PICK a, b, r : a = Cardinality(PinTasks \ deleted) /\ b = Pinners /\ r = barrier.refs
      OBVIOUS
    <3>2. a \in Nat /\ b \in Nat /\ r \in Int /\ r >= a + b /\ IsFiniteSet(PinTasks \ deleted)
      BY <1>1, <3>1, PinsFinite, Tallies DEF Pins
    <3>3. CASE f.id = 0
      <4>1. f \in PinFrames
        <5>1. f.at = "pinned" => f \in TaskFrames
          BY <2>1, FrameKinds
        <5> QED BY <2>1, <2>6, <3>3, <5>1 DEF FrameSet, TaskFrames, LoopFrames, MainFrames, LoopLabels
      <4>2. b >= 1
        BY <1>1, <1>5, <3>1, <4>1, CountFrames DEF Pinners
      <4>3. r > 0
        BY ONLY <3>2, <4>2
      <4> QED BY <3>1, <4>3
    <3>4. CASE f.id # 0
      <4>1. f.id \in PinTasks \ deleted
        BY <2>1, <2>2, <2>6, <3>4 DEF FrameOK, PinTasks, Gone
      <4>2. a # 0
        BY <3>1, <3>2, <4>1, FS_EmptySet
      <4>3. r > 0
        BY ONLY <3>2, <4>2
      <4> QED BY <3>1, <4>3
    <3> QED BY <3>3, <3>4
  <2>7. ASSUME f.id # NoTask, f.at \notin {"release", "enter", "leave", "to_pin", "pinned", "gather"}
        PROVE  node[f.id].count > 0
    <3>1. f.id \in DOMAIN task /\ ~Gone(f.id) /\ f.id # 0
      BY <2>2, <2>7 DEF NoTask
    <3>2. f.at \in InTask \ {"release"} \/ f.at \in LoopLabels
      BY <2>1, <2>7, <3>1 DEF FrameSet, TaskFrames, LoopFrames, MainFrames, PinFrames, TaskLabels
    <3>3. task[f.id].holds \/ IsLoop(f.id)
      BY <2>1, <3>1, <3>2 DEF Busy, FrameOK
    <3> QED BY <1>4, <3>1, <3>3
  <2> QED BY <2>3, <2>4, <2>5, <2>6, <2>7
<1> QED BY <1>3, <1>5 DEF NoUseAfterFree

LEMMA ProxiesFromInvariant == ASSUME IInv PROVE ProxyLife
<1>1. Shape /\ Lives /\ DOMAIN task \subseteq Nat \ {0}
  BY LenProperties DEF IInv, Shape
<1>2. ASSUME NEW id \in DOMAIN task, task[id].kind = "proxy"
      PROVE  /\ task[id].state = (2 - Mentions(id)) + (IF task[id].state > 0 /\ ~Running(id) THEN 1 ELSE 0)
             /\ id \in deleted <=> task[id].state = 3
  <2>1. Proxy(task[id].state, Mentioned(id), Ran(id), Gone(id))
    BY <1>1, <1>2 DEF Lives, LifeAt, Life
  <2>2. Mentions(id) = Mentioned(id)
    <3>1. /\ Cardinality({x \in Places(local) : local[x[1]][x[2]] = id}) = Count(local, {id})
          /\ Cardinality({x \in Places(mail) : mail[x[1]][x[2]] = id}) = Count(mail, {id})
      <4>1. /\ Among(local, {id}) = {x \in Places(local) : local[x[1]][x[2]] = id}
            /\ Among(mail, {id}) = {x \in Places(mail) : mail[x[1]][x[2]] = id}
        BY DEF Among, Item
      <4> QED BY <4>1 DEF Count
    <3>2. /\ Cardinality({x \in Frames : Frame(x).at = "enter" /\ Frame(x).id = id}) = Count(stack, Entering(id))
          /\ Cardinality({x \in Frames : Frame(x).at = "self" /\ Frame(x).ptr = id}) = Count(stack, Handing(id))
      BY <1>1, CountedFrames
    <3>3. PICK a, b, c, d : /\ a = Count(local, {id}) /\ b = Count(mail, {id})
                            /\ c = Count(stack, Entering(id)) /\ d = Count(stack, Handing(id))
      OBVIOUS
    <3>4. a \in Nat /\ b \in Nat /\ c \in Nat /\ d \in Nat
      BY <1>1, <3>3, QueueRows, CountFrames
    <3>5. a + b + c + d = (a + b) + (c + d)
      BY ONLY <3>4
    <3> QED BY <3>1, <3>2, <3>3, <3>5 DEF Mentions, Mentioned, InQueues, Carried
  <2>3. Running(id) <=> Ran(id) # 0
    <3>1. Among(stack, Runs(id)) = {x \in Frames : Frame(x).id = id /\ Frame(x).at # "enter"}
      BY <1>1, FrameIn DEF Among, Item, Runs, Frames, Frame
    <3>2. IsFiniteSet(Among(stack, Runs(id)))
      BY <1>1, CountFrames
    <3>3. Ran(id) # 0 <=> Among(stack, Runs(id)) # {}
      BY <3>2, FS_EmptySet DEF Ran, Count
    <3> QED BY <3>1, <3>3 DEF Running
  <2>4. PICK m, r, s : m = Mentioned(id) /\ r = Ran(id) /\ s = task[id].state
    OBVIOUS
  <2>5. \/ s = 0 /\ r = 0 /\ m = 2
        \/ s = 1 /\ r = 1 /\ m = 1
        \/ s = 2 /\ r = 1 /\ m = 0
        \/ s = 2 /\ r = 0 /\ m = 1
        \/ s = 3 /\ r = 0 /\ m = 0
    BY <2>1, <2>4 DEF Proxy
  <2>6. s = (2 - m) + (IF s > 0 /\ r = 0 THEN 1 ELSE 0)
    BY ONLY <2>5
  <2>7. task[id].state = (2 - Mentions(id)) + (IF task[id].state > 0 /\ ~Running(id) THEN 1 ELSE 0)
    BY <2>2, <2>3, <2>4, <2>6
  <2> QED BY <2>1, <2>7 DEF Proxy, Gone
<1> QED BY <1>2 DEF ProxyLife

\* TypeOK in every state: the frames, the queues within their capacities, and
\* EigenPinner's counter, which is never below 0.
THEOREM TypeSafe == Spec => []TypeOK
<1>1. IInv => TypeOK
  BY TypeFromInvariant
<1> QED BY <1>1, Invariant, PTL

\* RefCounts in every state: the count of IntrusivePtr in a TaskNode is the
\* number of pointers to it, between any two steps of any threads.
THEOREM CountsAreRight == Spec => []RefCounts
<1>1. IInv => RefCounts
  BY RefsFromInvariant
<1> QED BY <1>1, Invariant, PTL

\* NoUseAfterFree in every state: no thread and no queue has a task, a node, a
\* root on a caller's stack, or EigenPinner's barrier that is gone.
THEOREM NothingUsedAfterFree == Spec => []NoUseAfterFree
<1>1. IInv => NoUseAfterFree
  BY SafeFromInvariant
<1> QED BY <1>1, Invariant, PTL

\* ProxyLife in every state: the state of a proxy says who has come to it, so
\* that its function runs once and the last of the three deletes it.
THEOREM ProxiesRunOnce == Spec => []ProxyLife
<1>1. IInv => ProxyLife
  BY ProxiesFromInvariant
<1> QED BY <1>1, Invariant, PTL
===============================================================================
