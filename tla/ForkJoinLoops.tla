---------------------------- MODULE ForkJoinLoops ----------------------------
(***************************************************************************)
(* ForkJoin implements ParallelLoops: each iteration of a loop runs once,  *)
(* before the call returns, for every program, every team and every size   *)
(* of the queues.                                                          *)
(*                                                                         *)
(* The region of a task is its own range and the parts that its frame has  *)
(* yet to hand out.  The regions of the tasks of a loop are apart and hold *)
(* what has not run; a step passes iterations from one region to another,  *)
(* or runs the first of a region.  And when a call has the only pointer to *)
(* its root, no task of the loop holds a node, and its region is empty.    *)
(*                                                                         *)
(* One lemma for each action, named after it: XTiles says that X keeps the *)
(* regions so, and XDoes what X does to the loops.                         *)
(*                                                                         *)
(* And, at the end, before its first loop a program may have its threads   *)
(* pinned to CPUs: then each has one of its own (PinnedSoFar, XPinned).    *)
(***************************************************************************)
EXTENDS ForkJoinProofs

-----------------------------------------------------------------------------
(* Where an iteration is: in the range of a task, or in a part that its    *)
(* frame has yet to hand out.                                              *)

Own(t) == {i \in Nat : task[t].from <= i /\ i < task[t].to}
Left(f) == {i \in Nat : \E k \in DOMAIN Unhanded(f) : Unhanded(f)[k].from <= i /\ i < Unhanded(f)[k].to}
Pending(t) == {i \in Nat : \E x \in Frames : Frame(x).id = t /\ i \in Left(Frame(x))}
Region(t) == Own(t) \cup Pending(t)

\* The tasks of a loop descend from its root; one that has released its node
\* has nothing left.
Family == \A t \in DOMAIN task :
  /\ task[t].kind = "pin" => task[t].loop = NoTask /\ task[t].from = task[t].to
  /\ task[t].kind # "pin" => task[t].loop \in DOMAIN task /\ IsLoop(task[t].loop)
  /\ IsLoop(t) => task[t].loop = t
  /\ node[t].parent # NoTask => task[node[t].parent].loop = task[t].loop
  /\ ~task[t].holds => task[t].from = task[t].to
\* The regions of a loop's tasks do not overlap, hold what has not run, and
\* hold all of it.
Apart == \A t, u \in DOMAIN task :
  t # u /\ task[t].loop = task[u].loop => Region(t) \cap Region(u) = {}
ToDo == \A t \in DOMAIN task : \A i \in Region(t) :
  <<task[t].loop, i>> \notin ran /\ i < SizeOf(task[t].loop)
Covered == \A l \in DOMAIN task : IsLoop(l) => \A i \in Nat : i < SizeOf(l) =>
  <<l, i>> \in ran \/ \E t \in DOMAIN task : task[t].loop = l /\ i \in Region(t)
\* The parts a frame is to hand out follow its task's range, in their order.
Stacked(f) == \A k \in DOMAIN Unhanded(f) :
  /\ task[f.id].to <= Unhanded(f)[k].from
  /\ \A m \in DOMAIN Unhanded(f) : m < k => Unhanded(f)[m].to <= Unhanded(f)[k].from
Above == \A x \in Frames : Stacked(Frame(x))
Recorded == \A l, i : <<l, i>> \in ran => l \in DOMAIN task
Tiled == Family /\ Apart /\ ToDo /\ Covered /\ Above /\ Recorded

\* The regions are as before.
LEMMA SameTiles ==
  ASSUME Apart, ToDo, Covered, DOMAIN task' = DOMAIN task,
         \A t \in DOMAIN task : task'[t].loop = task[t].loop /\ task'[t].kind = task[t].kind,
         \A t \in DOMAIN task : task[t].loop \in DOMAIN task \/ Region(t) = {},
         \A t \in DOMAIN task : Region(t)' = Region(t), plan' = plan, ran' = ran
  PROVE  Apart' /\ ToDo' /\ Covered'
<1>1. Apart'
  BY DEF Apart
<1>2. \A l \in DOMAIN task : SizeOf(l)' = SizeOf(l) /\ IsLoop(l)' = IsLoop(l)
  BY DEF SizeOf, IsLoop
<1>3. ToDo'
  BY <1>2 DEF ToDo
<1>4. Covered'
  BY <1>2 DEF Covered
<1> QED BY <1>1, <1>3, <1>4

\* Task id has run iteration i.
LEMMA RunTiles ==
  ASSUME Apart, ToDo, Covered, DOMAIN task' = DOMAIN task,
         \A t \in DOMAIN task : task'[t].loop = task[t].loop /\ task'[t].kind = task[t].kind,
         \A t \in DOMAIN task : task[t].loop \in DOMAIN task \/ Region(t) = {},
         NEW id \in DOMAIN task, NEW i \in Nat, i \in Region(id),
         \A t \in DOMAIN task : Region(t)' = IF t = id THEN Region(t) \ {i} ELSE Region(t),
         plan' = plan, ran' = ran \cup {<<task[id].loop, i>>}
  PROVE  Apart' /\ ToDo' /\ Covered'
<1>1. Apart'
  BY DEF Apart
<1>2. \A l \in DOMAIN task : SizeOf(l)' = SizeOf(l) /\ IsLoop(l)' = IsLoop(l)
  BY DEF SizeOf, IsLoop
<1>3. ASSUME NEW t \in DOMAIN task, NEW j \in Region(t)'
      PROVE  <<task[t].loop, j>> \notin ran' /\ j < SizeOf(task[t].loop)
  <2>1. j \in Region(t) /\ (t = id => j # i)
    BY <1>3
  <2>2. <<task[t].loop, j>> \notin ran /\ j < SizeOf(task[t].loop)
    BY <2>1 DEF ToDo
  <2>3. t # id /\ task[t].loop = task[id].loop => j # i
    BY <2>1 DEF Apart
  <2> QED BY <2>1, <2>2, <2>3
<1>4. ToDo'
  BY <1>2, <1>3 DEF ToDo
<1>5. Covered'
  BY <1>2 DEF Covered
<1> QED BY <1>1, <1>4, <1>5

\* Task id has given a part of its region to the new one.
LEMMA GiveTiles ==
  ASSUME Apart, ToDo, Covered, NEW new, new \notin DOMAIN task, DOMAIN task' = DOMAIN task \cup {new},
         \A t \in DOMAIN task : task'[t].loop = task[t].loop /\ task'[t].kind = task[t].kind,
         \A t \in DOMAIN task : task[t].loop \in DOMAIN task \/ Region(t) = {},
         NEW id \in DOMAIN task, task'[new].loop = task[id].loop, ~IsLoop(new)',
         \A t \in DOMAIN task : t # id => Region(t)' = Region(t),
         Region(id)' \cup Region(new)' = Region(id), Region(id)' \cap Region(new)' = {},
         plan' = plan, ran' = ran
  PROVE  Apart' /\ ToDo' /\ Covered'
<1>1. ASSUME NEW t \in DOMAIN task', NEW u \in DOMAIN task', t # u, task'[t].loop = task'[u].loop
      PROVE  Region(t)' \cap Region(u)' = {}
  <2>1. CASE t = new \/ u = new
    <3>1. \A s \in DOMAIN task : s # id /\ task[s].loop = task[id].loop => Region(s)' \cap Region(new)' = {}
      BY DEF Apart
    <3> QED BY <1>1, <2>1, <3>1
  <2>2. CASE t \in DOMAIN task /\ u \in DOMAIN task
    <3>1. Region(t) \cap Region(u) = {}
      BY <1>1, <2>2 DEF Apart
    <3> QED BY <2>2, <3>1
  <2> QED BY <2>1, <2>2
<1>2. \A l \in DOMAIN task : SizeOf(l)' = SizeOf(l) /\ IsLoop(l)' = IsLoop(l)
  BY DEF SizeOf, IsLoop
<1>3. ASSUME NEW t \in DOMAIN task', NEW i \in Region(t)'
      PROVE  <<task'[t].loop, i>> \notin ran' /\ i < SizeOf(task[t].loop)'
  <2>1. PICK u \in DOMAIN task : task[u].loop = task'[t].loop /\ i \in Region(u)
    <3>1. CASE t = new
      BY <1>3, <3>1
    <3>2. CASE t = id
      BY <1>3, <3>2
    <3>3. CASE t # new /\ t # id
      BY <1>3, <3>3
    <3> QED BY <3>1, <3>2, <3>3
  <2>2. <<task[u].loop, i>> \notin ran /\ i < SizeOf(task[u].loop)
    BY <2>1 DEF ToDo
  <2>3. task[u].loop \in DOMAIN task
    BY <2>1
  <2>4. SizeOf(task[t].loop)' = SizeOf(task[u].loop)
    BY <2>1, <2>3 DEF SizeOf
  <2> QED BY <2>1, <2>2, <2>4
<1>4. ToDo'
  BY <1>3 DEF ToDo
<1>5. ASSUME NEW l \in DOMAIN task', IsLoop(l)', NEW i \in Nat, i < SizeOf(l)'
      PROVE  <<l, i>> \in ran' \/ \E t \in DOMAIN task' : task'[t].loop = l /\ i \in Region(t)'
  <2>1. l \in DOMAIN task /\ IsLoop(l) /\ i < SizeOf(l)
    BY <1>2, <1>5
  <2>2. CASE <<l, i>> \in ran
    BY <2>2
  <2>3. CASE \E t \in DOMAIN task : task[t].loop = l /\ i \in Region(t)
    <3>1. PICK t \in DOMAIN task : task[t].loop = l /\ i \in Region(t)
      BY <2>3
    <3>2. CASE t = id
      BY <3>1, <3>2
    <3>3. CASE t # id
      BY <3>1, <3>3
    <3> QED BY <3>2, <3>3
  <2> QED BY <2>1, <2>2, <2>3 DEF Covered
<1>6. Covered'
  BY <1>5 DEF Covered
<1>7. Apart'
  BY <1>1 DEF Apart
<1> QED BY <1>4, <1>6, <1>7

\* A task is made: a loop with all its iterations, or a task with none.
LEMMA BirthTiles ==
  ASSUME Apart, ToDo, Covered, Recorded,
         NEW new, new \notin DOMAIN task, DOMAIN task' = DOMAIN task \cup {new},
         \A t \in DOMAIN task : task'[t].loop = task[t].loop /\ task'[t].kind = task[t].kind,
         \A t \in DOMAIN task : task[t].loop \in DOMAIN task \/ Region(t) = {},
         \A t \in DOMAIN task : Region(t)' = Region(t),
         NEW s, s = SizeOf(new)', IsLoop(new)' => task'[new].loop = new,
         IsLoop(new)' => Region(new)' = {i \in Nat : i < s}, ~IsLoop(new)' => Region(new)' = {},
         plan' = plan, ran' = ran
  PROVE  Apart' /\ ToDo' /\ Covered'
<1>1. ASSUME NEW t \in DOMAIN task', NEW u \in DOMAIN task', t # u, task'[t].loop = task'[u].loop
      PROVE  Region(t)' \cap Region(u)' = {}
  <2>1. CASE t = new \/ u = new
    <3>1. \A v \in DOMAIN task : v # new /\ (task[v].loop # new \/ Region(v)' = {})
      OBVIOUS
    <3> QED BY <1>1, <2>1, <3>1
  <2>2. CASE t \in DOMAIN task /\ u \in DOMAIN task
    <3>1. Region(t) \cap Region(u) = {}
      BY <1>1, <2>2 DEF Apart
    <3> QED BY <2>2, <3>1
  <2> QED BY <2>1, <2>2
<1>2. \A l \in DOMAIN task : SizeOf(l)' = SizeOf(l) /\ IsLoop(l)' = IsLoop(l)
  BY DEF SizeOf, IsLoop
<1>3. ASSUME NEW t \in DOMAIN task', NEW i \in Region(t)'
      PROVE  <<task'[t].loop, i>> \notin ran' /\ i < SizeOf(task[t].loop)'
  <2>1. CASE t = new
    <3>1. IsLoop(new)' /\ i < s
      BY <1>3, <2>1
    <3>2. <<new, i>> \notin ran
      BY DEF Recorded
    <3> QED BY <2>1, <3>1, <3>2
  <2>2. CASE t \in DOMAIN task
    <3>1. <<task[t].loop, i>> \notin ran /\ i < SizeOf(task[t].loop)
      BY <1>3, <2>2 DEF ToDo
    <3>2. task[t].loop \in DOMAIN task
      BY <1>3, <2>2
    <3>3. SizeOf(task[t].loop)' = SizeOf(task[t].loop)
      BY <2>2, <3>2 DEF SizeOf
    <3> QED BY <2>2, <3>1, <3>3
  <2> QED BY <2>1, <2>2
<1>4. ToDo'
  BY <1>3 DEF ToDo
<1>5. ASSUME NEW l \in DOMAIN task', IsLoop(l)', NEW i \in Nat, i < SizeOf(l)'
      PROVE  <<l, i>> \in ran' \/ \E t \in DOMAIN task' : task'[t].loop = l /\ i \in Region(t)'
  <2>1. CASE l = new
    BY <1>5, <2>1
  <2>2. CASE l \in DOMAIN task
    <3>1. IsLoop(l) /\ i < SizeOf(l)
      BY <1>2, <1>5, <2>2
    <3>2. <<l, i>> \in ran \/ \E t \in DOMAIN task : task[t].loop = l /\ i \in Region(t)
      BY <2>2, <3>1 DEF Covered
    <3> QED BY <3>2
  <2> QED BY <2>1, <2>2
<1>6. Covered'
  BY <1>5 DEF Covered
<1>7. Apart'
  BY <1>1 DEF Apart
<1> QED BY <1>4, <1>6, <1>7

-----------------------------------------------------------------------------
(* The frames of a step.                                                   *)

LEMMA Added == ASSUME NEW s \in Seq(FrameSet), NEW f, NEW v, v = Append(s, f) \o <<>>, v \in Seq(FrameSet)
               PROVE  f \in FrameSet
<1>1. s \in Seq(FrameSet \cup {f})
  BY SeqDef
<1>2. /\ Append(s, f) \in Seq(FrameSet \cup {f}) /\ Len(Append(s, f)) = Len(s) + 1
      /\ Append(s, f)[Len(s) + 1] = f
  BY <1>1, AppendProperties
<1>3. v = Append(s, f)
  BY <1>2, ConcatEmptySeq
<1>4. Len(s) \in Nat
  BY LenProperties
<1>5. Len(s) + 1 \in 1 .. Len(v)
  BY <1>2, <1>3, <1>4
<1>6. v[Len(s) + 1] \in FrameSet
  BY <1>5, ElementOfSeq
<1> QED BY <1>2, <1>3, <1>6

LEMMA AddedTwo ==
  ASSUME NEW s \in Seq(FrameSet), NEW f, NEW g, NEW v, v = Append(s, f) \o <<g>>, v \in Seq(FrameSet)
  PROVE  f \in FrameSet /\ g \in FrameSet
<1> DEFINE T == FrameSet \cup {f, g}
<1>1. s \in Seq(T) /\ f \in T /\ g \in T
  BY SeqDef
<1> HIDE DEF T
<1>2. /\ Append(s, f) \in Seq(T) /\ Len(Append(s, f)) = Len(s) + 1 /\ Append(s, f)[Len(s) + 1] = f
  BY <1>1, AppendProperties
<1>3. PICK w : w = Append(s, f)
  OBVIOUS
<1>4. w \o <<g>> = Append(w, g)
  BY <1>1, <1>2, <1>3, AppendIsConcat
<1>5. /\ Len(Append(w, g)) = Len(w) + 1 /\ Append(w, g)[Len(w) + 1] = g
      /\ \A k \in 1 .. Len(w) : Append(w, g)[k] = w[k]
  BY <1>1, <1>2, <1>3, AppendProperties
<1>6. Len(s) \in Nat
  BY LenProperties
<1>7. Len(v) = Len(s) + 2 /\ v[Len(s) + 2] = g /\ v[Len(s) + 1] = f
  BY <1>2, <1>3, <1>4, <1>5, <1>6
<1>8. \A k \in 1 .. Len(v) : v[k] \in FrameSet
  BY ElementOfSeq
<1>9. Len(s) + 1 \in 1 .. Len(v) /\ Len(s) + 2 \in 1 .. Len(v)
  BY <1>6, <1>7
<1> QED BY <1>7, <1>8, <1>9

\* What a thread goes on as is a frame, for the stacks are stacks of frames.
LEMMA Became ==
  ASSUME Shape, Shape', NEW p \in Procs, stack[p] # <<>>, NEW f, Becomes(p, f, <<>>)
  PROVE  f \in FrameSet /\ Moved(p, f, Nil)
<1>1. stack \in [Procs -> Seq(FrameSet)] /\ stack' \in [Procs -> Seq(FrameSet)]
      /\ Front(stack[p]) \in Seq(FrameSet)
  BY FrontLast DEF Shape
<1>2. stack'[p] = Append(Front(stack[p]), f) \o <<>>
  BY <1>1 DEF Becomes, Replace
<1>3. stack'[p] \in Seq(FrameSet)
  BY <1>1
<1>4. f \in FrameSet
  BY <1>1, <1>2, <1>3, Added
<1> QED BY <1>4, BecomesMoves

LEMMA Called ==
  ASSUME Shape, Shape', NEW p \in Procs, stack[p] # <<>>, NEW f, NEW g, Becomes(p, f, <<g>>)
  PROVE  f \in FrameSet /\ g \in FrameSet /\ Moved(p, f, g)
<1>1. stack \in [Procs -> Seq(FrameSet)] /\ stack' \in [Procs -> Seq(FrameSet)]
      /\ Front(stack[p]) \in Seq(FrameSet)
  BY FrontLast DEF Shape
<1>2. stack'[p] = Append(Front(stack[p]), f) \o <<g>>
  BY <1>1 DEF Becomes, Replace
<1>3. stack'[p] \in Seq(FrameSet)
  BY <1>1
<1>4. f \in FrameSet /\ g \in FrameSet
  BY <1>1, <1>2, <1>3, AddedTwo
<1> QED BY <1>4, CallsMoves

-----------------------------------------------------------------------------
(* The parts that frames have yet to hand out.                             *)

\* The frames that may be about to hand out iteration i of task t.
Handers(t, i) == {h \in FrameSet : h.id = t /\ i \in Left(h)}

LEMMA HeldIn == ASSUME NEW f, Rows(Procs, FrameSet, f), NEW A
                PROVE  Count(f, A) \in Nat /\ (Count(f, A) # 0 <=> \E x \in Places(f) : Item(f, x) \in A)
<1>1. IsFiniteSet(Among(f, A)) /\ Count(f, A) \in Nat
  BY CountType
<1>2. Count(f, A) # 0 <=> Among(f, A) # {}
  BY <1>1, FS_EmptySet DEF Count
<1> QED BY <1>1, <1>2 DEF Among

LEMMA NilLeaves == Unhanded(Nil) = <<>> /\ \A f : Unhanded(f) = <<>> => Left(f) = {}
<1>1. Unhanded(Nil) = <<>>
  BY DEF Unhanded, Nil
<1>2. DOMAIN <<>> = {}
  OBVIOUS
<1> QED BY <1>1, <1>2 DEF Left

LEMMA PendingCount ==
  ASSUME Shape, NEW p \in Procs, stack[p] # <<>>, NEW f, NEW g, Moved(p, f, g), Unhanded(g) = <<>>,
         NEW t, NEW i \in Nat, NEW A, A = Handers(t, i)
  PROVE  /\ i \in Pending(t) <=> Count(stack, A) # 0
         /\ i \in Pending(t)' <=> Count(stack', A) # 0
         /\ Count(stack, A) \in Nat /\ Count(stack', A) \in Nat
         /\ Count(stack', A) + In(Top(p), A) = Count(stack, A) + In(f, A)
         /\ In(Top(p), A) <= Count(stack, A)
<1>1. Rows(Procs, FrameSet, stack) /\ stack \in [Procs -> Seq(FrameSet)] /\ stack' \in [Procs -> Seq(FrameSet)]
  BY StackRows DEF Moved
<1>2. Rows(Procs, FrameSet, stack')
  BY <1>1 DEF Rows
<1>3. ASSUME NEW s, Rows(Procs, FrameSet, s), NEW x \in Places(s)
      PROVE  Item(s, x) \in FrameSet
  <2>1. s \in [Procs -> Seq(FrameSet)]
    BY <1>3 DEF Rows
  <2>2. PICK q \in Procs : \E k \in 1 .. Len(s[q]) : x = <<q, k>>
    BY <1>3, <2>1, PlaceOf
  <2>3. PICK k \in 1 .. Len(s[q]) : x = <<q, k>>
    BY <2>2
  <2>4. s[q][k] \in FrameSet
    BY <2>1, <2>3, ElementOfSeq
  <2> QED BY <2>3, <2>4 DEF Item
<1>4. i \in Pending(t) <=> Count(stack, A) # 0
  <2>1. i \in Pending(t) <=> \E x \in Places(stack) : Item(stack, x).id = t /\ i \in Left(Item(stack, x))
    BY DEF Pending, Frames, Frame, Item
  <2>2. i \in Pending(t) <=> \E x \in Places(stack) : Item(stack, x) \in A
    BY <1>1, <1>3, <2>1 DEF Handers
  <2> QED BY <1>1, <2>2, HeldIn
<1>5. i \in Pending(t)' <=> Count(stack', A) # 0
  <2>1. i \in Pending(t)' <=> \E x \in Places(stack') : Item(stack', x).id = t /\ i \in Left(Item(stack', x))
    BY DEF Pending, Frames, Frame, Item
  <2>2. i \in Pending(t)' <=> \E x \in Places(stack') : Item(stack', x) \in A
    BY <1>2, <1>3, <2>1 DEF Handers
  <2> QED BY <1>2, <2>2, HeldIn
<1>6. /\ Count(stack, A) \in Nat /\ Count(stack', A) \in Nat
      /\ Count(stack', A) + In(Top(p), A) = Count(stack, A) + In(f, A) + In(g, A)
  <2>1. A \in SUBSET FrameSet
    BY DEF Handers
  <2> QED BY <2>1 DEF Moved
<1>7. In(g, A) = 0
  BY NilLeaves DEF Handers, In
<1>8. In(Top(p), A) <= Count(stack, A)
  <2>1. Top(p) \in A => Count(stack, A) >= 1
    BY TopFrame, CountFrames
  <2> QED BY <1>6, <2>1 DEF In
<1>9. In(f, A) \in Nat
  BY DEF In
<1> QED BY <1>4, <1>5, <1>6, <1>7, <1>8, <1>9

\* A thread hands out nothing, or goes on handing out the same.
LEMMA PendingStays ==
  ASSUME Shape, NEW p \in Procs, stack[p] # <<>>, NEW f, NEW g, Moved(p, f, g), Unhanded(g) = <<>>,
         Unhanded(f) = Unhanded(Top(p)), Unhanded(f) # <<>> => f.id = Top(p).id
  PROVE  \A t : Pending(t)' = Pending(t)
<1>1. ASSUME NEW t, NEW i \in Nat PROVE i \in Pending(t)' <=> i \in Pending(t)
  <2>1. PICK A : A = Handers(t, i)
    OBVIOUS
  <2>2. /\ i \in Pending(t) <=> Count(stack, A) # 0
        /\ i \in Pending(t)' <=> Count(stack', A) # 0
        /\ Count(stack, A) \in Nat /\ Count(stack', A) \in Nat
        /\ Count(stack', A) + In(Top(p), A) = Count(stack, A) + In(f, A)
    BY <2>1, PendingCount
  <2>3. In(f, A) = In(Top(p), A) /\ In(f, A) \in Nat
    <3>1. Left(f) = Left(Top(p))
      BY DEF Left
    <3>2. CASE Unhanded(f) = <<>>
      <4>1. f \notin A /\ Top(p) \notin A
        BY <2>1, <3>2, NilLeaves DEF Handers
      <4> QED BY <4>1 DEF In
    <3>3. CASE Unhanded(f) # <<>>
      <4>1. f \in FrameSet /\ Top(p) \in FrameSet
        BY <3>3, NilLeaves, TopFrame DEF Moved
      <4>2. f \in A <=> Top(p) \in A
        BY <2>1, <3>1, <3>3, <4>1 DEF Handers
      <4> QED BY <4>2 DEF In
    <3> QED BY <3>2, <3>3
  <2>4. Count(stack', A) = Count(stack, A)
    <3>1. PICK a, b, c, d : a = Count(stack', A) /\ b = Count(stack, A) /\ c = In(f, A) /\ d = In(Top(p), A)
      OBVIOUS
    <3>2. a \in Nat /\ b \in Nat /\ c \in Nat /\ c = d /\ a + d = b + c
      BY <2>2, <2>3, <3>1
    <3>3. a = b
      BY ONLY <3>2
    <3> QED BY <3>1, <3>3
  <2> QED BY <2>2, <2>4
<1> QED BY <1>1 DEF Pending

\* A thread hands out parts of its task: it had the parts of its frame, and
\* has those of the frame it goes on as.
LEMMA PendingTurns ==
  ASSUME Shape, Lives, NEW p \in Procs, stack[p] # <<>>, NEW f \in FrameSet, NEW g, Moved(p, f, g),
         Unhanded(g) = <<>>, NEW id \in Nat \ {0}, Top(p).id = id, f.id = id, Top(p).at # "enter"
  PROVE  /\ Pending(id) = Left(Top(p)) /\ Pending(id)' = Left(f)
         /\ \A t : t # id => Pending(t)' = Pending(t)
<1>1. End(stack, p) \in Frames /\ Frame(End(stack, p)) = Top(p) /\ Top(p) \in FrameSet
  BY TopFrame
<1>2. ASSUME NEW i \in Nat, NEW A, A = Handers(id, i)
      PROVE  Count(stack, A) = In(Top(p), A)
  <2>1. /\ Count(stack, A) \in Nat /\ In(Top(p), A) <= Count(stack, A) /\ In(Top(p), A) \in {0, 1}
        /\ IsFiniteSet(Among(stack, A))
    BY <1>2, PendingCount, CountFrames DEF In
  <2>2. \A x \in Among(stack, A) : x = End(stack, p)
    <3>1. ASSUME NEW x \in Among(stack, A) PROVE x = End(stack, p)
      <4>1. x \in Frames /\ Frame(x) \in A
        BY DEF Among, Frames, Frame, Item
      <4>2. Frame(x).id = id /\ Left(Frame(x)) # {}
        BY <1>2, <4>1 DEF Handers
      <4>3. Frame(x).at # "enter"
        <5>1. Unhanded(Frame(x)) # <<>>
          BY <4>2, NilLeaves
        <5> QED BY <5>1 DEF Unhanded
      <4> QED BY <1>1, <4>1, <4>2, <4>3, Alone
    <3> QED BY <3>1
  <2>3. CASE Top(p) \in A
    <3>1. \A x \in Among(stack, A) : \A y \in Among(stack, A) : x = y
      BY <2>2
    <3>2. End(stack, p) \in Among(stack, A)
      BY <1>1, <2>3, CountFrames
    <3>3. Among(stack, A) = {End(stack, p)}
      BY <2>2, <3>2
    <3> QED BY <2>3, <3>3, FS_Singleton DEF Count, In
  <2>4. CASE Top(p) \notin A
    <3>1. Among(stack, A) = {}
      <4>1. ASSUME NEW x \in Among(stack, A) PROVE FALSE
        <5>1. x = End(stack, p)
          BY <2>2
        <5>2. Frame(x) \in A
          BY DEF Among, Frame, Item
        <5> QED BY <1>1, <2>4, <5>1, <5>2
      <4> QED BY <4>1
    <3> QED BY <2>4, <3>1, FS_EmptySet DEF Count, In
  <2> QED BY <2>3, <2>4
<1>3. ASSUME NEW i \in Nat
      PROVE  (i \in Pending(id) <=> i \in Left(Top(p))) /\ (i \in Pending(id)' <=> i \in Left(f))
  <2>1. PICK A : A = Handers(id, i)
    OBVIOUS
  <2>2. /\ i \in Pending(id) <=> Count(stack, A) # 0
        /\ i \in Pending(id)' <=> Count(stack', A) # 0
        /\ Count(stack, A) \in Nat /\ Count(stack', A) \in Nat
        /\ Count(stack', A) + In(Top(p), A) = Count(stack, A) + In(f, A)
    BY <2>1, PendingCount
  <2>3. Count(stack, A) = In(Top(p), A)
    BY <1>2, <2>1
  <2>4. In(f, A) \in Nat /\ In(Top(p), A) \in Nat
    BY DEF In
  <2>5. PICK a, b, c, d : a = Count(stack', A) /\ b = Count(stack, A) /\ c = In(f, A) /\ d = In(Top(p), A)
    OBVIOUS
  <2>6. a \in Nat /\ b \in Nat /\ c \in Nat /\ d \in Nat /\ a + d = b + c /\ b = d
    BY <2>2, <2>3, <2>4, <2>5
  <2>7. a = c
    BY ONLY <2>6
  <2>8. (In(f, A) # 0 <=> f \in A) /\ (In(Top(p), A) # 0 <=> Top(p) \in A)
    BY DEF In
  <2>9. (f \in A <=> i \in Left(f)) /\ (Top(p) \in A <=> i \in Left(Top(p)))
    BY <1>1, <2>1 DEF Handers
  <2> QED BY <2>2, <2>3, <2>5, <2>7, <2>8, <2>9
<1>4. ASSUME NEW t, t # id, NEW i \in Nat PROVE i \in Pending(t)' <=> i \in Pending(t)
  <2>1. PICK A : A = Handers(t, i)
    OBVIOUS
  <2>2. /\ i \in Pending(t) <=> Count(stack, A) # 0
        /\ i \in Pending(t)' <=> Count(stack', A) # 0
        /\ Count(stack, A) \in Nat /\ Count(stack', A) \in Nat
        /\ Count(stack', A) + In(Top(p), A) = Count(stack, A) + In(f, A)
    BY <2>1, PendingCount
  <2>3. In(f, A) = 0 /\ In(Top(p), A) = 0
    BY <1>4, <2>1 DEF Handers, In
  <2> QED BY <2>2, <2>3
<1>5. Pending(id) = Left(Top(p)) /\ Pending(id)' = Left(f)
  BY <1>3 DEF Pending, Left
<1>6. \A t : t # id => Pending(t)' = Pending(t)
  BY <1>4 DEF Pending
<1> QED BY <1>5, <1>6

\* A task with a region belongs to a loop.
LEMMA Homes ==
  ASSUME IInv, Family
  PROVE  \A t \in DOMAIN task : task[t].loop \in DOMAIN task \/ Region(t) = {}
<1>1. ASSUME NEW t \in DOMAIN task, task[t].kind = "pin" PROVE Region(t) = {}
  <2>1. t \in Nat \ {0} /\ task[t] \in TaskSet /\ Shape /\ Lives
    BY ElementOfSeq, LenProperties DEF IInv, Shape
  <2>2. Own(t) = {}
    <3>1. task[t].from = task[t].to /\ task[t].from \in Nat
      BY <1>1, <2>1 DEF Family, TaskSet
    <3> QED BY <3>1 DEF Own
  <2>3. ASSUME NEW x \in Frames, Frame(x).id = t PROVE Left(Frame(x)) = {}
    <3>1. FrameOK(x[1], Frame(x))
      BY DEF IInv, FramesOK
    <3>2. Frame(x).at \notin {"hand", "self"}
      BY <1>1, <2>3, <3>1 DEF FrameOK, InTask
    <3>3. Unhanded(Frame(x)) = <<>>
      BY <3>2 DEF Unhanded
    <3> QED BY <3>3, NilLeaves
  <2>4. Pending(t) = {}
    BY <2>3 DEF Pending
  <2> QED BY <2>2, <2>4 DEF Region
<1> QED BY <1>1 DEF Family

LEMMA ParentThere == ASSUME IInv, NEW t \in DOMAIN task, node[t].parent # NoTask
                     PROVE  node[t].parent \in DOMAIN task /\ node[t].parent < t /\ t \in Nat
<1>1. /\ t \in 1 .. Len(task) /\ Len(task) \in Nat /\ DOMAIN task = 1 .. Len(task)
      /\ node[t] \in NodeSet /\ node[t].parent < t
  BY ElementOfSeq, LenProperties DEF IInv, Shape, TasksOK
<1>2. node[t].parent \in Nat
  BY <1>1 DEF NodeSet
<1> QED BY <1>1, <1>2 DEF NoTask

\* What the frames of a step are to hand out stays above the ranges of their
\* tasks, which change only for the task that runs.
LEMMA AboveStays ==
  ASSUME IInv, Above, NEW p \in Procs, stack[p] # <<>>, NEW f, NEW g, Moved(p, f, g),
         \A t \in DOMAIN task : task'[t].to = task[t].to \/ (t = Top(p).id /\ Top(p).at # "enter"),
         Stacked(f)', Unhanded(g) = <<>>
  PROVE  Above'
<1>0. Shape /\ Lives
  BY DEF IInv
<1>1. ASSUME NEW x \in Frames' PROVE Stacked(Frame(x))'
  <2>1. PICK h : h = Frame(x)'
    OBVIOUS
  <2>2. \/ x \in Frames /\ x # End(stack, p) /\ h = Frame(x)
        \/ h = f \/ h = g
    BY <2>1 DEF Moved
  <2>3. CASE h = g
    <3>1. DOMAIN Unhanded(h) = {}
      BY <2>3
    <3> QED BY <2>1, <3>1 DEF Stacked
  <2>4. CASE h = f
    BY <2>1, <2>4 DEF Stacked
  <2>5. CASE x \in Frames /\ x # End(stack, p) /\ h = Frame(x)
    <3>1. CASE Unhanded(h) = <<>>
      <4>1. DOMAIN Unhanded(h) = {}
        BY <3>1
      <4> QED BY <2>1, <4>1 DEF Stacked
    <3>2. CASE Unhanded(h) # <<>>
      <4>1. h.at \in {"hand", "self"} /\ h \in FrameSet
        BY <1>0, <2>5, <3>2, FrameIn DEF Unhanded
      <4>2. h.id \in Nat \ {0}
        BY <4>1 DEF FrameSet, TaskFrames, LoopFrames, MainFrames, PinFrames, LoopLabels
      <4>3. h.id \in DOMAIN task
        BY <1>0, <2>5, <4>2, FrameTask
      <4>4. ~(h.id = Top(p).id /\ Top(p).at # "enter")
        <5>1. End(stack, p) \in Frames /\ Frame(End(stack, p)) = Top(p)
          BY <1>0, TopFrame
        <5> QED BY <1>0, <2>5, <4>1, <4>2, <5>1, Alone
      <4>5. task'[h.id].to = task[h.id].to
        BY <4>3, <4>4
      <4>6. Stacked(h)
        BY <2>5 DEF Above
      <4>7. Stacked(h)'
        BY <4>5, <4>6 DEF Stacked
      <4> QED BY <2>1, <4>7 DEF Stacked
    <3> QED BY <3>1, <3>2
  <2> QED BY <2>2, <2>3, <2>4, <2>5
<1> QED BY <1>1 DEF Above

\* The ranges of the tasks, and their families, stay.
\* No task changes as far as its loop is concerned.
SameTasks ==
  /\ DOMAIN task' = DOMAIN task /\ plan' = plan /\ ran' = ran
  /\ \A t \in DOMAIN task :
       /\ task'[t].kind = task[t].kind /\ task'[t].loop = task[t].loop
       /\ task'[t].from = task[t].from /\ task'[t].to = task[t].to
       /\ node'[t].parent = node[t].parent
       /\ task'[t].holds = task[t].holds \/ task[t].from = task[t].to

LEMMA Idles ==
  ASSUME IInv, Tiled, NEW p \in Procs, stack[p] # <<>>, NEW f, NEW g, Moved(p, f, g), Unhanded(g) = <<>>,
         Unhanded(f) = Unhanded(Top(p)), Unhanded(f) # <<>> => f.id = Top(p).id, SameTasks
  PROVE  Tiled'
<1>0. Family /\ Apart /\ ToDo /\ Covered /\ Above /\ Recorded /\ Shape /\ Lives
  BY DEF Tiled, IInv
<1>1. /\ DOMAIN task' = DOMAIN task /\ plan' = plan /\ ran' = ran
      /\ \A t \in DOMAIN task :
           /\ task'[t].kind = task[t].kind /\ task'[t].loop = task[t].loop
           /\ task'[t].from = task[t].from /\ task'[t].to = task[t].to
           /\ node'[t].parent = node[t].parent
           /\ task'[t].holds = task[t].holds \/ task[t].from = task[t].to
  BY DEF SameTasks
<1>2. ASSUME NEW t \in DOMAIN task PROVE Region(t)' = Region(t)
  <2>1. Pending(t)' = Pending(t)
    BY <1>0, PendingStays
  <2>2. Own(t)' = Own(t)
    BY <1>1 DEF Own
  <2> QED BY <2>1, <2>2 DEF Region
<1>3. Apart' /\ ToDo' /\ Covered'
  BY <1>0, <1>1, <1>2, Homes, SameTiles
<1>4. Above'
  <2>1. Stacked(f)'
    <3>1. CASE Unhanded(f) = <<>>
      <4>1. DOMAIN Unhanded(f) = {}
        BY <3>1
      <4> QED BY <4>1 DEF Stacked
    <3>2. CASE Unhanded(f) # <<>>
      <4>1. f.id = Top(p).id /\ Top(p).at \in {"hand", "self"} /\ Top(p) \in FrameSet
        BY <1>0, <3>2, TopFrame DEF Unhanded
      <4>2. f.id \in Nat \ {0}
        BY <4>1 DEF FrameSet, TaskFrames, LoopFrames, MainFrames, PinFrames, LoopLabels
      <4>3. f.id \in DOMAIN task
        BY <1>0, <4>1, <4>2, TopFrame, FrameTask
      <4>4. Stacked(Top(p))
        BY <1>0, TopFrame DEF Above
      <4> QED BY <1>1, <4>1, <4>3, <4>4 DEF Stacked
    <3> QED BY <3>1, <3>2
  <2> QED BY <1>0, <1>1, <2>1, AboveStays
<1>5. Family'
  <2>1. ASSUME NEW t \in DOMAIN task'
        PROVE  /\ task'[t].kind = "pin" => task'[t].loop = NoTask /\ task'[t].from = task'[t].to
               /\ task'[t].kind # "pin" => task'[t].loop \in DOMAIN task' /\ IsLoop(task[t].loop)'
               /\ IsLoop(t)' => task'[t].loop = t
               /\ node'[t].parent # NoTask => task'[node'[t].parent].loop = task'[t].loop
               /\ ~task'[t].holds => task'[t].from = task'[t].to
    <3>1. t \in DOMAIN task
      BY <1>1
    <3>2. /\ task[t].kind = "pin" => task[t].loop = NoTask /\ task[t].from = task[t].to
          /\ task[t].kind # "pin" => task[t].loop \in DOMAIN task /\ IsLoop(task[t].loop)
          /\ IsLoop(t) => task[t].loop = t
          /\ node[t].parent # NoTask => task[node[t].parent].loop = task[t].loop
          /\ ~task[t].holds => task[t].from = task[t].to
      BY <1>0, <3>1 DEF Family
    <3>3. node[t].parent # NoTask => node[t].parent \in DOMAIN task
      BY <3>1, ParentThere
    <3> QED BY <1>1, <3>1, <3>2, <3>3 DEF IsLoop
  <2>2. \A t \in DOMAIN task' : task'[t].loop = task[t].loop
    BY <1>1
  <2> QED BY <2>1, <2>2 DEF Family
<1>6. Recorded'
  BY <1>0, <1>1 DEF Recorded
<1> QED BY <1>3, <1>4, <1>5, <1>6 DEF Tiled

-----------------------------------------------------------------------------
(* Steps that leave the iterations where they are.                         *)

HandLabels == {"hand", "self"}

LEMMA Elsewhere == \A f : f.at \notin HandLabels => Unhanded(f) = <<>>
BY DEF Unhanded, HandLabels

LEMMA QuietLeaves ==
  ASSUME IInv, Tiled, NEW p \in Procs, stack[p] # <<>>, Top(p).at \notin HandLabels, Leaves(p), SameTasks
  PROVE  Tiled'
<1>1. PICK f : f = Nil
  OBVIOUS
<1>2. Moved(p, f, f)
  BY <1>1, LeavesMoves DEF IInv
<1>3. Unhanded(f) = <<>> /\ Unhanded(Top(p)) = <<>>
  BY <1>1, NilLeaves, Elsewhere
<1> QED BY <1>2, <1>3, Idles

LEMMA QuietGoes ==
  ASSUME IInv, IInv', Tiled, NEW p \in Procs, stack[p] # <<>>, Top(p).at \notin HandLabels,
         NEW f, f.at \notin HandLabels, Becomes(p, f, <<>>), SameTasks
  PROVE  Tiled'
<1>1. PICK g : g = Nil
  OBVIOUS
<1>2. Moved(p, f, g)
  BY <1>1, Became DEF IInv
<1>3. Unhanded(f) = <<>> /\ Unhanded(Top(p)) = <<>> /\ Unhanded(g) = <<>>
  BY <1>1, NilLeaves, Elsewhere
<1> QED BY <1>2, <1>3, Idles

LEMMA QuietCalls ==
  ASSUME IInv, IInv', Tiled, NEW p \in Procs, stack[p] # <<>>, Top(p).at \notin HandLabels,
         NEW f, f.at \notin HandLabels, NEW g, g.at \notin HandLabels, Becomes(p, f, <<g>>), SameTasks
  PROVE  Tiled'
<1>1. Moved(p, f, g)
  BY Called DEF IInv
<1>2. Unhanded(f) = <<>> /\ Unhanded(Top(p)) = <<>> /\ Unhanded(g) = <<>>
  BY Elsewhere
<1> QED BY <1>1, <1>2, Idles

LEMMA TasksAsBefore == ASSUME task' = task, plan' = plan, ran' = ran,
                              \A t \in DOMAIN task : node'[t].parent = node[t].parent
                       PROVE  SameTasks
BY DEF SameTasks

LEMMA EntryLabel == \A id, kind : Entry(id, kind).at \notin HandLabels
BY DEF Entry, TaskFrame, HandLabels

LEMMA AgainLabel == \A f, e : Again(f, e).at \notin HandLabels
BY DEF Again, LoopFrame, HandLabels

\* A frame with another label.
LEMMA Relabelled == ASSUME NEW e \in FrameSet, NEW a PROVE [e EXCEPT !.at = a].at = a
BY DEF FrameSet, TaskFrames, LoopFrames, MainFrames, PinFrames

LEMMA FoundTiles ==
  ASSUME IInv, IInv', Tiled, NEW p \in Procs, stack[p] # <<>>, Top(p).at \notin HandLabels,
         NEW id, Found(p, id), UNCHANGED <<objects, ran, plan>>
  PROVE  Tiled'
<1>1. PICK f : f = Again(Top(p), FALSE)
  OBVIOUS
<1>2. PICK g : g = Entry(id, task[id].kind)
  OBVIOUS
<1>3. Becomes(p, f, <<g>>)
  BY <1>1, <1>2 DEF Found
<1>4. f.at \notin HandLabels /\ g.at \notin HandLabels
  BY <1>1, <1>2, EntryLabel, AgainLabel
<1>5. SameTasks
  BY TasksAsBefore DEF objects
<1> QED BY <1>3, <1>4, <1>5, QuietCalls

LEMMA TakeLocalFrontTiles ==
  ASSUME IInv, IInv', Tiled, NEW p \in Procs, TakeLocalFront(p), plan' = plan PROVE Tiled'
<1>1. /\ stack[p] # <<>> /\ Top(p).at = "pop" /\ UNCHANGED <<objects, ran, plan>>
      /\ \/ Found(p, Last(local[p]))
         \/ Becomes(p, [Top(p) EXCEPT !.at = "mail"], <<>>)
  BY DEF TakeLocalFront, At
<1>2. Top(p).at \notin HandLabels
  BY <1>1 DEF HandLabels
<1>3. CASE Found(p, Last(local[p]))
  BY <1>1, <1>2, <1>3, FoundTiles
<1>4. CASE Becomes(p, [Top(p) EXCEPT !.at = "mail"], <<>>)
  <2>1. PICK f : f = [Top(p) EXCEPT !.at = "mail"]
    OBVIOUS
  <2>2. f.at \notin HandLabels
    BY <1>1, <2>1, TopFrame, Relabelled DEF IInv, HandLabels
  <2>3. SameTasks
    BY <1>1, TasksAsBefore DEF objects
  <2> QED BY <1>1, <1>2, <1>4, <2>1, <2>2, <2>3, QuietGoes
<1> QED BY <1>1, <1>3, <1>4

LEMMA TakeMailTiles ==
  ASSUME IInv, IInv', Tiled, NEW p \in Procs, TakeMail(p), plan' = plan PROVE Tiled'
<1>1. /\ stack[p] # <<>> /\ Top(p).at = "mail" /\ UNCHANGED <<objects, ran, plan>>
      /\ \/ Found(p, Head(mail[p]))
         \/ Becomes(p, Again(Top(p), FALSE), <<>>)
         \/ Becomes(p, [Top(p) EXCEPT !.at = "steal", !.left = N], <<>>)
  BY DEF TakeMail, At
<1>2. Top(p).at \notin HandLabels
  BY <1>1 DEF HandLabels
<1>3. SameTasks
  BY <1>1, TasksAsBefore DEF objects
<1>4. CASE Found(p, Head(mail[p]))
  BY <1>1, <1>2, <1>4, FoundTiles
<1>5. CASE Becomes(p, Again(Top(p), FALSE), <<>>)
  BY <1>1, <1>2, <1>3, <1>5, AgainLabel, QuietGoes
<1>6. CASE Becomes(p, [Top(p) EXCEPT !.at = "steal", !.left = N], <<>>)
  <2>1. PICK f : f = [Top(p) EXCEPT !.at = "steal", !.left = N]
    OBVIOUS
  <2>2. f.at = "steal"
    <3>1. Top(p) \in FrameSet
      BY <1>1, TopFrame DEF IInv
    <3> QED BY <2>1, <3>1 DEF FrameSet, TaskFrames, LoopFrames, MainFrames, PinFrames
  <2>3. f.at \notin HandLabels
    BY <2>2 DEF HandLabels
  <2> QED BY <1>1, <1>2, <1>3, <1>6, <2>1, <2>3, QuietGoes
<1> QED BY <1>1, <1>4, <1>5, <1>6

LEMMA NextLabel == ASSUME NEW e \in LoopFrames PROVE NextVictim(e).at = "steal"
BY DEF NextVictim, LoopFrames

LEMMA StealMailTiles ==
  ASSUME IInv, IInv', Tiled, NEW p \in Procs, StealMail(p), plan' = plan PROVE Tiled'
<1>1. /\ stack[p] # <<>> /\ Top(p).at = "steal" /\ UNCHANGED <<objects, ran, plan>>
  BY DEF StealMail, At
<1>2. Top(p).at \notin HandLabels
  BY <1>1 DEF HandLabels
<1>3. SameTasks
  BY <1>1, TasksAsBefore DEF objects
<1>4. PICK v, i, f : /\ f = [Top(p) EXCEPT !.victim = v, !.inc = i]
                     /\ \/ Found(p, Head(mail[v]))
                        \/ Becomes(p, IF f.empty THEN [f EXCEPT !.at = "rob"] ELSE NextVictim(f), <<>>)
  BY DEF StealMail
<1>5. CASE Found(p, Head(mail[v]))
  BY <1>1, <1>2, <1>5, FoundTiles
<1>6. CASE Becomes(p, IF f.empty THEN [f EXCEPT !.at = "rob"] ELSE NextVictim(f), <<>>)
  <2>1. PICK h : h = IF f.empty THEN [f EXCEPT !.at = "rob"] ELSE NextVictim(f)
    OBVIOUS
  <2>2. h.at \in {"rob", "steal"}
    <3>1. Top(p) \in LoopFrames
      BY <1>1, TopFrame, FrameKinds DEF IInv, LoopLabels
    <3>2. [f EXCEPT !.at = "rob"].at = "rob" /\ NextVictim(f).at = "steal"
      BY <1>4, <3>1 DEF LoopFrames, NextVictim
    <3> QED BY <2>1, <3>2
  <2>3. h.at \notin HandLabels
    BY <2>2 DEF HandLabels
  <2> QED BY <1>1, <1>2, <1>3, <1>6, <2>1, <2>3, QuietGoes
<1> QED BY <1>4, <1>5, <1>6

LEMMA StealLocalBackTiles ==
  ASSUME IInv, IInv', Tiled, NEW p \in Procs, StealLocalBack(p), plan' = plan PROVE Tiled'
<1>1. /\ stack[p] # <<>> /\ Top(p).at = "rob" /\ UNCHANGED <<objects, ran, plan>>
      /\ \/ Found(p, Head(local[Top(p).victim]))
         \/ Becomes(p, NextVictim(Top(p)), <<>>)
  BY DEF StealLocalBack, At
<1>2. Top(p).at \notin HandLabels
  BY <1>1 DEF HandLabels
<1>3. SameTasks
  BY <1>1, TasksAsBefore DEF objects
<1>4. CASE Found(p, Head(local[Top(p).victim]))
  BY <1>1, <1>2, <1>4, FoundTiles
<1>5. CASE Becomes(p, NextVictim(Top(p)), <<>>)
  <2>1. PICK h : h = NextVictim(Top(p))
    OBVIOUS
  <2>2. h.at = "steal"
    <3>1. Top(p) \in LoopFrames
      BY <1>1, TopFrame, FrameKinds DEF IInv, LoopLabels
    <3> QED BY <2>1, <3>1, NextLabel
  <2>3. h.at \notin HandLabels
    BY <2>2 DEF HandLabels
  <2> QED BY <1>1, <1>2, <1>3, <1>5, <2>1, <2>3, QuietGoes
<1> QED BY <1>1, <1>4, <1>5

LEMMA NothingFoundTiles ==
  ASSUME IInv, IInv', Tiled, NEW p \in Procs, NothingFound(p), plan' = plan PROVE Tiled'
<1>1. /\ stack[p] # <<>> /\ Top(p).at = "steal" /\ UNCHANGED <<objects, ran, plan>>
      /\ Leaves(p) \/ Becomes(p, Again(Top(p), TRUE), <<>>)
  BY DEF NothingFound, At
<1>2. Top(p).at \notin HandLabels /\ SameTasks
  BY <1>1, TasksAsBefore DEF HandLabels, objects
<1>3. CASE Leaves(p)
  BY <1>1, <1>2, <1>3, QuietLeaves
<1>4. CASE Becomes(p, Again(Top(p), TRUE), <<>>)
  <2>1. PICK h : h = Again(Top(p), TRUE)
    OBVIOUS
  <2>2. h.at \notin HandLabels
    BY <2>1, AgainLabel
  <2> QED BY <1>1, <1>2, <1>4, <2>1, <2>2, QuietGoes
<1> QED BY <1>1, <1>3, <1>4

LEMMA ExitTiles ==
  ASSUME IInv, Tiled, NEW p \in Procs, Exit(p), plan' = plan PROVE Tiled'
<1>1. /\ stack[p] # <<>> /\ Top(p).at = "main" /\ UNCHANGED <<objects, ran, plan>> /\ Leaves(p)
  BY DEF Exit, At
<1>2. Top(p).at \notin HandLabels /\ SameTasks
  BY <1>1, TasksAsBefore DEF HandLabels, objects
<1> QED BY <1>1, <1>2, QuietLeaves

LEMMA ParentsKept ==
  ASSUME Shape, NEW n, NEW c, node' = Replace(node, n, [node[n] EXCEPT !.count = c])
  PROVE  \A t \in DOMAIN task : node'[t].parent = node[t].parent
<1>1. DOMAIN node = DOMAIN task /\ \A t \in DOMAIN node : node[t] \in NodeSet
  BY ElementOfSeq, LenProperties DEF Shape
<1>2. node' = [node EXCEPT ![n] = [node[n] EXCEPT !.count = c]]
  BY DEF Replace
<1> QED BY <1>1, <1>2 DEF NodeSet

\* Task id becomes u.
LEMMA Turned ==
  ASSUME NEW id \in DOMAIN task, NEW u, task' = Replace(task, id, u)
  PROVE  /\ DOMAIN task' = DOMAIN task /\ task'[id] = u
         /\ \A t \in DOMAIN task : t # id => task'[t] = task[t]
BY DEF Replace

LEMMA TurnedSame ==
  ASSUME NEW id \in DOMAIN task, NEW u, task' = Replace(task, id, u),
         u.kind = task[id].kind, u.loop = task[id].loop, u.from = task[id].from, u.to = task[id].to,
         u.holds = task[id].holds \/ u.from = u.to, plan' = plan, ran' = ran,
         \A t \in DOMAIN task : node'[t].parent = node[t].parent
  PROVE  SameTasks
<1>1. /\ DOMAIN task' = DOMAIN task /\ task'[id] = u
      /\ \A t \in DOMAIN task : t # id => task'[t] = task[t]
  BY Turned
<1> QED BY <1>1 DEF SameTasks

\* The task that runs.
LEMMA Runner ==
  ASSUME IInv, NEW p \in Procs, stack[p] # <<>>, NEW id, id = Top(p).id, Top(p) \in TaskFrames \/ id # 0
  PROVE  /\ id \in Nat \ {0} /\ id \in DOMAIN task /\ task[id] \in TaskSet /\ Shape /\ Lives
         /\ task[id].from \in Nat /\ task[id].to \in Nat /\ task[id].from <= task[id].to
<1>1. id # 0
  BY DEF TaskFrames
<1>2. id \in Nat \ {0} /\ id \in DOMAIN task /\ task[id] \in TaskSet /\ Shape /\ Lives /\ TaskOK(task[id])
  BY <1>1, TopTask
<1> QED BY <1>2 DEF TaskSet, TaskOK

LEMMA AtTask ==
  ASSUME IInv, NEW p \in Procs, stack[p] # <<>>, Top(p).at \in InTask \cup {"enter", "leave", "to_pin", "pinned"}
  PROVE  Top(p) \in TaskFrames
BY TopFrame, FrameKinds DEF IInv

LEMMA JoinTiles ==
  ASSUME IInv, IInv', Tiled, NEW p \in Procs, Join(p), plan' = plan PROVE Tiled'
<1>1. /\ stack[p] # <<>> /\ Top(p).at = "join" /\ UNCHANGED <<task, ran, plan>>
      /\ \/ Leaves(p) /\ node' = Replace(node, Top(p).id, [node[Top(p).id] EXCEPT !.count = 0])
         \/ Becomes(p, LoopFrame(Top(p).id, "pop", FALSE), <<>>) /\ node' = node
  BY DEF Join, At
<1>2. \A t \in DOMAIN task : node'[t].parent = node[t].parent
  BY <1>1, ParentsKept DEF IInv
<1>3. Top(p).at \notin HandLabels /\ SameTasks
  BY <1>1, <1>2, TasksAsBefore DEF HandLabels
<1>4. CASE Leaves(p)
  BY <1>1, <1>3, <1>4, QuietLeaves
<1>5. CASE Becomes(p, LoopFrame(Top(p).id, "pop", FALSE), <<>>)
  <2>1. PICK h : h = LoopFrame(Top(p).id, "pop", FALSE)
    OBVIOUS
  <2>2. h.at \notin HandLabels
    BY <2>1 DEF LoopFrame, HandLabels
  <2> QED BY <1>1, <1>3, <1>5, <2>1, <2>2, QuietGoes
<1> QED BY <1>1, <1>4, <1>5

LEMMA TaskFrameLabel == \A id, at : TaskFrame(id, at).at = at /\ TaskFrame(id, at).id = id
BY DEF TaskFrame

LEMMA EnterTiles ==
  ASSUME IInv, IInv', Tiled, NEW p \in Procs, Enter(p), plan' = plan PROVE Tiled'
<1>1. PICK id : id = Top(p).id
  OBVIOUS
<1>2. /\ stack[p] # <<>> /\ Top(p).at = "enter" /\ UNCHANGED <<node, ran, plan>>
      /\ task' = Replace(task, id, [task[id] EXCEPT !.state = @ + 1])
      /\ Becomes(p, TaskFrame(id, "share"), <<>>) \/ Leaves(p)
  BY <1>1 DEF Enter, At
<1>3. id \in DOMAIN task /\ task[id] \in TaskSet
  BY <1>1, <1>2, AtTask, Runner
<1>4. PICK u : u = [task[id] EXCEPT !.state = @ + 1]
  OBVIOUS
<1>5. u.kind = task[id].kind /\ u.loop = task[id].loop /\ u.from = task[id].from /\ u.to = task[id].to
  BY <1>3, <1>4 DEF TaskSet
<1>6. u.holds = task[id].holds
  BY <1>3, <1>4, Zenon DEF TaskSet
<1>7. SameTasks
  BY <1>2, <1>3, <1>4, <1>5, <1>6, TurnedSame
<1>8. Top(p).at \notin HandLabels
  BY <1>2 DEF HandLabels
<1>9. CASE Leaves(p)
  BY <1>2, <1>7, <1>8, <1>9, QuietLeaves
<1>10. CASE Becomes(p, TaskFrame(id, "share"), <<>>)
  <2>1. PICK h : h = TaskFrame(id, "share")
    OBVIOUS
  <2>2. h.at \notin HandLabels
    BY <2>1, TaskFrameLabel DEF HandLabels
  <2> QED BY <1>2, <1>7, <1>8, <1>10, <2>1, <2>2, QuietGoes
<1> QED BY <1>2, <1>9, <1>10

LEMMA LeaveTiles ==
  ASSUME IInv, IInv', Tiled, NEW p \in Procs, Leave(p), plan' = plan PROVE Tiled'
<1>1. PICK id : id = Top(p).id
  OBVIOUS
<1>2. /\ stack[p] # <<>> /\ Top(p).at = "leave" /\ UNCHANGED <<node, ran, plan>>
      /\ task' = Replace(task, id, [task[id] EXCEPT !.state = @ + 1]) /\ Leaves(p)
  BY <1>1 DEF Leave, At
<1>3. id \in DOMAIN task /\ task[id] \in TaskSet
  BY <1>1, <1>2, AtTask, Runner
<1>4. PICK u : u = [task[id] EXCEPT !.state = @ + 1]
  OBVIOUS
<1>5. u.kind = task[id].kind /\ u.loop = task[id].loop /\ u.from = task[id].from /\ u.to = task[id].to
  BY <1>3, <1>4 DEF TaskSet
<1>6. u.holds = task[id].holds
  BY <1>3, <1>4, Zenon DEF TaskSet
<1>7. SameTasks
  BY <1>2, <1>3, <1>4, <1>5, <1>6, TurnedSame
<1>8. Top(p).at \notin HandLabels
  BY <1>2 DEF HandLabels
<1> QED BY <1>2, <1>7, <1>8, QuietLeaves

LEMMA ReleaseTiles ==
  ASSUME IInv, IInv', Tiled, NEW p \in Procs, Release(p), plan' = plan PROVE Tiled'
<1>1. PICK e : e = Top(p)
  OBVIOUS
<1>2. /\ stack[p] # <<>> /\ e.at = "release" /\ UNCHANGED <<task, ran, plan>>
      /\ node' = Replace(node, e.ptr, [node[e.ptr] EXCEPT !.count = @ - 1])
      /\ \/ Becomes(p, [e EXCEPT !.ptr = node[e.ptr].parent], <<>>)
         \/ Leaves(p)
         \/ Becomes(p, TaskFrame(e.id, "leave"), <<>>)
         \/ Becomes(p, LoopFrame(e.id, "join", FALSE), <<>>)
  <2>1. At(p, "release") /\ UNCHANGED <<queues, task, ran, done>>
    BY DEF Release
  <2>2. /\ node' = Replace(node, e.ptr, [node[e.ptr] EXCEPT !.count = @ - 1])
        /\ \/ Becomes(p, [e EXCEPT !.ptr = node[e.ptr].parent], <<>>)
           \/ Leaves(p)
           \/ Becomes(p, TaskFrame(e.id, "leave"), <<>>)
           \/ Becomes(p, LoopFrame(e.id, "join", FALSE), <<>>)
    BY <1>1 DEF Release
  <2> QED BY <1>1, <2>1, <2>2 DEF At
<1>3. \A t \in DOMAIN task : node'[t].parent = node[t].parent
  <2>1. DOMAIN node = DOMAIN task /\ \A t \in DOMAIN node : node[t] \in NodeSet
    BY ElementOfSeq, LenProperties DEF IInv, Shape
  <2> QED BY <1>2, <2>1 DEF NodeSet, Replace
<1>4. Top(p).at \notin HandLabels /\ SameTasks
  BY <1>1, <1>2, <1>3, TasksAsBefore DEF HandLabels
<1>5. CASE Leaves(p)
  BY <1>2, <1>4, <1>5, QuietLeaves
<1>6. ASSUME NEW h, Becomes(p, h, <<>>), h.at \in {"release", "leave", "join"} PROVE Tiled'
  <2>1. h.at \notin HandLabels
    BY <1>6 DEF HandLabels
  <2> QED BY <1>2, <1>4, <1>6, <2>1, QuietGoes
<1>7. CASE Becomes(p, [e EXCEPT !.ptr = node[e.ptr].parent], <<>>)
  <2>1. e \in TaskFrames
    BY <1>1, <1>2, AtTask DEF InTask
  <2>2. [e EXCEPT !.ptr = node[e.ptr].parent].at = "release"
    BY <1>2, <2>1 DEF TaskFrames
  <2>3. PICK h : h = [e EXCEPT !.ptr = node[e.ptr].parent]
    OBVIOUS
  <2> QED BY <1>6, <1>7, <2>2, <2>3
<1>8. CASE Becomes(p, TaskFrame(e.id, "leave"), <<>>)
  <2>1. PICK h : h = TaskFrame(e.id, "leave")
    OBVIOUS
  <2> QED BY <1>6, <1>8, <2>1, TaskFrameLabel
<1>9. CASE Becomes(p, LoopFrame(e.id, "join", FALSE), <<>>)
  <2>1. PICK h : h = LoopFrame(e.id, "join", FALSE)
    OBVIOUS
  <2>2. h.at = "join"
    BY <2>1 DEF LoopFrame
  <2> QED BY <1>6, <1>9, <2>1, <2>2
<1> QED BY <1>2, <1>5, <1>7, <1>8, <1>9

LEMMA PinMainTiles ==
  ASSUME IInv, IInv', Tiled, NEW p \in Procs, PinMain(p), UNCHANGED <<ran, plan>> PROVE Tiled'
<1>1. /\ stack[p] # <<>> /\ Top(p).at = "pin" /\ UNCHANGED <<objects, ran, plan>>
      /\ Becomes(p, [Top(p) EXCEPT !.at = "gather"], <<>>)
  BY DEF PinMain, At
<1>2. Top(p).at \notin HandLabels /\ SameTasks
  BY <1>1, TasksAsBefore DEF HandLabels, objects
<1>3. PICK f : f = [Top(p) EXCEPT !.at = "gather"]
  OBVIOUS
<1>4. f.at \notin HandLabels
  BY <1>1, <1>3, TopFrame, Relabelled DEF IInv, HandLabels
<1> QED BY <1>1, <1>2, <1>3, <1>4, QuietGoes

LEMMA PinMeTiles ==
  ASSUME IInv, IInv', Tiled, NEW p \in Procs, PinMe(p), UNCHANGED <<ran, plan>> PROVE Tiled'
<1>1. /\ stack[p] # <<>> /\ Top(p).at = "to_pin" /\ UNCHANGED <<objects, ran, plan>>
      /\ Becomes(p, TaskFrame(Top(p).id, "pinned"), <<>>)
  BY DEF PinMe, At
<1>2. Top(p).at \notin HandLabels /\ SameTasks
  BY <1>1, TasksAsBefore DEF HandLabels, objects
<1>3. PICK f : f = TaskFrame(Top(p).id, "pinned")
  OBVIOUS
<1>4. f.at \notin HandLabels
  BY <1>3, TaskFrameLabel DEF HandLabels
<1> QED BY <1>1, <1>2, <1>3, <1>4, QuietGoes

LEMMA NotifyTiles ==
  ASSUME IInv, IInv', Tiled, NEW p \in Procs, Notify(p), UNCHANGED <<ran, plan>> PROVE Tiled'
<1>1. /\ stack[p] # <<>> /\ Top(p).at = "pinned" /\ UNCHANGED <<objects, ran, plan>>
      /\ Becomes(p, TaskFrame(Top(p).id, "gather"), <<>>)
  BY DEF Notify, At
<1>2. Top(p).at \notin HandLabels /\ SameTasks
  BY <1>1, TasksAsBefore DEF HandLabels, objects
<1>3. PICK f : f = TaskFrame(Top(p).id, "gather")
  OBVIOUS
<1>4. f.at \notin HandLabels
  BY <1>3, TaskFrameLabel DEF HandLabels
<1> QED BY <1>1, <1>2, <1>3, <1>4, QuietGoes

LEMMA GatherTiles ==
  ASSUME IInv, Tiled, NEW p \in Procs, Gather(p), UNCHANGED <<ran, plan>> PROVE Tiled'
<1>1. stack[p] # <<>> /\ Top(p).at = "gather" /\ UNCHANGED <<task, node, ran, plan>> /\ Leaves(p)
  BY DEF Gather, At
<1>2. Top(p).at \notin HandLabels /\ SameTasks
  BY <1>1, TasksAsBefore DEF HandLabels
<1> QED BY <1>1, <1>2, QuietLeaves

-----------------------------------------------------------------------------
(* Steps that make a task.                                                 *)

LEMMA Grown == ASSUME NEW X, NEW m \in Seq(X), NEW u
               PROVE  /\ DOMAIN Append(m, u) = DOMAIN m \cup {Len(m) + 1} /\ Append(m, u)[Len(m) + 1] = u
                      /\ Len(m) + 1 \notin DOMAIN m /\ \A k \in DOMAIN m : Append(m, u)[k] = m[k]
<1>1. PICK Y : Y = X \cup {u}
  OBVIOUS
<1>2. m \in Seq(Y) /\ u \in Y
  BY <1>1, SeqDef
<1>3. PICK s, new : s = Append(m, u) /\ new = Len(m) + 1
  OBVIOUS
<1>4. /\ s \in Seq(Y) /\ Len(s) = new /\ s[new] = u /\ DOMAIN s = DOMAIN m \cup {new}
      /\ new \notin DOMAIN m /\ \A k \in DOMAIN m : s[k] = m[k]
  BY <1>2, <1>3, Appended
<1> QED BY <1>3, <1>4

\* No frame is about the task that is still to be made.
LEMMA NoneYet == ASSUME IInv, NEW new, new = Len(task) + 1
                 PROVE  Pending(new) = {} /\ new \in Nat \ {0} /\ new \notin DOMAIN task
<1>1. DOMAIN task = 1 .. Len(task) /\ Len(task) \in Nat /\ Shape /\ Lives
  BY LenProperties DEF IInv, Shape
<1>2. new \in Nat \ {0} /\ new \notin DOMAIN task
  BY <1>1
<1>3. \A x \in Frames : Frame(x).id # new
  BY <1>1, <1>2, FrameTask
<1> QED BY <1>2, <1>3 DEF Pending

LEMMA BirthsTile ==
  ASSUME IInv, Tiled, NEW p \in Procs, stack[p] # <<>>, Top(p).at \notin HandLabels,
         NEW f, NEW g, Moved(p, f, g), Unhanded(f) = <<>>, Unhanded(g) = <<>>,
         NEW new, new = Len(task) + 1, NEW u, task' = Append(task, u), NEW v, node' = Append(node, v),
         v.parent = NoTask, u.from \in Nat, u.to \in Nat, u.holds \/ u.from = u.to,
         \/ /\ u.kind \in {"root", "inner"} /\ u.loop = new /\ u.from = 0
            /\ u.to = IF u.kind = "root" THEN plan.size ELSE plan.inner
         \/ u.kind = "pin" /\ u.loop = NoTask /\ u.from = u.to,
         plan' = plan, ran' = ran
  PROVE  Tiled'
<1>0. Family /\ Apart /\ ToDo /\ Covered /\ Above /\ Recorded /\ Shape /\ Lives
  BY DEF Tiled, IInv
<1>1. /\ DOMAIN task' = DOMAIN task \cup {new} /\ task'[new] = u /\ new \notin DOMAIN task
      /\ \A t \in DOMAIN task : task'[t] = task[t]
  BY <1>0, Grown DEF Shape
<1>2. /\ DOMAIN node = DOMAIN task /\ node'[new] = v /\ \A t \in DOMAIN task : node'[t] = node[t]
  <2>1. DOMAIN node = DOMAIN task /\ new = Len(node) + 1 /\ node \in Seq(NodeSet)
    BY <1>0, LenProperties DEF Shape
  <2> QED BY <2>1, Grown
<1>3. \A t : Pending(t)' = Pending(t)
  <2>1. Unhanded(Top(p)) = <<>>
    BY Elsewhere
  <2> QED BY <1>0, <2>1, PendingStays
<1>4. \A t \in DOMAIN task : Region(t)' = Region(t)
  <2>1. \A t \in DOMAIN task : Own(t)' = Own(t)
    BY <1>1 DEF Own
  <2> QED BY <1>3, <2>1 DEF Region
<1>5. Region(new)' = {i \in Nat : u.from <= i /\ i < u.to}
  <2>1. Pending(new)' = {}
    BY <1>3, NoneYet
  <2>2. Own(new)' = {i \in Nat : u.from <= i /\ i < u.to}
    BY <1>1 DEF Own
  <2> QED BY <2>1, <2>2 DEF Region
<1>6. PICK s : s = SizeOf(new)'
  OBVIOUS
<1>7. /\ IsLoop(new)' <=> u.kind \in {"root", "inner"}
      /\ s = IF u.kind = "root" THEN plan.size ELSE plan.inner
  BY <1>1, <1>6 DEF IsLoop, SizeOf
<1>8. Apart' /\ ToDo' /\ Covered'
  <2>1. \A t \in DOMAIN task : task'[t].loop = task[t].loop /\ task'[t].kind = task[t].kind
    BY <1>1
  <2>2. IsLoop(new)' => task'[new].loop = new
    BY <1>1, <1>7
  <2>3. IsLoop(new)' => Region(new)' = {i \in Nat : i < s}
    BY <1>5, <1>7
  <2>4. ~IsLoop(new)' => Region(new)' = {}
    BY <1>5, <1>7
  <2> QED BY <1>0, <1>1, <1>4, <1>6, <2>1, <2>2, <2>3, <2>4, Homes, BirthTiles
<1>9. Above'
  <2>1. DOMAIN Unhanded(f) = {}
    OBVIOUS
  <2>2. Stacked(f)'
    BY <2>1 DEF Stacked
  <2> QED BY <1>0, <1>1, <2>2, AboveStays
<1>10. Family'
  <2>1. ASSUME NEW t \in DOMAIN task'
        PROVE  /\ task'[t].kind = "pin" => task'[t].loop = NoTask /\ task'[t].from = task'[t].to
               /\ task'[t].kind # "pin" => task'[t].loop \in DOMAIN task' /\ task'[task'[t].loop].kind \in {"root", "inner"}
               /\ task'[t].kind \in {"root", "inner"} => task'[t].loop = t
               /\ node'[t].parent # NoTask => task'[node'[t].parent].loop = task'[t].loop
               /\ ~task'[t].holds => task'[t].from = task'[t].to
    <3>1. CASE t = new
      BY <1>1, <1>2, <3>1
    <3>2. CASE t \in DOMAIN task
      <4>1. /\ task[t].kind = "pin" => task[t].loop = NoTask /\ task[t].from = task[t].to
            /\ task[t].kind # "pin" => task[t].loop \in DOMAIN task /\ task[task[t].loop].kind \in {"root", "inner"}
            /\ task[t].kind \in {"root", "inner"} => task[t].loop = t
            /\ node[t].parent # NoTask => task[node[t].parent].loop = task[t].loop
            /\ ~task[t].holds => task[t].from = task[t].to
        BY <1>0, <3>2 DEF Family, IsLoop
      <4>2. node[t].parent # NoTask => node[t].parent \in DOMAIN task
        BY <3>2, ParentThere
      <4> QED BY <1>1, <1>2, <3>2, <4>1, <4>2
    <3> QED BY <1>1, <3>1, <3>2
  <2> QED BY <2>1 DEF Family, IsLoop
<1>11. Recorded'
  BY <1>0, <1>1 DEF Recorded
<1> QED BY <1>8, <1>9, <1>10, <1>11 DEF Tiled

\* A task is pushed, or its entry is called.
LEMMA SentForms ==
  ASSUME NEW p, NEW q, NEW id, NEW kind, NEW f, PushTask(p, q, id, f) \/ ExecuteTask(p, q, id, kind, f)
  PROVE  Becomes(p, f, <<>>) \/ Becomes(p, f, <<Entry(id, kind)>>)
BY DEF PushTask, ExecuteTask

LEMMA SentMoves ==
  ASSUME Shape, Shape', NEW p \in Procs, stack[p] # <<>>, NEW id, NEW kind, NEW f,
         Becomes(p, f, <<>>) \/ Becomes(p, f, <<Entry(id, kind)>>)
  PROVE  f \in FrameSet /\ \E g : Moved(p, f, g) /\ Unhanded(g) = <<>>
<1>1. CASE Becomes(p, f, <<>>)
  <2>1. f \in FrameSet /\ Moved(p, f, Nil)
    BY <1>1, Became
  <2> QED BY <2>1, NilLeaves
<1>2. CASE Becomes(p, f, <<Entry(id, kind)>>)
  <2>1. PICK g : g = Entry(id, kind)
    OBVIOUS
  <2>2. f \in FrameSet /\ Moved(p, f, g)
    BY <1>2, <2>1, Called
  <2>3. Unhanded(g) = <<>>
    BY <2>1, EntryLabel, Elsewhere
  <2> QED BY <2>2, <2>3
<1> QED BY <1>1, <1>2

LEMMA PushPinTiles ==
  ASSUME IInv, IInv', Tiled, NEW p \in Procs, PushPin(p), UNCHANGED <<ran, plan>> PROVE Tiled'
<1>1. PICK f, u, v, next, new : /\ f = [Top(p) EXCEPT !.next = @ + 1] /\ u = PinTask(next)
                                /\ v = [parent |-> NoTask, count |-> 0] /\ next = Top(p).next
                                /\ new = Len(task) + 1
  OBVIOUS
<1>2. /\ stack[p] # <<>> /\ Top(p).at = "pin" /\ task' = Append(task, u) /\ node' = Append(node, v)
      /\ RunOnThread(p, Fresh, "pin", Top(p).next, f)
  BY <1>1 DEF PushPin, At
<1>3. Top(p) \in PinFrames /\ next \in Nat
  <2>1. Top(p) \in PinFrames
    BY <1>2, TopFrame, FrameKinds DEF IInv
  <2> QED BY <1>1, <2>1 DEF PinFrames
<1>4. Unhanded(f) = <<>>
  <2>1. f.at = "pin"
    BY <1>1, <1>2, <1>3 DEF PinFrames
  <2> QED BY <2>1 DEF Unhanded
<1>5. PICK g : Moved(p, f, g) /\ Unhanded(g) = <<>>
  <2>1. PICK id, kind : id = Fresh /\ kind = "pin"
    OBVIOUS
  <2>2. Becomes(p, f, <<>>) \/ Becomes(p, f, <<Entry(id, kind)>>)
    BY <1>2, <2>1, SentForms DEF RunOnThread
  <2> QED BY <1>2, <2>2, SentMoves DEF IInv
<1>6. /\ u.kind = "pin" /\ u.loop = NoTask /\ u.from = next /\ u.to = next
  BY <1>1 DEF PinTask, Task
<1>7. v.parent = NoTask
  BY <1>1
<1>8. Top(p).at \notin HandLabels
  BY <1>2 DEF HandLabels
<1> QED BY <1>1, <1>2, <1>3, <1>4, <1>5, <1>6, <1>7, <1>8, BirthsTile

\* A loop begins, above the frame f.
LEMMA BeginTiles ==
  ASSUME IInv, IInv', Tiled, NEW p \in Procs, stack[p] # <<>>, Top(p).at \notin HandLabels,
         NEW f, f.at \notin HandLabels, Becomes(p, f, <<TaskFrame(Fresh, "share")>>),
         NEW kind \in LoopKinds, NEW size \in Nat, BeginLoop(p, kind, size),
         size = IF kind = "root" THEN plan.size ELSE plan.inner, plan' = plan
  PROVE  Tiled'
<1>1. PICK g, new, u, v :
        /\ g = TaskFrame(Fresh, "share") /\ new = Fresh
        /\ u = Task(kind, Fresh, [from |-> 0, to |-> size, lo |-> 0, hi |-> N, grain |-> GrainSize],
                    plan.sharing /\ TaskStackEmpty(p), plan.timespan)
        /\ v = [parent |-> NoTask, count |-> 2]
  OBVIOUS
<1>2. task' = Append(task, u) /\ node' = Append(node, v) /\ ran' = ran
  BY <1>1 DEF BeginLoop
<1>3. Moved(p, f, g)
  BY <1>1, Called DEF IInv
<1>4. Unhanded(f) = <<>> /\ Unhanded(g) = <<>>
  <2>1. g.at \notin HandLabels
    BY <1>1, TaskFrameLabel DEF HandLabels
  <2> QED BY <2>1, Elsewhere
<1>5. u.kind = kind /\ u.loop = new /\ u.from = 0 /\ u.to = size
  BY <1>1 DEF Task
<1>6. u.holds
  BY <1>1 DEF Task
<1>7. u.kind \in {"root", "inner"}
  BY <1>5 DEF LoopKinds
<1>8. v.parent = NoTask /\ new = Len(task) + 1
  BY <1>1 DEF Fresh
<1>9. u.from \in Nat /\ u.to \in Nat
  BY <1>5
<1>10. u.to = IF u.kind = "root" THEN plan.size ELSE plan.inner
  BY <1>5
<1> QED BY <1>2, <1>3, <1>4, <1>5, <1>6, <1>7, <1>8, <1>9, <1>10, BirthsTile

LEMMA PlanSizes == ASSUME IInv PROVE plan.size \in Nat /\ plan.inner \in Nat
BY ShapeAssumption DEF IInv, Shape, GoodPlan

LEMMA CallLoopTiles ==
  ASSUME IInv, IInv', Tiled, NEW p \in Procs, CallLoop(p), plan' = plan PROVE Tiled'
<1>1. PICK f, kind, size : f = MainFrame(Top(p).calls - 1) /\ kind = "root" /\ size = plan.size
  OBVIOUS
<1>2. /\ stack[p] # <<>> /\ Top(p).at = "main" /\ Becomes(p, f, <<TaskFrame(Fresh, "share")>>)
      /\ BeginLoop(p, kind, size)
  BY <1>1 DEF CallLoop, At
<1>3. f.at \notin HandLabels /\ Top(p).at \notin HandLabels
  BY <1>1, <1>2 DEF MainFrame, HandLabels
<1>4. kind \in LoopKinds /\ size \in Nat /\ size = IF kind = "root" THEN plan.size ELSE plan.inner
  BY <1>1, PlanSizes DEF LoopKinds
<1> QED BY <1>2, <1>3, <1>4, BeginTiles

-----------------------------------------------------------------------------
(* Iterations that are run.                                                *)

\* Task t keeps its family, whatever becomes of its range.
Related(t) ==
  /\ task'[t].kind = task[t].kind /\ task'[t].loop = task[t].loop /\ node'[t].parent = node[t].parent
  /\ \/ task'[t].from = task[t].from /\ task'[t].to = task[t].to /\ task'[t].holds = task[t].holds
     \/ task'[t].kind # "pin" /\ task'[t].holds

LEMMA FamilyGrows ==
  ASSUME IInv, Family, DOMAIN task \subseteq DOMAIN task', \A t \in DOMAIN task : Related(t),
         \A t \in DOMAIN task' : t \in DOMAIN task \/
            /\ task'[t].kind \in {"proxy", "unique"} /\ task'[t].holds
            /\ node'[t].parent \in DOMAIN task /\ task'[t].loop = task[node'[t].parent].loop
            /\ task[node'[t].parent].kind # "pin"
  PROVE  Family'
<1>1. ASSUME NEW t \in DOMAIN task'
      PROVE  /\ task'[t].kind = "pin" => task'[t].loop = NoTask /\ task'[t].from = task'[t].to
             /\ task'[t].kind # "pin" => task'[t].loop \in DOMAIN task' /\ task'[task'[t].loop].kind \in {"root", "inner"}
             /\ task'[t].kind \in {"root", "inner"} => task'[t].loop = t
             /\ node'[t].parent # NoTask => task'[node'[t].parent].loop = task'[t].loop
             /\ ~task'[t].holds => task'[t].from = task'[t].to
  <2>1. \A k \in DOMAIN task : task[k].kind # "pin" =>
                /\ task[k].loop \in DOMAIN task /\ task[task[k].loop].kind \in {"root", "inner"}
    BY DEF Family, IsLoop
  <2>2. \A k \in DOMAIN task : task'[k].kind = task[k].kind /\ task'[k].loop = task[k].loop
    BY DEF Related
  <2>3. CASE t \in DOMAIN task
    <3>1. /\ task[t].kind = "pin" => task[t].loop = NoTask /\ task[t].from = task[t].to
          /\ task[t].kind \in {"root", "inner"} => task[t].loop = t
          /\ node[t].parent # NoTask => task[node[t].parent].loop = task[t].loop
          /\ ~task[t].holds => task[t].from = task[t].to
      BY <2>3 DEF Family, IsLoop
    <3>2. node[t].parent # NoTask => node[t].parent \in DOMAIN task
      BY <2>3, ParentThere
    <3>3. /\ task'[t].kind = "pin" => task'[t].loop = NoTask /\ task'[t].from = task'[t].to
          /\ node'[t].parent = node[t].parent
          /\ ~task'[t].holds => task'[t].from = task'[t].to
      BY <2>3, <3>1 DEF Related
    <3> QED BY <2>1, <2>2, <2>3, <3>1, <3>2, <3>3
  <2>4. CASE t \notin DOMAIN task
    BY <1>1, <2>1, <2>2, <2>4
  <2> QED BY <2>3, <2>4
<1> QED BY <1>1 DEF Family, IsLoop

LEMMA FamilyTurns ==
  ASSUME IInv, Family, NEW id \in DOMAIN task, NEW u, task' = Replace(task, id, u), u.holds, u.kind # "pin",
         u.kind = task[id].kind, u.loop = task[id].loop,
         \A t \in DOMAIN task : node'[t].parent = node[t].parent
  PROVE  Family'
<1>1. /\ DOMAIN task' = DOMAIN task /\ task'[id] = u
      /\ \A t \in DOMAIN task : t # id => task'[t] = task[t]
  BY Turned
<1>2. \A t \in DOMAIN task : Related(t)
  BY <1>1 DEF Related
<1> QED BY <1>1, <1>2, FamilyGrows

\* Task id has run the first iteration of its range.
LEMMA RanOne ==
  ASSUME IInv, IInv', Tiled, NEW p \in Procs, stack[p] # <<>>, Top(p).at \notin HandLabels \cup {"enter"},
         NEW id, id = Top(p).id, id \in Nat \ {0}, id \in DOMAIN task,
         NEW f, f.at \notin HandLabels, f.id = id, Becomes(p, f, <<>>),
         NEW u, task' = Replace(task, id, u), u.kind = task[id].kind, u.loop = task[id].loop,
             u.kind # "pin",
         u.holds, u.from = task[id].from + 1, u.to = task[id].to, task[id].from \in Nat,
             task[id].to \in Nat,
         task[id].from < task[id].to, node' = node, plan' = plan,
         ran' = ran \cup {<<task[id].loop, task[id].from>>}
  PROVE  Tiled'
<1>0. Family /\ Apart /\ ToDo /\ Covered /\ Above /\ Recorded /\ Shape /\ Lives
  BY DEF Tiled, IInv
<1>1. /\ DOMAIN task' = DOMAIN task /\ task'[id] = u
      /\ \A t \in DOMAIN task : t # id => task'[t] = task[t]
  BY Turned
<1>2. PICK g : g = Nil
  OBVIOUS
<1>3. f \in FrameSet /\ Moved(p, f, g)
  BY <1>0, <1>2, Became DEF IInv
<1>4. Unhanded(f) = <<>> /\ Unhanded(g) = <<>> /\ Unhanded(Top(p)) = <<>>
  BY <1>2, NilLeaves, Elsewhere
<1>5. Left(f) = {} /\ Left(Top(p)) = {}
  BY <1>4, NilLeaves
<1>6. /\ Pending(id) = {} /\ Pending(id)' = {}
      /\ \A t : t # id => Pending(t)' = Pending(t)
  BY <1>0, <1>3, <1>4, <1>5, PendingTurns
<1>7. PICK i : i = task[id].from
  OBVIOUS
<1>8. Region(id) = {k \in Nat : i <= k /\ k < task[id].to}
  BY <1>6, <1>7 DEF Region, Own
<1>9. Region(id)' = Region(id) \ {i}
  <2>1. Region(id)' = {k \in Nat : i + 1 <= k /\ k < task[id].to}
    BY <1>1, <1>6, <1>7 DEF Region, Own
  <2> QED BY <1>7, <1>8, <2>1
<1>10. \A t \in DOMAIN task : Region(t)' = IF t = id THEN Region(t) \ {i} ELSE Region(t)
  <2>1. \A t \in DOMAIN task : t # id => Region(t)' = Region(t)
    BY <1>1, <1>6 DEF Region, Own
  <2> QED BY <1>9, <2>1
<1>11. Apart' /\ ToDo' /\ Covered'
  <2>1. i \in Nat /\ i \in Region(id)
    BY <1>7, <1>8
  <2>2. \A t \in DOMAIN task : task'[t].loop = task[t].loop /\ task'[t].kind = task[t].kind
    BY <1>1
  <2> QED BY <1>0, <1>1, <1>7, <1>10, <2>1, <2>2, Homes, RunTiles
<1>12. Above'
  <2>1. DOMAIN Unhanded(f) = {}
    BY <1>4
  <2>2. Stacked(f)'
    BY <2>1 DEF Stacked
  <2>3. \A t \in DOMAIN task : task'[t].to = task[t].to
    BY <1>1
  <2> QED BY <1>0, <1>3, <1>4, <2>2, <2>3, AboveStays
<1>13. Family'
  BY <1>0, FamilyTurns
<1>14. Recorded'
  <2>1. task[id].loop \in DOMAIN task
    BY <1>0 DEF Family
  <2> QED BY <1>0, <1>1, <2>1 DEF Recorded
<1> QED BY <1>11, <1>12, <1>13, <1>14 DEF Tiled

LEMMA AtWork ==
  ASSUME IInv, NEW p \in Procs, stack[p] # <<>>,
         Top(p).at \in {"share", "hand", "self", "span", "span_body", "split", "rest", "rest_body"},
         NEW id, id = Top(p).id
  PROVE  /\ id \in Nat \ {0} /\ id \in DOMAIN task /\ task[id] \in TaskSet /\ TaskOK(task[id])
         /\ task[id].kind # "pin" /\ task[id].holds
         /\ task[id].from \in Nat /\ task[id].to \in Nat /\ task[id].from <= task[id].to
         /\ Top(p).at \in Bodies => task[id].from < task[id].to
         /\ Top(p) \in TaskFrames /\ FrameOK(p, Top(p)) /\ Shape /\ Lives
<1>1. Top(p).at \in InTask /\ Top(p).at \in InTask \ {"release"}
  BY DEF InTask
<1>2. Top(p) \in TaskFrames
  BY <1>1, AtTask
<1>3. End(stack, p) \in Frames /\ Frame(End(stack, p)) = Top(p) /\ End(stack, p)[1] = p
  BY TopFrame DEF IInv, End
<1>4. FrameOK(p, Top(p)) /\ Busy(Top(p))
  BY <1>3 DEF IInv, FramesOK
<1>5. task[id].kind # "pin" /\ task[id].holds /\ (Top(p).at \in Bodies => task[id].from < task[id].to)
  BY <1>1, <1>4 DEF FrameOK, Busy
<1>6. id # 0
  BY <1>2 DEF TaskFrames
<1>7. id \in Nat \ {0} /\ id \in DOMAIN task /\ task[id] \in TaskSet /\ Shape /\ Lives /\ TaskOK(task[id])
  BY <1>6, TopTask
<1>8. task[id].from \in Nat /\ task[id].to \in Nat /\ task[id].from <= task[id].to
  BY <1>7 DEF TaskSet, TaskOK
<1> QED BY <1>2, <1>4, <1>5, <1>7, <1>8

LEMMA FinishTiles ==
  ASSUME IInv, IInv', Tiled, NEW p \in Procs, stack[p] # <<>>,
         Top(p).at \in {"span", "span_body", "rest", "rest_body"},
         task[Top(p).id].from < task[Top(p).id].to, NEW phase, Finish(p, phase), plan' = plan
  PROVE  Tiled'
<1>1. PICK id, t : id = Top(p).id /\ t = task[id]
  OBVIOUS
<1>2. /\ id \in Nat \ {0} /\ id \in DOMAIN task /\ t \in TaskSet /\ t.kind # "pin" /\ t.holds
      /\ t.from \in Nat /\ t.to \in Nat /\ t.from < t.to
  BY <1>1, AtWork
<1>3. node' = node /\ ran' = ran \cup {<<t.loop, t.from>>}
  BY <1>1 DEF Finish
<1>4. Top(p).at \notin HandLabels \cup {"enter"}
  BY DEF HandLabels
<1>5. ASSUME NEW u, u.kind = t.kind, u.loop = t.loop, u.holds, u.from = t.from + 1, u.to = t.to,
             task' = Replace(task, id, u), NEW at, at \in {"split", "rest", "span"},
             Becomes(p, TaskFrame(id, at), <<>>)
      PROVE  Tiled'
  <2>1. PICK f : f = TaskFrame(id, at)
    OBVIOUS
  <2>2. f.at \notin HandLabels /\ f.id = id
    BY <1>5, <2>1, TaskFrameLabel DEF HandLabels
  <2>3. Becomes(p, f, <<>>)
    BY <1>5, <2>1
  <2> QED BY <1>1, <1>2, <1>3, <1>4, <1>5, <2>2, <2>3, RanOne
<1>6. CASE /\ task' = Replace(task, id, [t EXCEPT !.from = @ + 1])
           /\ Becomes(p, TaskFrame(id, IF phase = "span" THEN "split" ELSE "rest"), <<>>)
  <2>1. PICK u, at : u = [t EXCEPT !.from = @ + 1] /\ at = IF phase = "span" THEN "split" ELSE "rest"
    OBVIOUS
  <2>2. u.kind = t.kind /\ u.loop = t.loop /\ u.from = t.from + 1 /\ u.to = t.to
    BY <1>2, <2>1 DEF TaskSet
  <2>3. u.holds
    BY <1>2, <2>1, Zenon DEF TaskSet
  <2>4. at \in {"split", "rest", "span"} /\ Becomes(p, TaskFrame(id, at), <<>>) /\ task' = Replace(task, id, u)
    BY <1>6, <2>1
  <2> QED BY <1>5, <2>2, <2>3, <2>4
<1>7. CASE /\ task' = Replace(task, id, [t EXCEPT !.from = @ + 1, !.grain = @ + 1])
           /\ Becomes(p, TaskFrame(id, "span"), <<>>)
  <2>1. PICK u, at : u = [t EXCEPT !.from = @ + 1, !.grain = @ + 1] /\ at = "span"
    OBVIOUS
  <2>2. u.kind = t.kind /\ u.loop = t.loop /\ u.from = t.from + 1 /\ u.to = t.to
    BY <1>2, <2>1 DEF TaskSet
  <2>3. u.holds
    BY <1>2, <2>1, Zenon DEF TaskSet
  <2>4. at \in {"split", "rest", "span"} /\ Becomes(p, TaskFrame(id, at), <<>>) /\ task' = Replace(task, id, u)
    BY <1>7, <2>1
  <2> QED BY <1>5, <2>2, <2>3, <2>4
<1> QED BY <1>1, <1>6, <1>7 DEF Finish

LEMMA FinishBodyTiles ==
  ASSUME IInv, IInv', Tiled, NEW p \in Procs, FinishBody(p), plan' = plan PROVE Tiled'
<1>1. stack[p] # <<>> /\ Top(p).at \in Bodies
  BY DEF FinishBody
<1>2. PICK phase : phase = IF Top(p).at = "span_body" THEN "span" ELSE "rest"
  OBVIOUS
<1>3. Finish(p, phase)
  BY <1>2 DEF FinishBody
<1>4. Top(p).at \in {"span", "span_body", "rest", "rest_body"}
  BY <1>1 DEF Bodies
<1>5. task[Top(p).id].from < task[Top(p).id].to
  BY <1>1, <1>4, AtWork
<1> QED BY <1>1, <1>3, <1>4, <1>5, FinishTiles

\* The running task goes on at another stage.
LEMMA StageTiles ==
  ASSUME IInv, IInv', Tiled, NEW p \in Procs, stack[p] # <<>>, Top(p).at \notin HandLabels,
         NEW id, NEW at, at \notin HandLabels, Becomes(p, TaskFrame(id, at), <<>>), SameTasks
  PROVE  Tiled'
<1>1. PICK f : f = TaskFrame(id, at)
  OBVIOUS
<1>2. f.at \notin HandLabels
  BY <1>1, TaskFrameLabel
<1> QED BY <1>1, <1>2, QuietGoes

LEMMA ExecuteTiles ==
  ASSUME IInv, IInv', Tiled, NEW p \in Procs, stack[p] # <<>>, Top(p).at \in {"span", "rest"},
         task[Top(p).id].from < task[Top(p).id].to, NEW phase, NEW body \in Bodies,
         Execute(p, phase, body), plan' = plan
  PROVE  Tiled'
<1>1. PICK id, t : id = Top(p).id /\ t = task[id]
  OBVIOUS
<1>2. Top(p).at \notin HandLabels /\ body \notin HandLabels
  BY DEF HandLabels, Bodies
<1>3. CASE Becomes(p, TaskFrame(id, body), <<TaskFrame(Fresh, "share")>>) /\ BeginLoop(p, "inner", plan.inner)
  <2>1. PICK f, kind, size : f = TaskFrame(id, body) /\ kind = "inner" /\ size = plan.inner
    OBVIOUS
  <2>2. f.at \notin HandLabels
    BY <1>2, <2>1, TaskFrameLabel
  <2>3. kind \in LoopKinds /\ size \in Nat /\ size = IF kind = "root" THEN plan.size ELSE plan.inner
    BY <2>1, PlanSizes DEF LoopKinds
  <2> QED BY <1>2, <1>3, <2>1, <2>2, <2>3, BeginTiles
<1>4. CASE Becomes(p, TaskFrame(id, body), <<>>) /\ UNCHANGED <<queues, objects, ran, done>>
  <2>1. SameTasks
    BY <1>4, TasksAsBefore DEF objects
  <2> QED BY <1>2, <1>4, <2>1, StageTiles
<1>5. CASE Finish(p, phase)
  BY <1>5, FinishTiles
<1> QED BY <1>1, <1>3, <1>4, <1>5 DEF Execute

LEMMA SpanTiles ==
  ASSUME IInv, IInv', Tiled, NEW p \in Procs, Span(p), plan' = plan PROVE Tiled'
<1>1. stack[p] # <<>> /\ Top(p).at = "span"
  BY DEF Span, At
<1>2. CASE task[Top(p).id].from < task[Top(p).id].to
  <2>1. PICK phase, body : phase = "span" /\ body = "span_body"
    OBVIOUS
  <2>2. Execute(p, phase, body)
    BY <1>2, <2>1 DEF Span
  <2>3. body \in Bodies
    BY <2>1 DEF Bodies
  <2> QED BY <1>1, <1>2, <2>2, <2>3, ExecuteTiles
<1>3. CASE ~(task[Top(p).id].from < task[Top(p).id].to)
  <2>1. Becomes(p, TaskFrame(Top(p).id, "split"), <<>>) /\ UNCHANGED <<queues, objects, ran, done>>
    BY <1>3 DEF Span
  <2>2. SameTasks
    BY <2>1, TasksAsBefore DEF objects
  <2> QED BY <1>1, <2>1, <2>2, StageTiles DEF HandLabels
<1> QED BY <1>2, <1>3

LEMMA RestTiles ==
  ASSUME IInv, IInv', Tiled, NEW p \in Procs, Rest(p), plan' = plan PROVE Tiled'
<1>1. stack[p] # <<>> /\ Top(p).at = "rest" /\ Top(p).at \notin HandLabels
  BY DEF Rest, At, HandLabels
<1>2. PICK id : id = Top(p).id
  OBVIOUS
<1>3. /\ id \in DOMAIN task /\ task[id] \in TaskSet /\ task[id].from \in Nat /\ task[id].to \in Nat
      /\ task[id].from <= task[id].to
  BY <1>1, <1>2, AtWork
<1>4. CASE task[id].from # task[id].to
  <2>1. PICK phase, body : phase = "rest" /\ body = "rest_body"
    OBVIOUS
  <2>2. Execute(p, phase, body)
    BY <1>2, <1>4, <2>1 DEF Rest
  <2>3. body \in Bodies
    BY <2>1 DEF Bodies
  <2>4. task[Top(p).id].from < task[Top(p).id].to
    BY <1>2, <1>3, <1>4
  <2> QED BY <1>1, <2>2, <2>3, <2>4, ExecuteTiles
<1>5. CASE ~(task[id].from # task[id].to)
  <2>1. PICK u, f : u = [task[id] EXCEPT !.holds = FALSE] /\ f = [TaskFrame(id, "release") EXCEPT !.ptr = id]
    OBVIOUS
  <2>2. task' = Replace(task, id, u) /\ Becomes(p, f, <<>>) /\ UNCHANGED <<queues, node, deleted, ran, done>>
    BY <1>2, <1>5, <2>1 DEF Rest
  <2>3. u.kind = task[id].kind /\ u.loop = task[id].loop /\ u.from = task[id].from /\ u.to = task[id].to
    BY <1>3, <2>1 DEF TaskSet
  <2>4. SameTasks
    BY <1>3, <1>5, <2>2, <2>3, TurnedSame
  <2>5. f.at \notin HandLabels
    BY <2>1 DEF TaskFrame, HandLabels
  <2> QED BY <1>1, <2>2, <2>4, <2>5, QuietGoes
<1> QED BY <1>4, <1>5

-----------------------------------------------------------------------------
(* Iterations that go from a task to another.                              *)

\* A task that holds its node is counted in it.
LEMMA HolderCounts ==
  ASSUME IInv, NEW id \in DOMAIN task, task[id].holds
  PROVE  node[id].count > 0 /\ node[id].count \in Nat
<1>1. Shape /\ Lives /\ Refs /\ DOMAIN node = DOMAIN task /\ id \in Nat \ {0}
  BY LenProperties DEF IInv, Shape
<1>2. RefsAt(id) /\ Held(id) = 1 /\ Cardinality(Children(id)) \in Nat /\ Dropped(id) \in Nat /\ Owned(id) \in Nat
  BY <1>1, ChildrenFinite, Tallies DEF Refs, Held, Owned
<1> QED BY <1>2 DEF RefsAt

Slice(from, to) == {i \in Nat : from <= i /\ i < to}

\* The running task gives to a new one a part of its range, or of what its
\* frame has yet to hand out.
LEMMA SpawnTiles ==
  ASSUME IInv, Tiled, NEW p \in Procs, stack[p] # <<>>,
         Top(p).at \in {"hand", "split"}, NEW id, id = Top(p).id,
         NEW f \in FrameSet, f.id = id, NEW g, Moved(p, f, g), Unhanded(g) = <<>>,
         NEW new, new = Fresh, NEW u \in TaskSet, u.kind \in {"proxy", "unique"}, u.loop = task[id].loop,
             u.holds,
         NEW to \in Nat, Spawn(id, to, u), plan' = plan,
         NEW own, own = Slice(task[id].from, to), NEW part, part = Slice(u.from, u.to),
         own \cup Left(f) \cup part = Own(id) \cup Left(Top(p)), part \cap (own \cup Left(f)) = {},
         \A k \in DOMAIN Unhanded(f) :
           /\ to <= Unhanded(f)[k].from
           /\ \A m \in DOMAIN Unhanded(f) : m < k => Unhanded(f)[m].to <= Unhanded(f)[k].from
  PROVE  Tiled'
<1>0. Family /\ Apart /\ ToDo /\ Covered /\ Above /\ Recorded /\ Shape /\ Lives
  BY DEF Tiled, IInv
<1>1. /\ id \in Nat \ {0} /\ id \in DOMAIN task /\ task[id] \in TaskSet /\ task[id].holds
      /\ task[id].kind # "pin" /\ Top(p).at # "enter"
  BY AtWork
<1>2. /\ task' \in Seq(TaskSet) /\ Len(task') = new /\ task'[new] = u
      /\ task'[id] = [task[id] EXCEPT !.to = to]
      /\ \A k \in DOMAIN task : k # id => task'[k] = task[k]
      /\ node'[new].parent = id
      /\ \A k \in DOMAIN task : node'[k].parent = node[k].parent
  BY <1>0, <1>1, HolderCounts, Spawned
<1>3. /\ new = Len(task) + 1 /\ Pending(new) = {} /\ new \in Nat \ {0} /\ new \notin DOMAIN task
      /\ DOMAIN task' = DOMAIN task \cup {new} /\ new # id
  <2>1. DOMAIN task = 1 .. Len(task) /\ Len(task) \in Nat /\ DOMAIN task' = 1 .. new /\ new = Len(task) + 1
    BY <1>0, <1>2, LenProperties DEF Shape, Fresh
  <2>2. DOMAIN task' = DOMAIN task \cup {new}
    BY <2>1
  <2> QED BY <1>1, <2>1, <2>2, NoneYet
<1>4. /\ task'[id].kind = task[id].kind /\ task'[id].loop = task[id].loop
      /\ task'[id].from = task[id].from /\ task'[id].to = to
  BY <1>1, <1>2 DEF TaskSet
<1>5. task'[id].holds
  BY <1>1, <1>2, Zenon DEF TaskSet
<1>6. \A t \in DOMAIN task : task'[t].loop = task[t].loop /\ task'[t].kind = task[t].kind
  BY <1>2, <1>4
<1>7. /\ Pending(id) = Left(Top(p)) /\ Pending(id)' = Left(f)
      /\ \A t : t # id => Pending(t)' = Pending(t)
  BY <1>0, <1>1, PendingTurns
<1>8. Region(id) = Own(id) \cup Left(Top(p)) /\ Region(id)' = own \cup Left(f) /\ Region(new)' = part
  <2>1. Own(id)' = own /\ Own(new)' = part
    BY <1>2, <1>4 DEF Own, Slice
  <2>2. Pending(new)' = {}
    BY <1>3, <1>7
  <2> QED BY <1>7, <2>1, <2>2 DEF Region
<1>9. \A t \in DOMAIN task : t # id => Region(t)' = Region(t)
  BY <1>2, <1>7 DEF Region, Own
<1>10. Apart' /\ ToDo' /\ Covered'
  <2>1. Region(id)' \cup Region(new)' = Region(id) /\ Region(id)' \cap Region(new)' = {}
    BY <1>8
  <2>2. task'[new].loop = task[id].loop /\ ~IsLoop(new)'
    BY <1>2 DEF IsLoop
  <2>3. ran' = ran
    BY DEF Spawn
  <2> QED BY <1>0, <1>1, <1>3, <1>6, <1>9, <2>1, <2>2, <2>3, Homes, GiveTiles
<1>11. Above'
  <2>1. Stacked(f)'
    <3>1. task'[f.id].to = to
      BY <1>4
    <3> QED BY <3>1 DEF Stacked
  <2>2. \A t \in DOMAIN task : task'[t].to = task[t].to \/ (t = Top(p).id /\ Top(p).at # "enter")
    BY <1>1, <1>2
  <2> QED BY <1>0, <2>1, <2>2, AboveStays
<1>12. Family'
  <2>1. ASSUME NEW t \in DOMAIN task PROVE Related(t)
    <3>1. node'[t].parent = node[t].parent
      BY <1>2
    <3>2. CASE t = id
      <4>1. task[id].kind # "pin" /\ task'[id].kind # "pin"
        BY <1>1, <1>4
      <4> QED BY <1>4, <1>5, <3>1, <3>2, <4>1 DEF Related
    <3>3. CASE t # id
      <4>1. task'[t] = task[t]
        BY <1>2, <3>3
      <4> QED BY <3>1, <4>1 DEF Related
    <3> QED BY <3>2, <3>3
  <2>2. \A t \in DOMAIN task' : t \in DOMAIN task \/
            /\ task'[t].kind \in {"proxy", "unique"} /\ task'[t].holds
            /\ node'[t].parent \in DOMAIN task /\ task'[t].loop = task[node'[t].parent].loop
            /\ task[node'[t].parent].kind # "pin"
    BY <1>1, <1>2, <1>3
  <2> QED BY <1>0, <1>3, <2>1, <2>2, FamilyGrows
<1>13. Recorded'
  BY <1>0, <1>3 DEF Recorded, Spawn
<1> QED BY <1>10, <1>11, <1>12, <1>13 DEF Tiled

LEMMA SplitTiles ==
  ASSUME IInv, IInv', Tiled, NEW p \in Procs, Split(p), plan' = plan PROVE Tiled'
<1>1. stack[p] # <<>> /\ Top(p).at = "split" /\ Top(p).at \notin HandLabels
  BY DEF Split, At, HandLabels
<1>2. PICK e, id, t, new : e = Top(p) /\ id = Top(p).id /\ t = task[id] /\ new = Fresh
  OBVIOUS
<1>3. /\ id \in DOMAIN task /\ t \in TaskSet /\ t.from \in Nat /\ t.to \in Nat /\ t.from <= t.to
      /\ Shape /\ e \in FrameSet
  BY <1>1, <1>2, AtWork DEF FrameSet
<1>4. CASE t.from # t.to /\ Divisible(p, t)
  <2>1. PICK mid : mid = t.from + (t.to - t.from) \div 2
    OBVIOUS
  <2>2. mid \in Nat /\ t.from <= mid /\ mid <= t.to
    BY ONLY <1>3, <2>1
  <2>3. PICK u : u = Task("unique", t.loop,
                          [from |-> mid, to |-> t.to, lo |-> 0, hi |-> 0, grain |-> t.grain], FALSE, FALSE)
    OBVIOUS
  <2>4. /\ u \in TaskSet /\ u.kind \in {"proxy", "unique"} /\ u.loop = t.loop /\ u.from = mid /\ u.to = t.to
        /\ u.holds
    <3>1. t.grain \in Nat \ {0} /\ t.loop \in Nat
      BY <1>3 DEF TaskSet
    <3>2. u \in TaskSet
      BY <1>3, <2>2, <2>3, <3>1 DEF Task, TaskSet, Kinds
    <3>3. u.kind = "unique" /\ u.loop = t.loop /\ u.from = mid /\ u.to = t.to /\ u.holds
      BY <2>3 DEF Task
    <3> QED BY <3>2, <3>3
  <2>5. Spawn(id, mid, u)
    BY <1>2, <1>4, <2>1, <2>3 DEF Split
  <2>6. PICK kind : kind = "unique"
    OBVIOUS
  <2>7. Becomes(p, e, <<>>) \/ Becomes(p, e, <<Entry(new, kind)>>)
    <3>1. PICK q \in Pool : PushTask(p, q, new, e) \/ ExecuteTask(p, q, new, kind, e)
      BY <1>2, <1>4, <2>6 DEF Split, ScheduleWithHint
    <3> QED BY <3>1, SentForms
  <2>8. PICK g : Moved(p, e, g) /\ Unhanded(g) = <<>>
    BY <1>1, <1>3, <2>7, SentMoves DEF IInv
  <2>9. Unhanded(e) = <<>> /\ Left(e) = {}
    BY <1>1, <1>2, Elsewhere, NilLeaves
  <2>10. PICK own, part : own = Slice(task[id].from, mid) /\ part = Slice(u.from, u.to)
    OBVIOUS
  <2>11. /\ own \cup Left(e) \cup part = Own(id) \cup Left(Top(p))
         /\ part \cap (own \cup Left(e)) = {}
    <3>1. \A i \in Nat : (t.from <= i /\ i < mid) \/ (mid <= i /\ i < t.to) <=> t.from <= i /\ i < t.to
      BY <1>3, <2>2
    <3>2. own \cup part = Own(id)
      BY <1>2, <2>4, <2>10, <3>1 DEF Own, Slice
    <3>3. part \cap own = {}
      BY <1>3, <2>2, <2>4, <2>10 DEF Slice
    <3> QED BY <1>2, <2>9, <3>2, <3>3
  <2>12. Top(p).at \in {"hand", "split"} /\ u.loop = task[id].loop /\ e.id = id
    BY <1>1, <1>2, <2>4
  <2>13. DOMAIN Unhanded(e) = {}
    BY <2>9
  <2>14. \A k \in DOMAIN Unhanded(e) :
           /\ mid <= Unhanded(e)[k].from
           /\ \A m \in DOMAIN Unhanded(e) : m < k => Unhanded(e)[m].to <= Unhanded(e)[k].from
    BY <2>13
  <2> QED BY <1>1, <1>2, <1>3, <2>2, <2>4, <2>5, <2>8, <2>10, <2>11, <2>12, <2>14, SpawnTiles
<1>5. CASE ~(t.from # t.to /\ Divisible(p, t))
  <2>1. /\ Becomes(p, TaskFrame(id, "rest"), <<>>)
        /\ UNCHANGED <<queues, objects, ran, done>>
    BY <1>2, <1>5 DEF Split
  <2>2. SameTasks
    BY <2>1, TasksAsBefore DEF objects
  <2> QED BY <1>1, <2>1, <2>2, StageTiles DEF HandLabels
<1> QED BY <1>4, <1>5

\* The parts s begin at to and follow one another; iteration i is in one of them.
Piled(s, to) == \A k \in DOMAIN s : to <= s[k].from /\ \A m \in DOMAIN s : m < k => s[m].to <= s[k].from
PiledIn(s, i) == \E k \in DOMAIN s : s[k].from <= i /\ i < s[k].to

\* The first of the parts to hand out, and the others.
LEMMA HeadParts ==
  ASSUME NEW s \in Seq(PartSet), s # <<>>, NEW to \in Nat,
         Piled(s, to), NEW r, r = Tail(s), NEW j, j = Head(s)
  PROVE  /\ j \in PartSet /\ to <= j.from
         /\ Piled(r, to) /\ Piled(r, j.to)
         /\ \A i \in Nat : PiledIn(s, i) <=> (j.from <= i /\ i < j.to) \/ PiledIn(r, i)
<1>1. /\ j \in PartSet /\ r \in Seq(PartSet) /\ Len(r) = Len(s) - 1 /\ j = s[1] /\ Len(s) \in Nat \ {0}
      /\ \A k \in 1 .. Len(r) : r[k] = s[k + 1]
  <2>1. Len(s) \in Nat /\ Len(s) # 0
    BY EmptySeq, LenProperties
  <2> QED BY <2>1, HeadTailProperties
<1>2. PICK n \in Nat \ {0} : n = Len(s)
  BY <1>1
<1>3. DOMAIN s = 1 .. n /\ DOMAIN r = 1 .. n - 1
  BY <1>1, <1>2, LenProperties
<1>4. 1 \in DOMAIN s /\ \A k \in DOMAIN r : r[k] = s[k + 1] /\ k + 1 \in DOMAIN s /\ 1 < k + 1
  BY <1>1, <1>2, <1>3
<1>5. \A k \in DOMAIN r : \A m \in DOMAIN r : m < k => m + 1 < k + 1
  BY <1>3
<1>6. \A k \in DOMAIN s : k = 1 \/ \E m \in DOMAIN r : k = m + 1
  <2>1. ASSUME NEW k \in 1 .. n, k # 1 PROVE k - 1 \in 1 .. n - 1 /\ k = (k - 1) + 1
    BY <2>1
  <2> QED BY <1>3, <2>1
<1>7. Piled(r, to) /\ Piled(r, j.to)
  BY <1>1, <1>4, <1>5 DEF Piled
<1>8. \A i \in Nat : PiledIn(s, i) <=> (j.from <= i /\ i < j.to) \/ PiledIn(r, i)
  BY <1>1, <1>4, <1>6 DEF PiledIn
<1>9. to <= j.from
  BY <1>1, <1>4 DEF Piled
<1> QED BY <1>1, <1>7, <1>8, <1>9

LEMMA HandTiles ==
  ASSUME IInv, IInv', Tiled, NEW p \in Procs, Hand(p), plan' = plan PROVE Tiled'
<1>1. stack[p] # <<>> /\ Top(p).at = "hand"
  BY DEF Hand, At
<1>2. PICK e, id, t, new : e = Top(p) /\ id = Top(p).id /\ t = task[id] /\ new = Fresh
  OBVIOUS
<1>3. /\ id \in DOMAIN task /\ t \in TaskSet /\ t.to \in Nat /\ t.from \in Nat /\ Shape /\ new \in Nat
      /\ e \in TaskFrames /\ FrameOK(p, e) /\ e \in FrameSet
  <2>1. Len(task) \in Nat
    BY LenProperties DEF IInv, Shape
  <2>2. new \in Nat
    BY <1>2, <2>1 DEF Fresh
  <2>3. /\ id \in DOMAIN task /\ t \in TaskSet /\ t.to \in Nat /\ t.from \in Nat /\ Shape
        /\ e \in TaskFrames /\ FrameOK(p, e)
    BY <1>1, <1>2, AtWork
  <2> QED BY <2>2, <2>3 DEF FrameSet
<1>4. PICK part, todo, rest : todo = e.todo /\ part = Head(todo) /\ rest = Tail(todo)
  OBVIOUS
<1>5. todo \in Seq(PartSet) /\ todo # <<>>
  BY <1>1, <1>2, <1>3, <1>4 DEF TaskFrames, FrameOK
<1>6. Piled(todo, t.to)
  <2>1. End(stack, p) \in Frames /\ Frame(End(stack, p)) = e
    BY <1>1, <1>2, <1>3, TopFrame
  <2>2. Stacked(e) /\ Unhanded(e) = todo
    BY <1>1, <1>2, <1>4, <2>1 DEF Tiled, Above, Unhanded
  <2> QED BY <1>2, <2>2 DEF Stacked, Piled
<1>7. /\ part \in PartSet /\ t.to <= part.from /\ Piled(rest, t.to) /\ Piled(rest, part.to)
      /\ \A i \in Nat : PiledIn(todo, i) <=> (part.from <= i /\ i < part.to) \/ PiledIn(rest, i)
  <2>1. PICK to \in Nat : to = t.to
    BY <1>3
  <2>2. Piled(todo, to)
    BY <1>6, <2>1
  <2>3. /\ part \in PartSet /\ to <= part.from /\ Piled(rest, to) /\ Piled(rest, part.to)
        /\ \A i \in Nat : PiledIn(todo, i) <=> (part.from <= i /\ i < part.to) \/ PiledIn(rest, i)
    BY <1>4, <1>5, <2>2, HeadParts
  <2> QED BY <2>1, <2>3
<1>8. /\ part.from \in Nat /\ part.to \in Nat /\ part.lo \in Nat /\ part.hi \in Nat /\ part.grain \in Nat \ {0}
  BY <1>7 DEF PartSet, JobSet
<1>9. PICK u, f, to : /\ u = Task("proxy", t.loop, part, t.share, t.span)
                      /\ f = [e EXCEPT !.at = "self", !.ptr = new] /\ to = t.to
  OBVIOUS
<1>10. u \in TaskSet /\ u.kind \in {"proxy", "unique"} /\ u.loop = t.loop /\ u.from = part.from /\ u.to = part.to /\ u.holds
  <2>1. t.loop \in Nat /\ t.share \in BOOLEAN /\ t.span \in BOOLEAN
    BY <1>3 DEF TaskSet
  <2>2. u \in TaskSet
    BY <1>8, <1>9, <2>1 DEF Task, TaskSet, Kinds
  <2>3. u.kind = "proxy" /\ u.loop = t.loop /\ u.from = part.from /\ u.to = part.to /\ u.holds
    BY <1>9 DEF Task
  <2> QED BY <2>2, <2>3
<1>11. Spawn(id, to, u)
  BY <1>2, <1>4, <1>9 DEF Hand
<1>12. f \in FrameSet /\ f.id = id /\ f.at = "self" /\ f.todo = todo
  BY <1>2, <1>3, <1>4, <1>9 DEF FrameSet, TaskFrames, TaskLabels, InTask
<1>13. PICK g : Moved(p, f, g) /\ Unhanded(g) = <<>>
  <2>1. PICK q, kind : q = part.lo % N /\ kind = "proxy"
    OBVIOUS
  <2>2. PushTask(p, q, new, f) \/ ExecuteTask(p, q, new, kind, f)
    BY <1>2, <1>4, <1>9, <2>1 DEF Hand, RunOnThread
  <2>3. Becomes(p, f, <<>>) \/ Becomes(p, f, <<Entry(new, kind)>>)
    BY <2>2, SentForms
  <2> QED BY <1>1, <2>3, SentMoves DEF IInv
<1>14. Unhanded(f) = rest /\ Unhanded(Top(p)) = todo
  BY <1>1, <1>2, <1>4, <1>12 DEF Unhanded
<1>15. PICK own, away : own = Slice(task[id].from, to) /\ away = Slice(u.from, u.to)
  OBVIOUS
<1>16. own = Own(id)
  BY <1>2, <1>9, <1>15 DEF Own, Slice
<1>17. Left(Top(p)) = away \cup Left(f)
  BY <1>7, <1>10, <1>14, <1>15 DEF Left, Slice, PiledIn
<1>18. away \cap own = {}
  BY <1>2, <1>3, <1>7, <1>8, <1>9, <1>10, <1>15 DEF Slice
<1>19. away \cap Left(f) = {}
  <2>1. rest \in Seq(PartSet)
    BY <1>4, <1>5, HeadTailProperties
  <2>2. \A k \in DOMAIN rest : rest[k].from \in Nat
    BY <2>1, ElementOfSeq, LenProperties DEF PartSet, JobSet
  <2> QED BY <1>7, <1>8, <1>10, <1>14, <1>15, <2>2 DEF Left, Slice, Piled
<1>20. \A k \in DOMAIN Unhanded(f) :
           /\ to <= Unhanded(f)[k].from
           /\ \A m \in DOMAIN Unhanded(f) : m < k => Unhanded(f)[m].to <= Unhanded(f)[k].from
  BY <1>7, <1>9, <1>14 DEF Piled
<1>21. /\ own \cup Left(f) \cup away = Own(id) \cup Left(Top(p)) /\ away \cap (own \cup Left(f)) = {}
       /\ to \in Nat /\ Top(p).at \in {"hand", "split"} /\ u.loop = task[id].loop
  BY <1>1, <1>2, <1>3, <1>9, <1>10, <1>16, <1>17, <1>18, <1>19
<1> QED BY <1>1, <1>2, <1>10, <1>11, <1>12, <1>13, <1>15, <1>20, <1>21, SpawnTiles

LEMMA HandToSelfTiles ==
  ASSUME IInv, IInv', Tiled, NEW p \in Procs, HandToSelf(p), plan' = plan PROVE Tiled'
<1>1. stack[p] # <<>> /\ Top(p).at = "self" /\ node' = node /\ ran' = ran
  BY DEF HandToSelf, At
<1>2. PICK e, id, t, ptr : e = Top(p) /\ id = Top(p).id /\ t = task[id] /\ ptr = Top(p).ptr
  OBVIOUS
<1>3. /\ id \in DOMAIN task /\ t \in TaskSet /\ Shape /\ e \in TaskFrames /\ FrameOK(p, e)
  BY <1>1, <1>2, AtWork
<1>4. e.todo \in Seq(PartSet) /\ e.todo # <<>>
  BY <1>1, <1>2, <1>3 DEF TaskFrames, FrameOK
<1>5. PICK last \in BOOLEAN : last = (Len(e.todo) = 1)
  OBVIOUS
<1>6. PICK f : f = IF last THEN TaskFrame(id, AfterShare(id))
                   ELSE [e EXCEPT !.at = "hand", !.todo = Tail(e.todo), !.ptr = NoTask]
  OBVIOUS
<1>7. PICK kind : kind = "proxy"
  OBVIOUS
<1>8. PICK g : f \in FrameSet /\ Moved(p, f, g) /\ Unhanded(g) = <<>>
  <2>1. PICK q \in Pool : PushTask(p, q, ptr, f) \/ ExecuteTask(p, q, ptr, kind, f)
    BY <1>2, <1>5, <1>6, <1>7 DEF HandToSelf, ScheduleWithHint
  <2>2. Becomes(p, f, <<>>) \/ Becomes(p, f, <<Entry(ptr, kind)>>)
    BY <2>1, SentForms
  <2> QED BY <1>1, <2>2, SentMoves DEF IInv
<1>9. f.id = id /\ Unhanded(f) = Unhanded(Top(p))
  <2>1. Unhanded(Top(p)) = Tail(e.todo)
    BY <1>1, <1>2 DEF Unhanded
  <2>2. CASE last
    <3>1. PICK at : at = AfterShare(id) /\ at \in {"span", "split"}
      BY DEF AfterShare
    <3>2. f.at = at /\ f.id = id
      BY <1>6, <2>2, <3>1, TaskFrameLabel
    <3>3. Unhanded(f) = <<>>
      BY <3>1, <3>2 DEF Unhanded
    <3>4. Tail(e.todo) = <<>>
      <4>1. Tail(e.todo) \in Seq(PartSet) /\ Len(Tail(e.todo)) = Len(e.todo) - 1
        BY <1>4, HeadTailProperties
      <4>0. Len(e.todo) = 1
        BY <1>5, <2>2, Zenon
      <4>2. Len(Tail(e.todo)) = 0
        BY <4>0, <4>1
      <4> QED BY <4>1, <4>2, EmptySeq
    <3> QED BY <2>1, <3>2, <3>3, <3>4
  <2>3. CASE ~last
    <3>1. f.at = "hand" /\ f.todo = Tail(e.todo) /\ f.id = id
      BY <1>2, <1>3, <1>6, <2>3 DEF TaskFrames
    <3> QED BY <2>1, <3>1 DEF Unhanded
  <2> QED BY <2>2, <2>3
<1>10. SameTasks
  <2>1. CASE last /\ t.span
    <3>1. PICK u : u = [t EXCEPT !.grain = 1]
      OBVIOUS
    <3>2. task' = Replace(task, id, u)
      BY <1>2, <1>5, <2>1, <3>1 DEF HandToSelf
    <3>3. u.kind = t.kind /\ u.loop = t.loop /\ u.from = t.from /\ u.to = t.to
      BY <1>3, <3>1 DEF TaskSet
    <3>4. u.holds = t.holds
      BY <1>3, <3>1, Zenon DEF TaskSet
    <3> QED BY <1>1, <1>2, <1>3, <3>2, <3>3, <3>4, TurnedSame
  <2>2. CASE ~(last /\ t.span)
    <3>1. task' = task
      BY <1>2, <1>5, <2>2 DEF HandToSelf
    <3> QED BY <1>1, <3>1, TasksAsBefore
  <2> QED BY <2>1, <2>2
<1> QED BY <1>1, <1>2, <1>8, <1>9, <1>10, Idles

\* The parts to hand out follow one another, from what is kept to the end.
LEMMA HandedTiles ==
  ASSUME NEW j \in PartSet, Shares(j), NEW h, h = Handed(j), NEW keep, keep = Keep(j)
  PROVE  /\ keep \in Nat /\ j.from < keep /\ keep < j.to
         /\ Piled(h, keep) /\ \A i \in Nat : PiledIn(h, i) <=> keep <= i /\ i < j.to
<1>1. PICK a, b : a = First(j) /\ b = Second(j)
  OBVIOUS
<1>2. ProperJob(j)
  BY DEF PartSet
<1>3. /\ keep \in Nat /\ j.from < keep /\ keep < j.to /\ a.from = keep
      /\ Parts(j) = 1 => a.to = j.to
      /\ Parts(j) # 1 => b.from = a.to /\ a.to \in Nat /\ keep < a.to /\ a.to < b.to /\ b.to = j.to
  BY <1>1, <1>2, Cuts
<1>4. j.to \in Nat
  BY DEF PartSet, JobSet
<1>5. CASE Parts(j) = 1
  <2>1. h = <<a>>
    BY <1>1, <1>5 DEF Handed
  <2>2. DOMAIN h = {1} /\ h[1] = a
    BY <2>1
  <2>3. Piled(h, keep)
    BY <1>3, <2>2 DEF Piled
  <2>4. \A i \in Nat : PiledIn(h, i) <=> keep <= i /\ i < j.to
    BY <1>3, <1>5, <2>2 DEF PiledIn
  <2> QED BY <1>3, <2>3, <2>4
<1>6. CASE Parts(j) # 1
  <2>1. h = <<a, b>>
    BY <1>1, <1>6 DEF Handed
  <2>2. DOMAIN h = {1, 2} /\ h[1] = a /\ h[2] = b
    BY <2>1
  <2>3. a.from = keep /\ b.from = a.to /\ a.to \in Nat /\ keep < a.to /\ a.to < b.to /\ b.to = j.to
    BY <1>3, <1>6
  <2>4. Piled(h, keep)
    <3>1. ASSUME NEW k \in {1, 2}
          PROVE  keep <= h[k].from /\ \A m \in {1, 2} : m < k => h[m].to <= h[k].from
      BY <1>3, <2>2, <2>3
    <3> QED BY <2>2, <3>1 DEF Piled
  <2>5. \A i \in Nat : PiledIn(h, i) <=> keep <= i /\ i < j.to
    <3>1. ASSUME NEW i \in Nat
          PROVE  (keep <= i /\ i < a.to) \/ (a.to <= i /\ i < b.to) <=> keep <= i /\ i < j.to
      BY <1>3, <1>4, <2>3
    <3> QED BY <2>2, <2>3, <3>1 DEF PiledIn
  <2> QED BY <1>3, <2>4, <2>5
<1> QED BY <1>5, <1>6

LEMMA DistributeTiles ==
  ASSUME IInv, IInv', Tiled, NEW p \in Procs, Distribute(p), plan' = plan PROVE Tiled'
<1>0. Family /\ Apart /\ ToDo /\ Covered /\ Above /\ Recorded /\ Shape /\ Lives
  BY DEF Tiled, IInv
<1>1. stack[p] # <<>> /\ Top(p).at = "share" /\ Top(p).at \notin HandLabels /\ node' = node /\ ran' = ran
  BY DEF Distribute, At, HandLabels
<1>2. PICK e, id, t, j : e = Top(p) /\ id = Top(p).id /\ t = task[id] /\ j = JobOf(t)
  OBVIOUS
<1>3. /\ id \in Nat \ {0} /\ id \in DOMAIN task /\ t \in TaskSet /\ TaskOK(t) /\ t.kind # "pin" /\ t.holds
      /\ t.from \in Nat /\ t.to \in Nat /\ e \in TaskFrames /\ FrameOK(p, e)
  BY <1>1, <1>2, AtWork
<1>4. j.from = t.from /\ j.to = t.to
  BY <1>2 DEF JobOf
<1>5. CASE t.share /\ Shares(j) /\ ~HalfFull(p)
  <2>1. PICK u, f, h, keep : /\ u = [t EXCEPT !.to = keep] /\ h = Handed(j) /\ keep = Keep(j)
                             /\ f = [e EXCEPT !.at = "hand", !.todo = h]
    OBVIOUS
  <2>2. task' = Replace(task, id, u) /\ Becomes(p, f, <<>>)
    BY <1>2, <1>5, <2>1 DEF Distribute
  <2>3. j \in PartSet
    <3>1. j.from \in Nat /\ j.to \in Nat /\ j.grain \in Nat \ {0} /\ j.lo \in Nat /\ j.hi \in Nat
      BY <1>2, <1>3 DEF JobOf, TaskSet
    <3>2. j.from + j.grain < j.to
      BY <1>5 DEF Shares, LongerThanGrain
    <3>3. j.from < j.to
      BY <3>1, <3>2
    <3>4. j.lo < j.hi
      BY <1>2, <1>3, <1>5 DEF JobOf, TaskOK
    <3>5. j \in JobSet
      BY <1>2, <3>1 DEF JobOf, JobSet
    <3> QED BY <3>1, <3>3, <3>4, <3>5 DEF PartSet, ProperJob
  <2>4. /\ keep \in Nat /\ j.from < keep /\ keep < j.to
        /\ Piled(h, keep) /\ \A i \in Nat : PiledIn(h, i) <=> keep <= i /\ i < j.to
    BY <1>5, <2>1, <2>3, HandedTiles
  <2>5. f.at = "hand" /\ f.todo = h /\ f.id = id
    BY <1>2, <1>3, <2>1 DEF TaskFrames
  <2>6. u.kind = t.kind /\ u.loop = t.loop /\ u.from = t.from /\ u.to = keep
    BY <1>3, <2>1 DEF TaskSet
  <2>7. u.holds
    BY <1>3, <2>1, Zenon DEF TaskSet
  <2>8. /\ DOMAIN task' = DOMAIN task /\ task'[id] = u
        /\ \A k \in DOMAIN task : k # id => task'[k] = task[k]
    BY <1>3, <2>2, Turned
  <2>9. PICK g : g = Nil
    OBVIOUS
  <2>10. f \in FrameSet /\ Moved(p, f, g) /\ Unhanded(g) = <<>>
    BY <1>0, <1>1, <2>2, <2>9, Became, NilLeaves DEF IInv
  <2>11. Unhanded(f) = h /\ Unhanded(e) = <<>>
    BY <1>1, <1>2, <2>5 DEF Unhanded
  <2>12. Left(f) = {i \in Nat : keep <= i /\ i < t.to} /\ Left(e) = {}
    <3>1. Left(f) = {i \in Nat : PiledIn(h, i)}
      BY <2>11 DEF Left, PiledIn
    <3> QED BY <1>4, <2>4, <2>11, <3>1, NilLeaves
  <2>13. /\ Pending(id) = Left(e) /\ Pending(id)' = Left(f)
         /\ \A k : k # id => Pending(k)' = Pending(k)
    BY <1>0, <1>1, <1>2, <1>3, <2>5, <2>10, PendingTurns
  <2>14. Region(id)' = Region(id)
    <3>1. Own(id) = {i \in Nat : t.from <= i /\ i < t.to} /\ Own(id)' = {i \in Nat : t.from <= i /\ i < keep}
      BY <1>2, <2>6, <2>8 DEF Own
    <3>2. \A i \in Nat : (t.from <= i /\ i < keep) \/ (keep <= i /\ i < t.to) <=> t.from <= i /\ i < t.to
      BY <1>3, <1>4, <2>4
    <3> QED BY <2>12, <2>13, <3>1, <3>2 DEF Region
  <2>15. \A k \in DOMAIN task : Region(k)' = Region(k)
    <3>1. \A k \in DOMAIN task : k # id => Region(k)' = Region(k)
      BY <2>8, <2>13 DEF Region, Own
    <3> QED BY <2>14, <3>1
  <2>16. Apart' /\ ToDo' /\ Covered'
    <3>1. \A k \in DOMAIN task : task'[k].loop = task[k].loop /\ task'[k].kind = task[k].kind
      BY <1>2, <2>6, <2>8
    <3> QED BY <1>0, <1>1, <2>8, <2>15, <3>1, Homes, SameTiles
  <2>17. Above'
    <3>1. Stacked(f)'
      <4>1. task'[f.id].to = keep
        BY <2>5, <2>6, <2>8
      <4> QED BY <2>4, <2>11, <4>1 DEF Stacked, Piled
    <3>2. \A k \in DOMAIN task : task'[k].to = task[k].to \/ (k = Top(p).id /\ Top(p).at # "enter")
      BY <1>1, <1>2, <2>8
    <3> QED BY <1>0, <1>1, <2>10, <3>1, <3>2, AboveStays
  <2>18. Family'
    <3>1. u.kind # "pin" /\ u.kind = task[id].kind /\ u.loop = task[id].loop
      BY <1>2, <1>3, <2>6
    <3> QED BY <1>0, <1>1, <1>3, <2>2, <2>7, <3>1, FamilyTurns
  <2>19. Recorded'
    BY <1>0, <1>1, <2>8 DEF Recorded
  <2> QED BY <2>16, <2>17, <2>18, <2>19 DEF Tiled
<1>6. CASE ~(t.share /\ Shares(j) /\ ~HalfFull(p))
  <2>1. PICK u, at : u = [t EXCEPT !.grain = IF t.span THEN 1 ELSE @] /\ at = AfterShare(id)
    OBVIOUS
  <2>2. task' = Replace(task, id, u) /\ Becomes(p, TaskFrame(id, at), <<>>)
    BY <1>2, <1>6, <2>1 DEF Distribute
  <2>3. u.kind = t.kind /\ u.loop = t.loop /\ u.from = t.from /\ u.to = t.to
    BY <1>3, <2>1 DEF TaskSet
  <2>4. u.holds = t.holds
    BY <1>3, <2>1, Zenon DEF TaskSet
  <2>5. SameTasks
    BY <1>1, <1>2, <1>3, <2>2, <2>3, <2>4, TurnedSame
  <2>6. at \notin HandLabels
    BY <2>1 DEF AfterShare, HandLabels
  <2> QED BY <1>1, <2>2, <2>5, <2>6, StageTiles
<1> QED BY <1>5, <1>6

-----------------------------------------------------------------------------
(* Every step.                                                             *)

LEMMA InitTiled == ASSUME Init PROVE Tiled
<1>1. DOMAIN task = {} /\ ran = {}
  BY InitShape DEF Init
<1>2. Above
  <2>1. ASSUME NEW x \in Frames PROVE Stacked(Frame(x))
    <3>1. Frame(x).at \in {"main", "pop", "pin"}
      BY InitFrames
    <3>2. Unhanded(Frame(x)) = <<>>
      BY <3>1 DEF Unhanded
    <3>3. DOMAIN Unhanded(Frame(x)) = {}
      BY <3>2
    <3> QED BY <3>3 DEF Stacked
  <2> QED BY <2>1 DEF Above
<1> QED BY <1>1, <1>2 DEF Tiled, Family, Apart, ToDo, Covered, Recorded

LEMMA StutterTiled == ASSUME Tiled, UNCHANGED vars PROVE Tiled'
<1>1. UNCHANGED <<stack, task, node, ran, plan>>
  BY DEF vars, objects
<1>2. \A f : Unhanded(f)' = Unhanded(f)
  BY DEF Unhanded
<1>3. Frames' = Frames /\ \A x : Frame(x)' = Frame(x)
  BY <1>1 DEF Frames, Frame
<1>4. Above'
  BY <1>1, <1>3 DEF Tiled, Above, Stacked
<1>5. \A t : Region(t)' = Region(t)
  BY <1>1, <1>3 DEF Region, Own, Pending
<1>6. Family' /\ Recorded'
  BY <1>1 DEF Tiled, Family, Recorded, IsLoop
<1>7. Apart' /\ ToDo' /\ Covered'
  BY <1>1, <1>5 DEF Tiled, Apart, ToDo, Covered, IsLoop, SizeOf
<1> QED BY <1>4, <1>6, <1>7 DEF Tiled

LEMMA WorkTiles ==
  ASSUME IInv, IInv', Tiled, NEW p \in Procs, Work(p), plan' = plan PROVE Tiled'
<1>1. CASE CallLoop(p) BY <1>1, CallLoopTiles
<1>2. CASE Exit(p) BY <1>2, ExitTiles
<1>3. CASE Distribute(p) BY <1>3, DistributeTiles
<1>4. CASE Hand(p) BY <1>4, HandTiles
<1>5. CASE HandToSelf(p) BY <1>5, HandToSelfTiles
<1>6. CASE Span(p) BY <1>6, SpanTiles
<1>7. CASE Split(p) BY <1>7, SplitTiles
<1>8. CASE Rest(p) BY <1>8, RestTiles
<1>9. CASE FinishBody(p) BY <1>9, FinishBodyTiles
<1>10. CASE Release(p) BY <1>10, ReleaseTiles
<1>11. CASE Enter(p) BY <1>11, EnterTiles
<1>12. CASE Leave(p) BY <1>12, LeaveTiles
<1>13. CASE Join(p) BY <1>13, JoinTiles
<1>14. CASE TakeLocalFront(p) BY <1>14, TakeLocalFrontTiles
<1>15. CASE TakeMail(p) BY <1>15, TakeMailTiles
<1>16. CASE StealMail(p) BY <1>16, StealMailTiles
<1>17. CASE StealLocalBack(p) BY <1>17, StealLocalBackTiles
<1>18. CASE NothingFound(p) BY <1>18, NothingFoundTiles
<1> QED BY <1>1, <1>2, <1>3, <1>4, <1>5, <1>6, <1>7, <1>8, <1>9, <1>10, <1>11, <1>12, <1>13, <1>14,
           <1>15, <1>16, <1>17, <1>18 DEF Work

LEMMA PinningTiles ==
  ASSUME IInv, IInv', Tiled, NEW p \in Procs, Pinning(p), UNCHANGED <<ran, done>>, plan' = plan PROVE Tiled'
<1>1. CASE PushPin(p) BY <1>1, PushPinTiles
<1>2. CASE PinMain(p) BY <1>2, PinMainTiles
<1>3. CASE PinMe(p) BY <1>3, PinMeTiles
<1>4. CASE Notify(p) BY <1>4, NotifyTiles
<1>5. CASE Gather(p) BY <1>5, GatherTiles
<1> QED BY <1>1, <1>2, <1>3, <1>4, <1>5 DEF Pinning

\* In every state the regions of a loop's tasks hold, each iteration once, what
\* has not run: DistributeWork, the halving and the refused pushes lose nothing.
THEOREM Tiling == Spec => []Tiled
<1>1. Init => Tiled
  BY InitTiled
<1>2. IInv /\ IInv' /\ Tiled /\ [Next]_vars => Tiled'
  <2> SUFFICES ASSUME IInv, IInv', Tiled, [Next]_vars PROVE Tiled'
    OBVIOUS
  <2>1. CASE UNCHANGED vars
    BY <2>1, StutterTiled
  <2>2. ASSUME NEW p \in Procs, Step(p) PROVE Tiled'
    BY <2>2, WorkTiles, PinningTiles DEF Step
  <2>3. CASE Ended
    BY <2>3, StutterTiled DEF Ended
  <2> QED BY <2>1, <2>2, <2>3 DEF Next
<1> QED BY <1>1, <1>2, Invariant, PTL DEF Spec

-----------------------------------------------------------------------------
(* Each iteration is in one place.                                         *)

LEMMA UnhandedParts ==
  ASSUME IInv, NEW x \in Frames, NEW s, s = Unhanded(Frame(x))
  PROVE  /\ s \in Seq(PartSet) /\ \A k \in DOMAIN s : s[k].from \in Nat /\ s[k].to \in Nat
         /\ s # <<>> => Frame(x).at \in {"hand", "self"} /\ Frame(x).id \in DOMAIN task /\ Frame(x).id \in Nat \ {0}
<1>1. PICK f : f = Frame(x)
  OBVIOUS
<1>2. f \in FrameSet /\ FrameOK(x[1], f) /\ Shape
  BY <1>1, FrameIn DEF IInv, FramesOK
<1>3. CASE f.at \in {"hand", "self"}
  <2>1. f \in TaskFrames
    BY <1>2, <1>3 DEF FrameSet, LoopFrames, MainFrames, PinFrames, LoopLabels
  <2>2. f.todo \in Seq(PartSet) /\ f.todo # <<>> /\ f.id \in Nat \ {0}
    BY <1>2, <1>3, <2>1 DEF TaskFrames, FrameOK
  <2>3. s = f.todo \/ s = Tail(f.todo)
    BY <1>1, <1>3 DEF Unhanded
  <2>4. s \in Seq(PartSet)
    BY <2>2, <2>3, HeadTailProperties
  <2>5. \A k \in DOMAIN s : s[k] \in PartSet
    BY <2>4, ElementOfSeq, LenProperties
  <2>6. f.id \in DOMAIN task
    BY <1>1, <1>2, <2>2, FrameTask DEF IInv
  <2> QED BY <1>1, <1>3, <2>2, <2>4, <2>5, <2>6 DEF PartSet, JobSet
<1>4. CASE f.at \notin {"hand", "self"}
  <2>1. s = <<>>
    BY <1>1, <1>4 DEF Unhanded
  <2>2. s \in Seq(PartSet)
    BY <2>1
  <2>3. DOMAIN s = {}
    BY <2>1
  <2> QED BY <2>1, <2>2, <2>3
<1> QED BY <1>3, <1>4

\* A place of iteration i of loop l.
\* The two kinds of places that OnePlaceEach counts.
Place(l, i, r) == r \in Ranges(l) /\ i \in r[2] .. r[3] - 1
Owns(l, i, r) == \E t \in DOMAIN task :
  task[t].loop = l /\ r = <<t, task[t].from, task[t].to>> /\ i \in Own(t)
Hands(l, i, r) == \E x \in Frames : \E k \in DOMAIN Unhanded(Frame(x)) :
  LET j == Unhanded(Frame(x))[k]
  IN /\ Frame(x).id \in DOMAIN task /\ task[Frame(x).id].loop = l
     /\ r = <<Frame(x).id, j.from, j.to>> /\ j.from <= i /\ i < j.to

LEMMA PlaceForms ==
  ASSUME IInv, NEW l, NEW i \in Nat, NEW r
  PROVE  Place(l, i, r) <=> Owns(l, i, r) \/ Hands(l, i, r)
<1>1. \A t \in DOMAIN task : task[t] \in TaskSet
  BY ElementOfSeq, LenProperties DEF IInv, Shape
<1>2. \A t \in DOMAIN task : task[t].from \in Nat /\ task[t].to \in Nat
  BY <1>1 DEF TaskSet
<1>3. ASSUME Place(l, i, r) PROVE Owns(l, i, r) \/ Hands(l, i, r)
  <2>1. CASE \E t \in DOMAIN task : task[t].loop = l /\ r = <<t, task[t].from, task[t].to>>
    <3>1. PICK t \in DOMAIN task : task[t].loop = l /\ r = <<t, task[t].from, task[t].to>>
      BY <2>1
    <3>2. i \in Own(t)
      BY <1>2, <1>3, <3>1 DEF Place, Own
    <3> QED BY <3>1, <3>2 DEF Owns
  <2>2. CASE \E x \in Frames : /\ Frame(x).at \in {"hand", "self"} /\ task[Frame(x).id].loop = l
                               /\ \E j \in Range(Unhanded(Frame(x))) : r = <<Frame(x).id, j.from, j.to>>
    <3>1. PICK x \in Frames : /\ Frame(x).at \in {"hand", "self"} /\ task[Frame(x).id].loop = l
                              /\ \E j \in Range(Unhanded(Frame(x))) : r = <<Frame(x).id, j.from, j.to>>
      BY <2>2
    <3>2. PICK s : s = Unhanded(Frame(x))
      OBVIOUS
    <3>3. PICK k \in DOMAIN s : r = <<Frame(x).id, s[k].from, s[k].to>>
      BY <3>1, <3>2 DEF Range
    <3>4. /\ s[k].from \in Nat /\ s[k].to \in Nat /\ Frame(x).id \in DOMAIN task
      <4>1. s # <<>>
        BY <3>3
      <4> QED BY <3>2, <3>3, <4>1, UnhandedParts
    <3>5. s[k].from <= i /\ i < s[k].to
      BY <1>3, <3>3, <3>4 DEF Place
    <3> QED BY <3>1, <3>2, <3>3, <3>4, <3>5 DEF Hands
  <2> QED BY <1>3, <2>1, <2>2 DEF Place, Ranges
<1>4. ASSUME Owns(l, i, r) PROVE Place(l, i, r)
  <2>1. PICK t \in DOMAIN task : task[t].loop = l /\ r = <<t, task[t].from, task[t].to>> /\ i \in Own(t)
    BY <1>4 DEF Owns
  <2>2. r \in Ranges(l)
    BY <2>1 DEF Ranges
  <2>3. i \in r[2] .. r[3] - 1
    BY <1>2, <2>1 DEF Own
  <2> QED BY <2>2, <2>3 DEF Place
<1>5. ASSUME Hands(l, i, r) PROVE Place(l, i, r)
  <2>1. PICK x, k :
          /\ x \in Frames /\ k \in DOMAIN Unhanded(Frame(x))
          /\ Frame(x).id \in DOMAIN task /\ task[Frame(x).id].loop = l
          /\ r = <<Frame(x).id, Unhanded(Frame(x))[k].from, Unhanded(Frame(x))[k].to>>
          /\ Unhanded(Frame(x))[k].from <= i /\ i < Unhanded(Frame(x))[k].to
    BY <1>5 DEF Hands
  <2>2. PICK s : s = Unhanded(Frame(x))
    OBVIOUS
  <2>3. s # <<>>
    BY <2>1, <2>2
  <2>4. s[k].from \in Nat /\ s[k].to \in Nat /\ Frame(x).at \in {"hand", "self"}
    BY <2>1, <2>2, <2>3, UnhandedParts
  <2>5. s[k] \in Range(s)
    BY <2>1, <2>2 DEF Range
  <2>6. r \in Ranges(l)
    BY <2>1, <2>2, <2>4, <2>5 DEF Ranges
  <2>7. i \in r[2] .. r[3] - 1
    BY <2>1, <2>2, <2>4
  <2> QED BY <2>6, <2>7 DEF Place
<1> QED BY <1>3, <1>4, <1>5

\* A place of iteration i of a loop is part of the region of a task of it.
LEMMA PlaceRegion ==
  ASSUME IInv, NEW l, NEW i \in Nat, NEW r, Place(l, i, r)
  PROVE  r[1] \in DOMAIN task /\ task[r[1]].loop = l /\ i \in Region(r[1])
<1>1. CASE Owns(l, i, r)
  BY <1>1 DEF Owns, Region
<1>2. CASE Hands(l, i, r)
  <2>1. PICK x, k :
          /\ x \in Frames /\ k \in DOMAIN Unhanded(Frame(x))
          /\ Frame(x).id \in DOMAIN task /\ task[Frame(x).id].loop = l
          /\ r = <<Frame(x).id, Unhanded(Frame(x))[k].from, Unhanded(Frame(x))[k].to>>
          /\ Unhanded(Frame(x))[k].from <= i /\ i < Unhanded(Frame(x))[k].to
    BY <1>2 DEF Hands
  <2>2. i \in Left(Frame(x))
    BY <2>1 DEF Left
  <2>3. i \in Pending(Frame(x).id)
    BY <2>1, <2>2 DEF Pending
  <2> QED BY <2>1, <2>3 DEF Region
<1> QED BY <1>1, <1>2, PlaceForms

\* And there is no other place.
LEMMA PlaceAlone ==
  ASSUME IInv, Tiled, NEW l, NEW i \in Nat, NEW r, NEW s, Place(l, i, r), Place(l, i, s)
  PROVE  r = s
<1>0. Shape /\ Lives /\ Apart /\ Above
  BY DEF IInv, Tiled
<1>1. r[1] = s[1]
  BY <1>0, PlaceRegion DEF Apart
<1>2. \A t \in DOMAIN task : task[t].from \in Nat /\ task[t].to \in Nat
  <2>1. \A t \in DOMAIN task : task[t] \in TaskSet
    BY <1>0, ElementOfSeq, LenProperties DEF Shape
  <2> QED BY <2>1 DEF TaskSet
<1>3. ASSUME NEW a, NEW b, a[1] = b[1], Owns(l, i, a), Owns(l, i, b) PROVE a = b
  BY <1>3 DEF Owns
<1>4. ASSUME NEW a, NEW b, a[1] = b[1], Owns(l, i, a), Hands(l, i, b) PROVE FALSE
  <2>1. PICK x, k :
          /\ x \in Frames /\ k \in DOMAIN Unhanded(Frame(x))
          /\ Frame(x).id \in DOMAIN task
          /\ b[1] = Frame(x).id
          /\ Unhanded(Frame(x))[k].from <= i /\ i < Unhanded(Frame(x))[k].to
    BY <1>4 DEF Hands
  <2>2. PICK t \in DOMAIN task : a[1] = t /\ i \in Own(t)
    BY <1>4 DEF Owns
  <2>3. t = Frame(x).id
    BY <1>4, <2>1, <2>2
  <2>4. task[t].to <= Unhanded(Frame(x))[k].from
    BY <1>0, <2>1, <2>3 DEF Above, Stacked
  <2>5. PICK j : j = Unhanded(Frame(x))[k]
    OBVIOUS
  <2>6. j.from \in Nat
    BY <2>1, <2>5, UnhandedParts
  <2> QED BY <1>2, <2>1, <2>2, <2>4, <2>5, <2>6 DEF Own
<1>5. ASSUME NEW a, NEW b, a[1] = b[1], Hands(l, i, a), Hands(l, i, b) PROVE a = b
  <2>1. PICK x, k :
          /\ x \in Frames /\ k \in DOMAIN Unhanded(Frame(x))
          /\ Frame(x).id \in DOMAIN task
          /\ a = <<Frame(x).id, Unhanded(Frame(x))[k].from, Unhanded(Frame(x))[k].to>>
          /\ Unhanded(Frame(x))[k].from <= i /\ i < Unhanded(Frame(x))[k].to
    BY <1>5 DEF Hands
  <2>2. PICK y, m :
          /\ y \in Frames /\ m \in DOMAIN Unhanded(Frame(y))
          /\ Frame(y).id \in DOMAIN task
          /\ b = <<Frame(y).id, Unhanded(Frame(y))[m].from, Unhanded(Frame(y))[m].to>>
          /\ Unhanded(Frame(y))[m].from <= i /\ i < Unhanded(Frame(y))[m].to
    BY <1>5 DEF Hands
  <2>3. PICK t : t = Frame(x).id
    OBVIOUS
  <2>4. Frame(y).id = t /\ Frame(x).id = t
    BY <1>5, <2>1, <2>2, <2>3
  <2>5. Unhanded(Frame(x)) # <<>> /\ Unhanded(Frame(y)) # <<>>
    BY <2>1, <2>2
  <2>6. Frame(x).at # "enter" /\ Frame(y).at # "enter" /\ t \in Nat \ {0}
    BY <2>1, <2>2, <2>3, <2>5, UnhandedParts
  <2>7. x = y
    BY <1>0, <2>1, <2>2, <2>4, <2>6, Alone
  <2>8. PICK h : h = Unhanded(Frame(x))
    OBVIOUS
  <2>9. /\ \A n \in DOMAIN h : h[n].from \in Nat /\ h[n].to \in Nat
        /\ h \in Seq(PartSet)
    BY <2>1, <2>8, UnhandedParts
  <2>10. \A n, o \in DOMAIN h : o < n => h[o].to <= h[n].from
    BY <1>0, <2>1, <2>8 DEF Above, Stacked
  <2>11. k \in Nat /\ m \in Nat /\ k \in DOMAIN h /\ m \in DOMAIN h
    <3>1. DOMAIN h = 1 .. Len(h) /\ Len(h) \in Nat
      BY <2>9, LenProperties
    <3> QED BY <2>1, <2>2, <2>7, <2>8, <3>1
  <2>12. h[k].from <= i /\ i < h[k].to /\ h[m].from <= i /\ i < h[m].to
    BY <2>1, <2>2, <2>7, <2>8
  <2>13. ~(k < m) /\ ~(m < k)
    BY <2>9, <2>10, <2>11, <2>12
  <2>14. k = m
    BY <2>11, <2>13
  <2> QED BY <2>1, <2>2, <2>7, <2>14
<1> QED BY <1>1, <1>3, <1>4, <1>5, PlaceForms

LEMMA PlacesFromTiles == ASSUME IInv, Tiled PROVE OnePlaceEach
<1>1. ASSUME NEW l \in Open, NEW i \in 0 .. SizeOf(l) - 1
      PROVE  Cardinality({r \in Ranges(l) : i \in r[2] .. r[3] - 1}) = IF <<l, i>> \in ran THEN 0 ELSE 1
  <2>1. PICK S : S = {r \in Ranges(l) : i \in r[2] .. r[3] - 1}
    OBVIOUS
  <2>2. \A r : r \in S <=> Place(l, i, r)
    BY <2>1 DEF Place
  <2>3. i \in Nat /\ l \in DOMAIN task /\ IsLoop(l) /\ i < SizeOf(l)
    <3>1. SizeOf(l) \in Nat
      BY PlanSizes DEF SizeOf
    <3> QED BY <3>1 DEF Open
  <2>4. CASE <<l, i>> \in ran
    <3>1. ASSUME NEW r \in S PROVE FALSE
      <4>1. r[1] \in DOMAIN task /\ task[r[1]].loop = l /\ i \in Region(r[1])
        BY <2>2, <2>3, <3>1, PlaceRegion
      <4> QED BY <2>4, <4>1 DEF Tiled, ToDo
    <3>2. S = {}
      BY <3>1
    <3> QED BY <2>1, <2>4, <3>2, FS_EmptySet
  <2>5. CASE <<l, i>> \notin ran
    <3>1. PICK t \in DOMAIN task : task[t].loop = l /\ i \in Region(t)
      BY <2>3, <2>5 DEF Tiled, Covered
    <3>2. PICK r : Place(l, i, r)
      <4>1. CASE i \in Own(t)
        <5>1. PICK r : r = <<t, task[t].from, task[t].to>>
          OBVIOUS
        <5>2. Owns(l, i, r)
          BY <3>1, <4>1, <5>1 DEF Owns
        <5> QED BY <2>3, <5>2, PlaceForms
      <4>2. CASE i \in Pending(t)
        <5>1. PICK x \in Frames : Frame(x).id = t /\ i \in Left(Frame(x))
          BY <4>2 DEF Pending
        <5>2. PICK k \in DOMAIN Unhanded(Frame(x)) :
                Unhanded(Frame(x))[k].from <= i /\ i < Unhanded(Frame(x))[k].to
          BY <5>1 DEF Left
        <5>3. PICK r : r = <<Frame(x).id, Unhanded(Frame(x))[k].from, Unhanded(Frame(x))[k].to>>
          OBVIOUS
        <5>4. Hands(l, i, r)
          BY <3>1, <5>1, <5>2, <5>3 DEF Hands
        <5> QED BY <2>3, <5>4, PlaceForms
      <4> QED BY <3>1, <4>1, <4>2 DEF Region
    <3>3. S = {r}
      <4>1. \A s \in S : s = r
        BY <2>2, <2>3, <3>2, PlaceAlone
      <4> QED BY <2>2, <3>2, <4>1
    <3> QED BY <2>1, <2>5, <3>3, FS_Singleton
  <2> QED BY <2>4, <2>5
<1> QED BY <1>1 DEF OnePlaceEach

\* OnePlaceEach in every state: an iteration of a loop that has not returned is
\* over, in the range of one task, or in a part that one task is to hand out.
THEOREM OnePlace == Spec => []OnePlaceEach
<1>1. IInv /\ Tiled => OnePlaceEach
  BY PlacesFromTiles
<1> QED BY <1>1, Invariant, Tiling, PTL

-----------------------------------------------------------------------------
(* A loop is not over while one of its tasks has a node.                   *)

LEMMA LoopCounts ==
  ASSUME IInv, Family
  PROVE  \A t \in DOMAIN task : node[t].count > 0 => node[task[t].loop].count > 0
<1>0. /\ Shape /\ Refs /\ TasksOK /\ DOMAIN node = DOMAIN task /\ DOMAIN task = 1 .. Len(task) /\ Len(task) \in Nat
      /\ \A t \in DOMAIN task : node[t] \in NodeSet
  <2>1. Shape /\ Refs /\ TasksOK /\ DOMAIN node = DOMAIN task /\ DOMAIN task = 1 .. Len(task) /\ Len(task) \in Nat
    BY LenProperties DEF IInv, Shape
  <2> QED BY <2>1, ElementOfSeq, LenProperties DEF Shape
<1> DEFINE Bad == {t \in DOMAIN task : node[t].count > 0 /\ ~(node[task[t].loop].count > 0)}
<1> SUFFICES ASSUME Bad # {} PROVE FALSE
  OBVIOUS
<1>1. PICK t \in Bad : \A u \in Bad : t <= u
  <2>1. Bad \subseteq Nat
    BY <1>0
  <2> HIDE DEF Bad
  <2> QED BY <2>1, Smallest
<1>2. t \in DOMAIN task /\ node[t].count > 0 /\ ~(node[task[t].loop].count > 0) /\ t \in Nat
  BY <1>0, <1>1
<1>3. task[t].kind \notin {"root", "inner", "pin"}
  <2>1. task[t].kind # "pin"
    BY <1>0, <1>2 DEF TasksOK
  <2>2. IsLoop(t) => task[t].loop = t
    BY <1>2 DEF Family
  <2> QED BY <1>2, <2>1, <2>2 DEF IsLoop
<1>4. PICK u : u = node[t].parent
  OBVIOUS
<1>5. u \in DOMAIN task /\ u < t /\ task[u].loop = task[t].loop
  <2>1. node[t].parent # NoTask
    BY <1>0, <1>2, <1>3 DEF TasksOK, Rootless
  <2> QED BY <1>2, <1>4, <2>1, ParentThere DEF Family
<1>6. node[u].count > 0
  <2>1. t \in Children(u)
    BY <1>0, <1>2, <1>4 DEF Children
  <2>2. IsFiniteSet(Children(u)) /\ Cardinality(Children(u)) \in Nat
    BY <1>0, ChildrenFinite
  <2>3. Cardinality(Children(u)) # 0
    BY <2>1, <2>2, FS_EmptySet
  <2>4. Dropped(u) \in Nat /\ Held(u) \in Nat /\ Owned(u) \in Nat /\ RefsAt(u)
    BY <1>0, <1>5, Tallies DEF Refs, Held, Owned
  <2>5. PICK a, b, c, d : a = Cardinality(Children(u)) /\ b = Dropped(u) /\ c = Held(u) /\ d = Owned(u)
    OBVIOUS
  <2>6. a \in Nat /\ a # 0 /\ b \in Nat /\ c \in Nat /\ d \in Nat /\ node[u].count = a + b + c + d
    BY <2>2, <2>3, <2>4, <2>5 DEF RefsAt
  <2> QED BY ONLY <2>6
<1>7. u \in Bad
  BY <1>2, <1>5, <1>6
<1>8. u \in Nat /\ t <= u
  BY <1>0, <1>1, <1>5, <1>7
<1> QED BY <1>2, <1>5, <1>8

\* The loop of a task that holds its node has not returned.
LEMMA LoopOpen ==
  ASSUME IInv, Family, NEW t \in DOMAIN task, task[t].holds, task[t].kind # "pin", NEW l, l = task[t].loop
  PROVE  l \in DOMAIN task /\ IsLoop(l) /\ l \notin deleted
<1>1. l \in DOMAIN task /\ IsLoop(l)
  BY DEF Family
<1>2. node[l].count > 0
  BY HolderCounts, LoopCounts
<1>3. IsLoop(l) /\ Gone(l) => node[l].count = 0
  BY <1>1 DEF IInv, TasksOK
<1> QED BY <1>1, <1>2, <1>3 DEF Gone

\* When the call has the only pointer to the root, no task of the loop has
\* anything left: each of its iterations is over.
LEMMA AllOver ==
  ASSUME IInv, Tiled, NEW l \in DOMAIN task, IsLoop(l), l \notin deleted, node[l].count = 1,
         NEW i \in Nat, i < SizeOf(l)
  PROVE  <<l, i>> \in ran
<1>0. /\ Shape /\ Lives /\ Refs /\ TasksOK /\ Family
      /\ DOMAIN node = DOMAIN task /\ DOMAIN task = 1 .. Len(task) /\ Len(task) \in Nat
  BY LenProperties DEF IInv, Shape, Tiled
<1>1. Children(l) = {} /\ ~task[l].holds
  <2>1. /\ Dropped(l) \in Nat /\ Held(l) \in Nat /\ Owned(l) = 1 /\ RefsAt(l)
        /\ IsFiniteSet(Children(l)) /\ Cardinality(Children(l)) \in Nat
    BY <1>0, Tallies, ChildrenFinite DEF Refs, Held, Owned, Gone
  <2>2. Cardinality(Children(l)) = 0 /\ Held(l) = 0
    BY <2>1 DEF RefsAt
  <2> QED BY <2>1, <2>2, FS_EmptySet DEF Held
<1>2. \A t \in DOMAIN task : task[t].loop = l => t = l \/ ~(node[t].count > 0)
  <2> DEFINE Bad == {t \in DOMAIN task : task[t].loop = l /\ t # l /\ node[t].count > 0}
  <2> SUFFICES ASSUME Bad # {} PROVE FALSE
    OBVIOUS
  <2>1. PICK t \in Bad : \A u \in Bad : t <= u
    <3>1. Bad \subseteq Nat
      BY <1>0
    <3> HIDE DEF Bad
    <3> QED BY <3>1, Smallest
  <2>2. t \in DOMAIN task /\ task[t].loop = l /\ t # l /\ node[t].count > 0 /\ t \in Nat
    BY <1>0, <2>1
  <2>3. task[t].kind \notin {"root", "inner", "pin"}
    <3>1. node[t].count # 0
      BY <2>2
    <3>2. task[t].kind # "pin"
      BY <1>0, <2>2, <3>1 DEF TasksOK
    <3>3. IsLoop(t) => task[t].loop = t
      BY <1>0, <2>2 DEF Family
    <3> QED BY <2>2, <3>2, <3>3 DEF IsLoop
  <2>4. PICK u : u = node[t].parent
    OBVIOUS
  <2>5. u \in DOMAIN task /\ u < t /\ task[u].loop = l /\ t \in Children(u)
    <3>1. node[t].parent # NoTask
      BY <1>0, <2>2, <2>3 DEF TasksOK, Rootless
    <3>2. t \in Children(u)
      BY <1>0, <2>2, <2>4 DEF Children
    <3> QED BY <1>0, <2>2, <2>4, <3>1, <3>2, ParentThere DEF Family
  <2>6. node[u].count > 0
    <3>1. IsFiniteSet(Children(u)) /\ Cardinality(Children(u)) \in Nat
      BY <1>0, ChildrenFinite
    <3>2. Cardinality(Children(u)) # 0
      BY <2>5, <3>1, FS_EmptySet
    <3>3. Dropped(u) \in Nat /\ Held(u) \in Nat /\ Owned(u) \in Nat /\ RefsAt(u)
      BY <1>0, <2>5, Tallies DEF Refs, Held, Owned
    <3> QED BY <3>1, <3>2, <3>3 DEF RefsAt
  <2>7. u # l
    BY <1>1, <2>5
  <2>8. u \in Bad
    BY <2>5, <2>6, <2>7
  <2>9. u \in Nat /\ t <= u
    BY <1>0, <2>1, <2>5, <2>8
  <2> QED BY <2>2, <2>5, <2>9
<1>3. ASSUME NEW t \in DOMAIN task, task[t].loop = l PROVE ~task[t].holds
  BY <1>1, <1>2, <1>3, HolderCounts
<1>4. ASSUME NEW t \in DOMAIN task, task[t].loop = l PROVE Region(t) = {}
  <2>1. ~task[t].holds
    BY <1>3, <1>4
  <2>2. Own(t) = {}
    <3>1. task[t] \in TaskSet
      BY <1>0, <1>4, ElementOfSeq DEF Shape
    <3>2. task[t].from = task[t].to /\ task[t].from \in Nat
      BY <1>0, <1>4, <2>1, <3>1 DEF Family, TaskSet
    <3> QED BY <3>2 DEF Own
  <2>3. ASSUME NEW x \in Frames, Frame(x).id = t, NEW k \in Left(Frame(x)) PROVE FALSE
    <3>1. Unhanded(Frame(x)) # <<>>
      BY <2>3, NilLeaves
    <3>2. Frame(x).at \in {"hand", "self"}
      BY <3>1, UnhandedParts
    <3>3. Busy(Frame(x))
      BY DEF IInv, FramesOK
    <3> QED BY <2>1, <2>3, <3>2, <3>3 DEF Busy, InTask
  <2>4. Pending(t) = {}
    BY <2>3 DEF Pending
  <2> QED BY <2>2, <2>4 DEF Region
<1> QED BY <1>4 DEF Tiled, Covered

-----------------------------------------------------------------------------
(* The steps of the loops.                                                 *)

\* What the refinement takes for size and ended.
Loops == {l \in DOMAIN task : IsLoop(l)}
Sizes == [l \in Loops |-> SizeOf(l)]
Returned == {l \in deleted : IsLoop(l)}

\* A step that none of the loops notices.
Silent ==
  /\ DOMAIN task \subseteq DOMAIN task' /\ plan' = plan /\ ran' = ran /\ deleted \subseteq deleted'
  /\ \A t \in DOMAIN task : task'[t].kind = task[t].kind
  /\ \A t \in DOMAIN task' : t \in DOMAIN task \/ task'[t].kind \notin {"root", "inner"}
  /\ \A t \in deleted' : t \in deleted \/ (t \in DOMAIN task /\ task[t].kind \notin {"root", "inner"})

LEMMA SilentStep == ASSUME IInv, Silent PROVE UNCHANGED L!pvars
<1>1. deleted \subseteq DOMAIN task
  BY DEF IInv, Shape
<1>2. /\ DOMAIN task \subseteq DOMAIN task' /\ plan' = plan /\ ran' = ran /\ deleted \subseteq deleted'
      /\ \A t \in DOMAIN task : task'[t].kind = task[t].kind
      /\ \A t \in DOMAIN task' : t \in DOMAIN task \/ task'[t].kind \notin {"root", "inner"}
      /\ \A t \in deleted' : t \in deleted \/ (t \in DOMAIN task /\ task[t].kind \notin {"root", "inner"})
  BY DEF Silent
<1>3. Loops' = Loops
  BY <1>2 DEF Loops, IsLoop
<1>4. \A l \in Loops : SizeOf(l)' = SizeOf(l)
  BY <1>2 DEF Loops, SizeOf
<1>5. Sizes' = Sizes
  BY <1>3, <1>4 DEF Sizes
<1>6. Returned' = Returned
  BY <1>1, <1>2 DEF Returned, IsLoop
<1> QED BY <1>2, <1>5, <1>6 DEF L!pvars, Sizes, Returned, Loops

\* A loop begins.
LEMMA BeginStep ==
  ASSUME IInv, NEW p, NEW kind \in LoopKinds, NEW size \in Nat, BeginLoop(p, kind, size),
         size = IF kind = "root" THEN plan.size ELSE plan.inner, plan' = plan
  PROVE  L!Begin
<1>1. PICK new, u : /\ new = Fresh
                    /\ u = Task(kind, Fresh, [from |-> 0, to |-> size, lo |-> 0, hi |-> N, grain |-> GrainSize],
                                plan.sharing /\ TaskStackEmpty(p), plan.timespan)
  OBVIOUS
<1>2. task' = Append(task, u) /\ ran' = ran /\ deleted' = deleted
  BY <1>1 DEF BeginLoop
<1>3. u.kind = kind /\ kind \in {"root", "inner"}
  BY <1>1 DEF Task, LoopKinds
<1>4. /\ DOMAIN task' = DOMAIN task \cup {new} /\ task'[new] = u /\ new \notin DOMAIN task
      /\ \A t \in DOMAIN task : task'[t] = task[t]
  BY <1>1, <1>2, Grown DEF IInv, Shape, Fresh
<1>5. Loops' = Loops \cup {new} /\ new \notin Loops
  BY <1>3, <1>4 DEF Loops, IsLoop
<1>6. \A l \in Loops : SizeOf(l)' = SizeOf(l)
  BY <1>4 DEF Loops, SizeOf
<1>7. SizeOf(new)' = size
  BY <1>3, <1>4 DEF SizeOf
<1>8. DOMAIN Sizes = Loops /\ DOMAIN Sizes' = Loops'
  BY DEF Sizes
<1>9. Sizes'[new] = size
  BY <1>5, <1>7 DEF Sizes
<1>10. Sizes' = [k \in DOMAIN Sizes \cup {new} |-> IF k = new THEN Sizes'[new] ELSE Sizes[k]]
  BY <1>5, <1>6, <1>7 DEF Sizes
<1>11. Returned' = Returned
  <2>1. deleted \subseteq DOMAIN task
    BY DEF IInv, Shape
  <2> QED BY <1>2, <1>4, <2>1 DEF Returned, IsLoop
<1>12. new \in DOMAIN Sizes' \ DOMAIN Sizes /\ Sizes'[new] \in Nat
  BY <1>5, <1>8, <1>9
<1> QED BY <1>2, <1>10, <1>11, <1>12 DEF L!Begin, Sizes, Returned, Loops

\* An iteration of a loop is over.
LEMMA RunStep ==
  ASSUME IInv, Tiled, NEW p \in Procs, stack[p] # <<>>,
         Top(p).at \in {"span", "span_body", "rest", "rest_body"},
         task[Top(p).id].from < task[Top(p).id].to, NEW phase, Finish(p, phase), plan' = plan
  PROVE  L!Run
<1>1. PICK id, t, l, i : id = Top(p).id /\ t = task[id] /\ l = t.loop /\ i = t.from
  OBVIOUS
<1>2. /\ id \in Nat \ {0} /\ id \in DOMAIN task /\ t \in TaskSet /\ t.kind # "pin" /\ t.holds
      /\ t.from \in Nat /\ t.to \in Nat /\ t.from < t.to
  BY <1>1, AtWork
<1>3. ran' = ran \cup {<<l, i>>} /\ deleted' = deleted
  BY <1>1 DEF Finish
<1>4. PICK u : task' = Replace(task, id, u) /\ u.kind = t.kind
  <2>1. PICK v, w : v = [t EXCEPT !.from = @ + 1] /\ w = [t EXCEPT !.from = @ + 1, !.grain = @ + 1]
    OBVIOUS
  <2>2. task' = Replace(task, id, v) \/ task' = Replace(task, id, w)
    BY <1>1, <2>1 DEF Finish
  <2>3. v.kind = t.kind /\ w.kind = t.kind
    BY <1>2, <2>1 DEF TaskSet
  <2> QED BY <2>2, <2>3
<1>5. DOMAIN task' = DOMAIN task /\ \A k \in DOMAIN task : task'[k].kind = task[k].kind
  <2>1. /\ DOMAIN task' = DOMAIN task /\ task'[id] = u
        /\ \A k \in DOMAIN task : k # id => task'[k] = task[k]
    BY ONLY <1>2, <1>4, Turned
  <2>2. u.kind = task[id].kind
    BY <1>1, <1>4
  <2> QED BY <2>1, <2>2
<1>6. Sizes' = Sizes /\ Returned' = Returned
  <2>1. deleted \subseteq DOMAIN task
    BY DEF IInv, Shape
  <2>2. Loops' = Loops
    BY <1>5 DEF Loops, IsLoop
  <2>3. \A k \in Loops : SizeOf(k)' = SizeOf(k)
    BY <1>5 DEF Loops, SizeOf
  <2>4. Sizes' = Sizes
    BY <2>2, <2>3 DEF Sizes
  <2> QED BY <1>3, <1>5, <2>1, <2>4 DEF Returned, IsLoop
<1>7. l \in Loops /\ l \notin Returned
  BY <1>1, <1>2, LoopOpen DEF Tiled, Loops, Returned
<1>8. <<l, i>> \notin ran /\ i \in Nat /\ i < SizeOf(l)
  <2>1. i \in Nat /\ i <= i /\ i < t.to
    <3>1. i \in Nat /\ i < t.to
      BY <1>1, <1>2, Zenon
    <3>2. i <= i
      BY ONLY <3>1
    <3> QED BY <3>1, <3>2
  <2>2. i \in Own(id)
    BY <1>1, <2>1 DEF Own
  <2>3. i \in Region(id)
    BY <2>2 DEF Region
  <2>4. <<task[id].loop, i>> \notin ran /\ i < SizeOf(task[id].loop)
    BY <1>2, <2>3 DEF Tiled, ToDo
  <2> QED BY <1>1, <2>1, <2>4
<1>9. Sizes[l] = SizeOf(l) /\ SizeOf(l) \in Nat /\ DOMAIN Sizes = Loops
  BY <1>7, PlanSizes DEF Sizes, SizeOf
<1>10. i \in 0 .. Sizes[l] - 1
  <2>1. PICK n : n = Sizes[l]
    OBVIOUS
  <2>2. n \in Nat /\ i \in Nat /\ i < n
    BY <1>8, <1>9, <2>1
  <2>3. i \in 0 .. n - 1
    BY ONLY <2>2
  <2> QED BY <2>1, <2>3
<1>11. <<l, i>> \in {l} \X (0 .. Sizes[l] - 1)
  BY <1>10
<1>12. PICK r : r = <<l, i>>
  OBVIOUS
<1>13. l \in DOMAIN Sizes \ Returned /\ r \in ({l} \X (0 .. Sizes[l] - 1)) \ ran /\ ran' = ran \cup {r}
  BY <1>3, <1>7, <1>8, <1>9, <1>11, <1>12
<1> QED BY <1>6, <1>13 DEF L!Run, L!Iterations, Sizes, Returned, Loops

\* A call returns.
LEMMA EndStep ==
  ASSUME IInv, Tiled, NEW p \in Procs, Join(p), plan' = plan
  PROVE  L!End \/ UNCHANGED L!pvars
<1>1. stack[p] # <<>> /\ Top(p).at = "join" /\ UNCHANGED <<queues, task, ran, done>>
  BY DEF Join, At
<1>2. PICK l : l = Top(p).id
  OBVIOUS
<1>3. l \in DOMAIN task /\ IsLoop(l) /\ l \notin deleted
  <2>1. Top(p).at \in LoopLabels
    BY <1>1 DEF LoopLabels
  <2>2. FrameOK(p, Top(p))
    BY <1>1, <2>1, LoopTop
  <2>3. IsLoop(l) /\ l # 0
    BY <1>1, <1>2, <2>1, <2>2 DEF FrameOK
  <2> QED BY <1>1, <1>2, <2>3, TopTask DEF Gone
<1>4. CASE node[l].count = 1
  <2>1. deleted' = deleted \cup {l}
    BY <1>2, <1>4 DEF Join
  <2>2. Sizes' = Sizes
    <3>1. Loops' = Loops
      BY <1>1 DEF Loops, IsLoop
    <3>2. \A k \in Loops : SizeOf(k)' = SizeOf(k)
      BY <1>1 DEF Loops, SizeOf
    <3> QED BY <3>1, <3>2 DEF Sizes
  <2>3. Returned' = Returned \cup {l}
    BY <1>1, <1>3, <2>1 DEF Returned, IsLoop
  <2>4. l \in Loops /\ l \notin Returned /\ DOMAIN Sizes = Loops
    BY <1>3 DEF Loops, Returned, Sizes
  <2>5. Sizes[l] = SizeOf(l) /\ SizeOf(l) \in Nat
    BY <2>4, PlanSizes DEF Sizes, SizeOf
  <2>6. ASSUME NEW i \in 0 .. Sizes[l] - 1 PROVE <<l, i>> \in ran
    <3>1. i \in Nat /\ i < SizeOf(l)
      BY <2>5, <2>6
    <3> QED BY <1>3, <1>4, <3>1, AllOver
  <2>7. {l} \X (0 .. Sizes[l] - 1) \subseteq ran
    BY <2>6
  <2> QED BY <1>1, <2>2, <2>3, <2>4, <2>7 DEF L!End, L!Iterations, Sizes, Returned, Loops
<1>5. CASE node[l].count # 1
  <2>1. deleted' = deleted
    BY <1>2, <1>5 DEF Join
  <2>2. Silent
    BY <1>1, <2>1 DEF Silent
  <2> QED BY <2>2, SilentStep
<1> QED BY <1>4, <1>5

\* The tasks stay as they are, or one of them goes on: no loop notices, unless
\* it is deleted.
LEMMA SilentSame ==
  ASSUME UNCHANGED <<plan, ran>>, DOMAIN task' = DOMAIN task, deleted \subseteq deleted',
         \A t \in DOMAIN task : task'[t].kind = task[t].kind,
         \A t \in deleted' : t \in deleted \/ (t \in DOMAIN task /\ task[t].kind \notin {"root", "inner"})
  PROVE  Silent
BY DEF Silent

LEMMA SilentTurn ==
  ASSUME NEW id \in DOMAIN task, NEW u, task' = Replace(task, id, u), u.kind = task[id].kind,
         UNCHANGED <<plan, ran>>, deleted' = deleted \/ (deleted' = deleted \cup {id} /\ ~IsLoop(id))
  PROVE  Silent
<1>1. DOMAIN task' = DOMAIN task /\ \A t \in DOMAIN task : task'[t].kind = task[t].kind
  BY Turned
<1> QED BY <1>1, SilentSame DEF IsLoop

LEMMA SilentBirth ==
  ASSUME NEW new, DOMAIN task' = DOMAIN task \cup {new}, task'[new].kind \notin {"root", "inner"},
         \A t \in DOMAIN task : task'[t].kind = task[t].kind, UNCHANGED <<plan, ran, deleted>>
  PROVE  Silent
BY DEF Silent

LEMMA SilentRest == ASSUME UNCHANGED <<objects, ran, plan>> PROVE Silent
BY DEF Silent, objects

-----------------------------------------------------------------------------
(* Each action.                                                            *)

LEMMA CallLoopDoes == ASSUME IInv, NEW p \in Procs, CallLoop(p), plan' = plan PROVE L!Begin
<1>1. PICK kind, size : kind = "root" /\ size = plan.size
  OBVIOUS
<1>2. BeginLoop(p, kind, size)
  BY <1>1 DEF CallLoop
<1>3. kind \in LoopKinds /\ size \in Nat /\ size = IF kind = "root" THEN plan.size ELSE plan.inner
  BY <1>1, PlanSizes DEF LoopKinds
<1> QED BY <1>2, <1>3, BeginStep

LEMMA ExecuteDoes ==
  ASSUME IInv, Tiled, NEW p \in Procs, stack[p] # <<>>, Top(p).at \in {"span", "rest"},
         task[Top(p).id].from < task[Top(p).id].to, NEW phase, NEW body,
         Execute(p, phase, body), plan' = plan
  PROVE  L!Begin \/ L!Run \/ Silent
<1>1. CASE BeginLoop(p, "inner", plan.inner)
  <2>1. PICK kind, size : kind = "inner" /\ size = plan.inner
    OBVIOUS
  <2>2. kind \in LoopKinds /\ size \in Nat /\ size = IF kind = "root" THEN plan.size ELSE plan.inner
    BY <2>1, PlanSizes DEF LoopKinds
  <2> QED BY <1>1, <2>1, <2>2, BeginStep
<1>2. CASE UNCHANGED <<queues, objects, ran, done>>
  BY <1>2, SilentRest
<1>3. CASE Finish(p, phase)
  BY <1>3, RunStep
<1> QED BY <1>1, <1>2, <1>3 DEF Execute

LEMMA SpanDoes == ASSUME IInv, Tiled, NEW p \in Procs, Span(p),
    plan' = plan PROVE L!Begin \/ L!Run \/ Silent
<1>1. stack[p] # <<>> /\ Top(p).at = "span"
  BY DEF Span, At
<1>2. CASE task[Top(p).id].from < task[Top(p).id].to
  <2>1. PICK phase, body : phase = "span" /\ body = "span_body"
    OBVIOUS
  <2>2. Execute(p, phase, body)
    BY <1>2, <2>1 DEF Span
  <2> QED BY <1>1, <1>2, <2>2, ExecuteDoes
<1>3. CASE ~(task[Top(p).id].from < task[Top(p).id].to)
  BY <1>3, SilentRest DEF Span
<1> QED BY <1>2, <1>3

LEMMA RestDoes == ASSUME IInv, Tiled, NEW p \in Procs, Rest(p),
    plan' = plan PROVE L!Begin \/ L!Run \/ Silent
<1>1. stack[p] # <<>> /\ Top(p).at = "rest"
  BY DEF Rest, At
<1>2. PICK id : id = Top(p).id
  OBVIOUS
<1>3. /\ id \in DOMAIN task /\ task[id] \in TaskSet /\ task[id].from \in Nat /\ task[id].to \in Nat
      /\ task[id].from <= task[id].to
  BY <1>1, <1>2, AtWork
<1>4. CASE task[id].from # task[id].to
  <2>1. PICK phase, body : phase = "rest" /\ body = "rest_body"
    OBVIOUS
  <2>2. Execute(p, phase, body)
    BY <1>2, <1>4, <2>1 DEF Rest
  <2>3. task[Top(p).id].from < task[Top(p).id].to
    BY <1>2, <1>3, <1>4
  <2> QED BY <1>1, <2>2, <2>3, ExecuteDoes
<1>5. CASE ~(task[id].from # task[id].to)
  <2>1. PICK u : u = [task[id] EXCEPT !.holds = FALSE]
    OBVIOUS
  <2>2. task' = Replace(task, id, u) /\ UNCHANGED <<queues, node, deleted, ran, done>>
    BY <1>2, <1>5, <2>1 DEF Rest
  <2>3. u.kind = task[id].kind
    BY <1>3, <2>1 DEF TaskSet
  <2> QED BY <1>3, <2>2, <2>3, SilentTurn
<1> QED BY <1>4, <1>5

LEMMA FinishBodyDoes == ASSUME IInv, Tiled, NEW p \in Procs, FinishBody(p), plan' = plan PROVE L!Run
<1>1. stack[p] # <<>> /\ Top(p).at \in Bodies
  BY DEF FinishBody
<1>2. PICK phase : phase = IF Top(p).at = "span_body" THEN "span" ELSE "rest"
  OBVIOUS
<1>3. Finish(p, phase)
  BY <1>2 DEF FinishBody
<1>4. Top(p).at \in {"span", "span_body", "rest", "rest_body"}
  BY <1>1 DEF Bodies
<1>5. task[Top(p).id].from < task[Top(p).id].to
  BY <1>1, <1>4, AtWork
<1> QED BY <1>1, <1>3, <1>4, <1>5, RunStep

LEMMA DistributeDoes == ASSUME IInv, NEW p \in Procs, Distribute(p), plan' = plan PROVE Silent
<1>1. stack[p] # <<>> /\ Top(p).at = "share" /\ UNCHANGED <<deleted, ran>>
  BY DEF Distribute, At
<1>2. PICK id, t, j : id = Top(p).id /\ t = task[id] /\ j = JobOf(t)
  OBVIOUS
<1>3. id \in DOMAIN task /\ t \in TaskSet
  BY <1>1, <1>2, AtWork
<1>4. PICK u, v : u = [t EXCEPT !.to = Keep(j)] /\ v = [t EXCEPT !.grain = IF t.span THEN 1 ELSE @]
  OBVIOUS
<1>5. task' = Replace(task, id, u) \/ task' = Replace(task, id, v)
  BY <1>2, <1>4 DEF Distribute
<1>6. u.kind = t.kind /\ v.kind = t.kind
  BY <1>3, <1>4 DEF TaskSet
<1> QED BY <1>1, <1>2, <1>3, <1>5, <1>6, SilentTurn

LEMMA HandToSelfDoes == ASSUME IInv, NEW p \in Procs, HandToSelf(p), plan' = plan PROVE Silent
<1>1. stack[p] # <<>> /\ Top(p).at = "self" /\ UNCHANGED <<deleted, ran>>
  BY DEF HandToSelf, At
<1>2. PICK id, t : id = Top(p).id /\ t = task[id]
  OBVIOUS
<1>3. id \in DOMAIN task /\ t \in TaskSet
  BY <1>1, <1>2, AtWork
<1>4. PICK u : u = [t EXCEPT !.grain = 1]
  OBVIOUS
<1>5. task' = Replace(task, id, u) \/ task' = task
  BY <1>2, <1>4 DEF HandToSelf
<1>6. u.kind = t.kind
  BY <1>3, <1>4 DEF TaskSet
<1>7. CASE task' = task
  BY <1>1, <1>7 DEF Silent
<1> QED BY <1>1, <1>2, <1>3, <1>5, <1>6, <1>7, SilentTurn

\* The running task gives a part to a new one.
LEMMA SpawnDoes ==
  ASSUME IInv, NEW p \in Procs, stack[p] # <<>>, Top(p).at \in {"hand", "split"}, NEW id, id = Top(p).id,
         NEW to \in Nat, NEW u \in TaskSet, u.kind \in {"proxy", "unique"}, Spawn(id, to, u), plan' = plan
  PROVE  Silent
<1>1. id \in DOMAIN task /\ task[id].holds /\ task[id] \in TaskSet /\ Shape
  BY AtWork
<1>2. PICK new : new = Fresh
  OBVIOUS
<1>3. /\ task' \in Seq(TaskSet) /\ Len(task') = new /\ task'[new] = u
      /\ task'[id] = [task[id] EXCEPT !.to = to]
      /\ \A k \in DOMAIN task : k # id => task'[k] = task[k]
  BY <1>1, <1>2, HolderCounts, Spawned
<1>4. DOMAIN task' = DOMAIN task \cup {new}
  <2>1. DOMAIN task = 1 .. Len(task) /\ Len(task) \in Nat /\ DOMAIN task' = 1 .. new /\ new = Len(task) + 1
    BY <1>1, <1>2, <1>3, LenProperties DEF Shape, Fresh
  <2> QED BY <2>1
<1>5. task'[id].kind = task[id].kind
  BY <1>1, <1>3 DEF TaskSet
<1>6. \A t \in DOMAIN task : task'[t].kind = task[t].kind
  BY <1>3, <1>5
<1>7. UNCHANGED <<deleted, ran>>
  BY DEF Spawn
<1> QED BY <1>3, <1>4, <1>6, <1>7, SilentBirth

LEMMA HandDoes == ASSUME IInv, NEW p \in Procs, Hand(p), plan' = plan PROVE Silent
<1>1. stack[p] # <<>> /\ Top(p).at = "hand"
  BY DEF Hand, At
<1>2. PICK id, t, part, u, to : /\ id = Top(p).id /\ t = task[id] /\ part = Head(Top(p).todo) /\ to = t.to
                                /\ u = Task("proxy", t.loop, part, t.share, t.span)
  OBVIOUS
<1>3. t \in TaskSet /\ Top(p) \in TaskFrames /\ FrameOK(p, Top(p)) /\ to \in Nat
  BY <1>1, <1>2, AtWork
<1>4. part \in PartSet
  <2>1. Top(p).todo \in Seq(PartSet) /\ Top(p).todo # <<>>
    BY <1>1, <1>3 DEF TaskFrames, FrameOK
  <2> QED BY <1>2, <2>1, HeadTailProperties
<1>5. u \in TaskSet /\ u.kind \in {"proxy", "unique"}
  <2>1. t.loop \in Nat /\ t.share \in BOOLEAN /\ t.span \in BOOLEAN
    BY <1>3, Zenon DEF TaskSet
  <2>2. u \in TaskSet
    BY <1>2, <1>4, <2>1 DEF Task, TaskSet, Kinds, PartSet, JobSet
  <2>3. u.kind = "proxy"
    BY <1>2 DEF Task
  <2> QED BY <2>2, <2>3
<1>6. Spawn(id, to, u)
  BY <1>2 DEF Hand
<1> QED BY <1>1, <1>2, <1>3, <1>5, <1>6, SpawnDoes

LEMMA SplitDoes == ASSUME IInv, NEW p \in Procs, Split(p), plan' = plan PROVE Silent
<1>1. stack[p] # <<>> /\ Top(p).at = "split"
  BY DEF Split, At
<1>2. PICK id, t : id = Top(p).id /\ t = task[id]
  OBVIOUS
<1>3. id \in DOMAIN task /\ t \in TaskSet /\ t.from \in Nat /\ t.to \in Nat /\ t.from <= t.to
  BY <1>1, <1>2, AtWork
<1>4. CASE t.from # t.to /\ Divisible(p, t)
  <2>1. PICK mid : mid = t.from + (t.to - t.from) \div 2
    OBVIOUS
  <2>2. mid \in Nat
    BY ONLY <1>3, <2>1
  <2>3. PICK u : u = Task("unique", t.loop,
                          [from |-> mid, to |-> t.to, lo |-> 0, hi |-> 0, grain |-> t.grain], FALSE, FALSE)
    OBVIOUS
  <2>4. u \in TaskSet /\ u.kind \in {"proxy", "unique"}
    <3>1. t.grain \in Nat \ {0} /\ t.loop \in Nat
      BY <1>3 DEF TaskSet
    <3>2. u \in TaskSet
      BY <1>3, <2>2, <2>3, <3>1 DEF Task, TaskSet, Kinds
    <3>3. u.kind = "unique"
      BY <2>3 DEF Task
    <3> QED BY <3>2, <3>3
  <2>5. Spawn(id, mid, u)
    BY <1>2, <1>4, <2>1, <2>3 DEF Split
  <2> QED BY <1>1, <1>2, <2>2, <2>4, <2>5, SpawnDoes
<1>5. CASE ~(t.from # t.to /\ Divisible(p, t))
  <2>1. UNCHANGED <<queues, objects, ran, done>>
    BY <1>2, <1>5 DEF Split
  <2> QED BY <2>1, SilentRest
<1> QED BY <1>4, <1>5

LEMMA ReleaseDoes == ASSUME IInv, NEW p \in Procs, Release(p), plan' = plan PROVE Silent
<1>1. PICK id : id = Top(p).id
  OBVIOUS
<1>2. /\ stack[p] # <<>> /\ Top(p).at = "release" /\ UNCHANGED <<task, ran>>
      /\ deleted' = deleted \/ (deleted' = deleted \cup {id} /\ task[id].kind = "unique")
  <2>1. stack[p] # <<>> /\ Top(p).at = "release" /\ UNCHANGED <<task, ran>>
    BY DEF Release, At
  <2>2. deleted' = deleted \/ (deleted' = deleted \cup {id} /\ task[id].kind = "unique")
    BY <1>1 DEF Release
  <2> QED BY <2>1, <2>2
<1>3. id \in DOMAIN task
  BY <1>1, <1>2, AtTask, Runner DEF InTask
<1> QED BY <1>2, <1>3 DEF Silent

LEMMA EnterDoes == ASSUME IInv, NEW p \in Procs, Enter(p), plan' = plan PROVE Silent
<1>1. PICK id : id = Top(p).id
  OBVIOUS
<1>2. PICK u : u = [task[id] EXCEPT !.state = @ + 1]
  OBVIOUS
<1>3. stack[p] # <<>> /\ Top(p).at = "enter" /\ ran' = ran /\ task' = Replace(task, id, u)
  BY <1>1, <1>2 DEF Enter, At
<1>4. deleted' = deleted \/ deleted' = deleted \cup {id}
  BY <1>1 DEF Enter
<1>5. id \in DOMAIN task /\ task[id] \in TaskSet
  BY <1>1, <1>3, AtTask, Runner
<1>6. ~IsLoop(id)
  <2>1. task[id].kind = "proxy"
    <3>1. FrameOK(p, Top(p))
      BY <1>3, TopFacts
    <3> QED BY <1>1, <1>3, <3>1 DEF FrameOK
  <2> QED BY <2>1 DEF IsLoop
<1>7. u.kind = task[id].kind
  BY <1>2, <1>5 DEF TaskSet
<1> QED BY <1>3, <1>4, <1>5, <1>6, <1>7, SilentTurn

LEMMA LeaveDoes == ASSUME IInv, NEW p \in Procs, Leave(p), plan' = plan PROVE Silent
<1>1. PICK id : id = Top(p).id
  OBVIOUS
<1>2. PICK u : u = [task[id] EXCEPT !.state = @ + 1]
  OBVIOUS
<1>3. stack[p] # <<>> /\ Top(p).at = "leave" /\ ran' = ran /\ task' = Replace(task, id, u)
  BY <1>1, <1>2 DEF Leave, At
<1>4. deleted' = deleted \/ deleted' = deleted \cup {id}
  BY <1>1 DEF Leave
<1>5. id \in DOMAIN task /\ task[id] \in TaskSet
  BY <1>1, <1>3, AtTask, Runner
<1>6. ~IsLoop(id)
  <2>1. task[id].kind = "proxy"
    <3>1. FrameOK(p, Top(p))
      BY <1>3, TopFacts
    <3> QED BY <1>1, <1>3, <3>1 DEF FrameOK
  <2> QED BY <2>1 DEF IsLoop
<1>7. u.kind = task[id].kind
  BY <1>2, <1>5 DEF TaskSet
<1> QED BY <1>3, <1>4, <1>5, <1>6, <1>7, SilentTurn

LEMMA PushPinDoes == ASSUME IInv, NEW p \in Procs, PushPin(p), UNCHANGED <<ran, plan>> PROVE Silent
<1>1. PICK u, new : u = PinTask(Top(p).next) /\ new = Len(task) + 1
  OBVIOUS
<1>2. task' = Append(task, u) /\ deleted' = deleted
  BY <1>1 DEF PushPin
<1>3. u.kind = "pin"
  BY <1>1 DEF PinTask, Task
<1>4. /\ DOMAIN task' = DOMAIN task \cup {new} /\ task'[new] = u
      /\ \A t \in DOMAIN task : task'[t] = task[t]
  BY <1>1, <1>2, Grown DEF IInv, Shape
<1> QED BY <1>2, <1>3, <1>4, SilentBirth

LEMMA GatherDoes == ASSUME IInv, NEW p \in Procs, Gather(p), UNCHANGED <<ran, plan>> PROVE Silent
<1>1. PICK e : e = Top(p)
  OBVIOUS
<1>2. stack[p] # <<>> /\ e.at = "gather" /\ task' = task /\ deleted' = deleted \cup ({e.id} \ {0})
  BY <1>1 DEF Gather, At, NoTask
<1>3. e.id # 0 => e.id \in DOMAIN task /\ task[e.id].kind = "pin"
  BY <1>1, <1>2, PinTop
<1> QED BY <1>2, <1>3 DEF Silent

-----------------------------------------------------------------------------
(* ForkJoin implements ParallelLoops.                                      *)

LEMMA InitLoops == ASSUME Init PROVE L!PInit
<1>1. DOMAIN task = {} /\ ran = {} /\ deleted = {}
  BY InitShape DEF Init
<1>2. Loops = {} /\ Returned = {}
  BY <1>1 DEF Loops, Returned
<1>3. Sizes = [l \in {} |-> 0]
  BY <1>2 DEF Sizes
<1> QED BY <1>1, <1>2, <1>3 DEF L!PInit, Sizes, Returned, Loops

LEMMA WorkDoes ==
  ASSUME IInv, Tiled, NEW p \in Procs, Work(p), plan' = plan
  PROVE  L!Begin \/ L!Run \/ L!End \/ UNCHANGED L!pvars
<1>1. CASE CallLoop(p) BY <1>1, CallLoopDoes
<1>2. CASE Span(p) BY <1>2, SpanDoes, SilentStep
<1>3. CASE Rest(p) BY <1>3, RestDoes, SilentStep
<1>4. CASE FinishBody(p) BY <1>4, FinishBodyDoes
<1>5. CASE Join(p) BY <1>5, EndStep
<1>6. CASE \/ Exit(p) \/ TakeLocalFront(p) \/ TakeMail(p) \/ StealMail(p) \/ StealLocalBack(p)
           \/ NothingFound(p)
  <2>1. UNCHANGED <<objects, ran>>
    BY <1>6 DEF Exit, TakeLocalFront, TakeMail, StealMail, StealLocalBack, NothingFound
  <2> QED BY <2>1, SilentRest, SilentStep
<1>7. CASE Distribute(p) \/ Hand(p) \/ HandToSelf(p) \/ Split(p) \/ Release(p) \/ Enter(p) \/ Leave(p)
  <2>1. Silent
    BY <1>7, DistributeDoes, HandDoes, HandToSelfDoes, SplitDoes, ReleaseDoes, EnterDoes, LeaveDoes
  <2> QED BY <2>1, SilentStep
<1> QED BY <1>1, <1>2, <1>3, <1>4, <1>5, <1>6, <1>7 DEF Work

LEMMA PinningDoes ==
  ASSUME IInv, NEW p \in Procs, Pinning(p), UNCHANGED <<ran, done>>, plan' = plan PROVE Silent
<1>1. CASE PinMain(p) \/ PinMe(p) \/ Notify(p)
  <2>1. UNCHANGED objects
    BY <1>1 DEF PinMain, PinMe, Notify
  <2> QED BY <2>1, SilentRest
<1> QED BY <1>1, PushPinDoes, GatherDoes DEF Pinning

LEMMA LoopsStep == IInv /\ Tiled /\ [Next]_vars => [L!PNext]_(L!pvars)
<1> SUFFICES ASSUME IInv, Tiled, [Next]_vars PROVE L!PNext \/ UNCHANGED L!pvars
  OBVIOUS
<1>1. ASSUME UNCHANGED vars PROVE UNCHANGED L!pvars
  <2>1. Silent
    BY <1>1, SilentRest DEF vars
  <2> QED BY <2>1, SilentStep
<1>2. ASSUME NEW p \in Procs, Step(p) PROVE L!PNext \/ UNCHANGED L!pvars
  <2>1. plan' = plan
    BY <1>2 DEF Step
  <2>2. CASE Work(p)
    BY <2>1, <2>2, WorkDoes DEF L!PNext
  <2>3. CASE Pinning(p) /\ UNCHANGED <<ran, done>>
    BY <2>1, <2>3, PinningDoes, SilentStep
  <2> QED BY <1>2, <2>2, <2>3 DEF Step
<1>3. CASE Ended
  BY <1>1, <1>3 DEF Ended
<1> QED BY <1>1, <1>2, <1>3 DEF Next

\* ParallelFor returns when each iteration of its loop has run, and it has run
\* once, whoever took, stole or refused the tasks it was cut into.
THEOREM Implements == Spec => ImplementsLoops
<1>1. Spec => [][L!PNext]_(L!pvars)
  BY Invariant, Tiling, LoopsStep, PTL DEF Spec
<1>2. Init => L!PInit
  BY InitLoops
<1> QED BY <1>1, <1>2, PTL DEF Spec, ImplementsLoops, L!PSpec

-----------------------------------------------------------------------------
(* EigenPinner pins each thread to a CPU of its own.                       *)

\* The program pins before any other thread calls a loop, and the mailbox of
\* a thread has room for the one task that it is sent.
PinsFirst == MailCap # 0 /\ \A pl \in Plans : pl.pin => \A o \in Outsiders : pl.calls[o] = 0

Constructing == Pinners > 0
Sowing == Constructing /\ Top(0).at = "pin"
WaitLabels == {"pinned", "gather"}
PinLabels == {"to_pin"} \cup WaitLabels
Stuck(p) == stack[p] # <<>> /\ Top(p).at \in WaitLabels

\* Until its constructor returns, thread 0 does nothing else; the tasks that
\* pin are run by the other threads.
OnlyMain == /\ \A o \in Outsiders : stack[o] = <<>>
            /\ \A x \in Frames : Frame(x).at = "main" \/ Frame(x) \in PinFrames => x[1] = 0
            /\ Constructing => stack[0] # <<>> /\ Top(0) \in PinFrames
Helpers == \A x \in Frames : Frame(x).at \in PinLabels /\ Frame(x).id # 0 => x[1] \in Pool \ {0}
\* A thread that has run such a task waits until all have been run.
OwnCpus ==
  /\ \A x \in Frames : Frame(x).at \in WaitLabels /\ Frame(x).id # 0 =>
       cpus[x[1]] = {task[Frame(x).id].from}
  /\ \A id \in PinTasks : Gone(id) => \E q \in Pool \ {0} : cpus[q] = {task[id].from}
  /\ \A q \in Pool \ {0} : cpus[q] = Pool \/ Absent = {} \/ Stuck(q)
MainCpu == cpus[0] = IF Sowing THEN Pool ELSE {0}
\* Until they are all pushed there are no other tasks, and each mailbox holds
\* at most the one for its own thread.
Sown == Sowing => /\ \A k \in DOMAIN task : task[k].kind = "pin"
                  /\ \A q \in Pool : \A i \in DOMAIN mail[q] : task[mail[q][i]].from = q
AllHere == Constructing \/ Absent = {}
PinnedSoFar == OnlyMain /\ Helpers /\ OwnCpus /\ MainCpu /\ Sown /\ AllHere

\* Thread p goes on as f, or leaves, and calls g, or nothing.
Goes(p, f, g) == \/ Leaves(p) /\ f = Nil /\ g = Nil
                 \/ Becomes(p, f, <<>>) /\ g = Nil
                 \/ Becomes(p, f, <<g>>)

LEMMA GoesAlone ==
  ASSUME Shape, Shape', NEW p \in Procs, stack[p] # <<>>, NEW f, NEW g, Goes(p, f, g)
  PROVE  /\ Moved(p, f, g) /\ \A q \in Procs : q # p => stack'[q] = stack[q]
         /\ f # Nil /\ g = Nil => stack'[p] # <<>> /\ Top(p)' = f
<1>1. Moved(p, f, g)
  BY Became, Called, LeavesMoves DEF Goes
<1>2. stack \in [Procs -> Seq(FrameSet)]
  BY DEF Shape
<1>3. \A q \in Procs : q # p => stack'[q] = stack[q]
  BY <1>2 DEF Goes, Leaves, Becomes, Replace
<1>4. ASSUME f # Nil, g = Nil PROVE stack'[p] # <<>> /\ Top(p)' = f
  <2>1. Becomes(p, f, <<>>)
    <3>1. ASSUME Becomes(p, f, <<g>>) PROVE FALSE
      BY <1>4, <3>1, Called, NilIsNone
    <3> QED BY <1>4, <3>1 DEF Goes
  <2>2. f \in FrameSet /\ Front(stack[p]) \in Seq(FrameSet)
    BY <1>2, <2>1, Became, FrontLast
  <2>3. stack'[p] = Append(Front(stack[p]), f) \o <<>>
    BY <1>2, <2>1 DEF Becomes, Replace
  <2>4. PICK s : s = Front(stack[p])
    OBVIOUS
  <2>5. stack'[p] = Append(s, f) /\ s \in Seq(FrameSet)
    BY <2>2, <2>3, <2>4
  <2>6. Append(s, f) # <<>> /\ Len(Append(s, f)) = Len(s) + 1 /\ Append(s, f)[Len(s) + 1] = f
    BY <2>2, <2>5
  <2>7. Last(stack'[p]) = f
    BY <2>5, <2>6 DEF Last
  <2> QED BY <2>5, <2>6, <2>7 DEF Top
<1> QED BY <1>1, <1>3, <1>4

\* When all have been run none is left to be found.
LEMMA NoneLeft ==
  ASSUME IInv, Absent = {}, NEW id \in PinTasks
  PROVE  Noted(id) /\ Mentioned(id) = 0
<1>1. task[id].from \in 1 .. N - 1 /\ id \in DOMAIN task /\ Shape /\ Lives
  BY DEF IInv, Pins, PinTasks
<1>2. PICK k \in PinTasks : task[k].from = task[id].from /\ Noted(k)
  BY <1>1 DEF Absent
<1>3. k = id
  BY <1>2 DEF IInv, Pins
<1>4. id \in Nat \ {0} /\ task[id].kind = "pin" /\ Life(id)
  BY <1>1 DEF Shape, PinTasks, Lives, LifeAt
<1>5. Mentioned(id) \in Nat /\ Ran(id) \in Nat
  BY <1>1, Tallies
<1>6. CASE Gone(id)
  BY <1>2, <1>3, <1>4, <1>5, <1>6 DEF Life
<1>7. CASE Gathered(id) > 0
  <2>1. PICK x \in Frames : Frame(x) \in Gathering(id)
    BY <1>1, <1>7, StackRows, HeldIn DEF Gathered, Frames, Frame, Item
  <2>2. Frame(x).id = id /\ Frame(x).at = "gather"
    BY <2>1 DEF Gathering
  <2>3. Ran(id) = 1
    BY <1>1, <1>4, <2>2, FrameTask
  <2> QED BY <1>2, <1>3, <1>4, <1>5, <2>3 DEF Life
<1> QED BY <1>2, <1>3, <1>6, <1>7 DEF Noted

\* Whoever has run it is still there, or it is gone.
LEMMA AbsentShrinks ==
  ASSUME DOMAIN task \subseteq DOMAIN task',
         \A k \in PinTasks : task'[k].kind = "pin" /\ task'[k].from = task[k].from,
         \A k \in PinTasks : Noted(k) => Noted(k)'
  PROVE  Absent' \subseteq Absent
<1>1. \A k \in PinTasks : k \in PinTasks'
  BY DEF PinTasks
<1> QED BY <1>1 DEF Absent

-----------------------------------------------------------------------------
(* Steps of loops, tasks and thieves leave the tasks that pin as they are. *)

\* The tasks that pin stay, and no others are made.
PinsStand ==
  /\ DOMAIN task \subseteq DOMAIN task'
  /\ \A k \in DOMAIN task : task'[k].kind = task[k].kind
  /\ \A k \in DOMAIN task : task[k].kind = "pin" => task'[k].from = task[k].from /\ (Gone(k)' <=> Gone(k))
  /\ \A k \in DOMAIN task' : k \in DOMAIN task \/ task'[k].kind # "pin"
MailFrom == \A q \in Pool : \A i \in DOMAIN mail'[q] : \E j \in DOMAIN mail[q] : mail'[q][i] = mail[q][j]
Calm(f) == f.at \notin PinLabels \cup {"main", "pin"}

LEMMA CalmCounts ==
  ASSUME NEW p \in Procs, NEW f, NEW g, Moved(p, f, g), Top(p) \in FrameSet,
         Top(p).at \notin {"pin", "gather"}, f.at \notin {"pin", "gather"}, g.at \notin {"pin", "gather"}
  PROVE  Pinners' = Pinners /\ \A k \in Nat \ {0} : Gathered(k)' = Gathered(k)
<1>1. /\ Pinners \in Nat /\ Pinners' \in Nat
      /\ Pinners' + IsPinner(Top(p)) = Pinners + IsPinner(f) + IsPinner(g)
      /\ \A k \in Nat \ {0} :
            /\ Gathered(k) \in Nat /\ Gathered(k)' \in Nat
            /\ Gathered(k)' + IsGather(Top(p), k) = Gathered(k) + IsGather(f, k) + IsGather(g, k)
  BY PinTally
<1>2. Pinners' = Pinners
  <2>1. PICK a, b, c : a = IsPinner(Top(p)) /\ b = IsPinner(f) /\ c = IsPinner(g)
    OBVIOUS
  <2>2. a = 0 /\ b = 0 /\ c = 0
    BY <2>1 DEF IsPinner
  <2>3. Pinners \in Nat /\ Pinners' \in Nat /\ Pinners' + a = Pinners + b + c
    BY <1>1, <2>1
  <2>4. PICK x, y : x = Pinners /\ y = Pinners'
    OBVIOUS
  <2>5. x \in Nat /\ y \in Nat /\ y + a = x + b + c
    BY <2>3, <2>4
  <2>6. x = y
    BY ONLY <2>2, <2>5
  <2> QED BY ONLY <2>4, <2>6
<1>3. \A k \in Nat \ {0} : Gathered(k)' = Gathered(k)
  <2>1. \A k : IsGather(Top(p), k) = 0 /\ IsGather(f, k) = 0 /\ IsGather(g, k) = 0
    BY DEF IsGather
  <2> QED BY <1>1, <2>1
<1> QED BY <1>2, <1>3

LEMMA PinTasksStand ==
  ASSUME Shape, PinsStand, \A k \in Nat \ {0} : Gathered(k)' = Gathered(k)
  PROVE  PinTasks' = PinTasks /\ PinTasks \subseteq Nat \ {0} /\ Absent' = Absent
<1>1. PinTasks \subseteq Nat \ {0}
  BY LenProperties DEF PinTasks, Shape
<1>2. PinTasks' = PinTasks
  BY DEF PinTasks, PinsStand
<1>3. \A k \in PinTasks : (Noted(k)' <=> Noted(k)) /\ task'[k].from = task[k].from
  BY <1>1 DEF Noted, PinsStand, PinTasks
<1> QED BY <1>1, <1>2, <1>3 DEF Absent

\* Loops, tasks and thieves at work.
LEMMA WorkPinned ==
  ASSUME IInv, IInv', PinnedSoFar, NEW p \in Procs, stack[p] # <<>>, NEW f, NEW g, Goes(p, f, g),
         Calm(Top(p)) \/ Top(p).at = "main", Calm(f) \/ (f.at = "main" /\ Top(p).at = "main"),
         Calm(g) \/ (g.at = "to_pin" /\ p \in Pool \ {0}), cpus' = cpus, PinsStand,
         Sowing => task' = task /\ MailFrom
  PROVE  PinnedSoFar'
<1>0. Shape /\ Shape' /\ Lives /\ 0 \in Procs /\ 0 \in Pool /\ Pool \subseteq Procs
  BY Team DEF IInv
<1>1. Moved(p, f, g) /\ \A q \in Procs : q # p => stack'[q] = stack[q]
  BY <1>0, GoesAlone
<1>2. Top(p) \in FrameSet
  BY <1>0, TopFrame
<1>3. Pinners' = Pinners /\ \A k \in Nat \ {0} : Gathered(k)' = Gathered(k)
  <2>1. /\ Top(p).at \notin {"pin", "gather"} /\ f.at \notin {"pin", "gather"}
        /\ g.at \notin {"pin", "gather"}
    BY DEF Calm, PinLabels, WaitLabels
  <2> QED BY <1>1, <1>2, <2>1, CalmCounts
<1>4. (Constructing' <=> Constructing) /\ (Constructing => p # 0)
  <2>1. Constructing' <=> Constructing
    BY <1>3 DEF Constructing
  <2>2. ASSUME Constructing, p = 0 PROVE FALSE
    <3>1. Top(p) \in PinFrames
      BY <2>2 DEF PinnedSoFar, OnlyMain
    <3>2. Top(p).at \in {"pin", "gather"}
      BY <3>1 DEF PinFrames
    <3> QED BY <3>2 DEF Calm, PinLabels, WaitLabels
  <2> QED BY <2>1, <2>2
<1>5. \A q \in Procs : q # p => (Top(q)' = Top(q) /\ (Stuck(q)' <=> Stuck(q)))
  BY <1>1 DEF Top, Stuck
<1>6. Sowing' <=> Sowing
  BY <1>0, <1>4, <1>5 DEF Sowing
<1>7. PinTasks' = PinTasks /\ PinTasks \subseteq Nat \ {0} /\ Absent' = Absent
  BY <1>0, <1>3, PinTasksStand
<1>9. \A x \in Frames' : \/ x \in Frames /\ Frame(x)' = Frame(x)
                         \/ x[1] = p /\ (Frame(x)' = f \/ Frame(x)' = g)
  BY <1>1 DEF Moved
<1>10. p \notin Outsiders
  BY DEF PinnedSoFar, OnlyMain
<1>11. OnlyMain'
  <2>1. \A o \in Outsiders : stack'[o] = <<>>
    BY <1>1, <1>10 DEF PinnedSoFar, OnlyMain, Procs
  <2>2. ASSUME NEW x \in Frames', Frame(x)'.at = "main" \/ Frame(x)' \in PinFrames PROVE x[1] = 0
    <3>1. CASE x \in Frames /\ Frame(x)' = Frame(x)
      BY <2>2, <3>1 DEF PinnedSoFar, OnlyMain
    <3>2. CASE x[1] = p /\ (Frame(x)' = f \/ Frame(x)' = g)
      <4>1. f \notin PinFrames /\ g \notin PinFrames
        BY DEF PinFrames, Calm, PinLabels, WaitLabels
      <4>2. Frame(x)'.at = "main"
        BY <2>2, <3>2, <4>1
      <4>3. Top(p).at = "main"
        <5>1. f.at = "main" \/ g.at = "main"
          BY <3>2, <4>2
        <5>2. g.at # "main"
          BY DEF Calm
        <5> QED BY <5>1, <5>2 DEF Calm
      <4>4. End(stack, p) \in Frames /\ Frame(End(stack, p)) = Top(p) /\ End(stack, p)[1] = p
        BY <1>0, TopFrame DEF End
      <4> QED BY <3>2, <4>3, <4>4 DEF PinnedSoFar, OnlyMain
    <3> QED BY <1>9, <3>1, <3>2
  <2>3. Constructing' => stack'[0] # <<>> /\ Top(0)' \in PinFrames
    BY <1>0, <1>1, <1>4, <1>5 DEF PinnedSoFar, OnlyMain
  <2> QED BY <2>1, <2>2, <2>3 DEF OnlyMain
<1>12. Helpers'
  <2> SUFFICES ASSUME NEW x \in Frames', Frame(x)'.at \in PinLabels, Frame(x)'.id # 0
               PROVE  x[1] \in Pool \ {0}
    BY DEF Helpers
  <2>1. CASE x \in Frames /\ Frame(x)' = Frame(x)
    BY <2>1 DEF PinnedSoFar, Helpers
  <2>2. CASE x[1] = p /\ (Frame(x)' = f \/ Frame(x)' = g)
    BY <2>2 DEF Calm, PinLabels, WaitLabels
  <2> QED BY <1>9, <2>1, <2>2
<1>13. OwnCpus'
  <2>1. ASSUME NEW x \in Frames', Frame(x)'.at \in WaitLabels, Frame(x)'.id # 0
        PROVE  cpus'[x[1]] = {task'[Frame(x)'.id].from}
    <3>1. x \in Frames /\ Frame(x)' = Frame(x)
      BY <1>9, <2>1 DEF Calm, PinLabels, WaitLabels
    <3>2. Frame(x).id \in DOMAIN task /\ FrameOK(x[1], Frame(x))
      BY <1>0, <2>1, <3>1, FrameTask DEF IInv, FramesOK
    <3>3. task[Frame(x).id].kind = "pin"
      BY <2>1, <3>1, <3>2 DEF FrameOK, WaitLabels
    <3>4. task'[Frame(x).id].from = task[Frame(x).id].from
      BY <3>2, <3>3 DEF PinsStand
    <3> QED BY <2>1, <3>1, <3>4 DEF PinnedSoFar, OwnCpus
  <2>2. ASSUME NEW id \in PinTasks', Gone(id)' PROVE \E q \in Pool \ {0} : cpus'[q] = {task'[id].from}
    <3>1. id \in PinTasks /\ Gone(id) /\ task'[id].from = task[id].from
      BY <1>7, <2>2 DEF PinsStand, PinTasks
    <3> QED BY <3>1 DEF PinnedSoFar, OwnCpus
  <2>3. ASSUME NEW q \in Pool \ {0} PROVE cpus'[q] = Pool \/ Absent' = {} \/ Stuck(q)'
    <3>1. cpus[q] = Pool \/ Absent = {} \/ Stuck(q)
      BY DEF PinnedSoFar, OwnCpus
    <3>2. ~Stuck(p)
      BY DEF Stuck, Calm, PinLabels, WaitLabels
    <3> QED BY <1>0, <1>5, <1>7, <3>1, <3>2
  <2> QED BY <2>1, <2>2, <2>3 DEF OwnCpus
<1>14. MainCpu'
  BY <1>6 DEF PinnedSoFar, MainCpu
<1>15. Sown'
  <2> SUFFICES ASSUME Sowing'
               PROVE  /\ \A k \in DOMAIN task' : task'[k].kind = "pin"
                      /\ \A q \in Pool : \A i \in DOMAIN mail'[q] : task'[mail'[q][i]].from = q
    BY DEF Sown
  <2>1. task' = task /\ MailFrom /\ Sowing
    BY <1>6
  <2>2. /\ \A k \in DOMAIN task : task[k].kind = "pin"
        /\ \A q \in Pool : \A i \in DOMAIN mail[q] : task[mail[q][i]].from = q
    BY <2>1 DEF PinnedSoFar, Sown
  <2>3. ASSUME NEW q \in Pool, NEW i \in DOMAIN mail'[q] PROVE task'[mail'[q][i]].from = q
    <3>1. PICK j \in DOMAIN mail[q] : mail'[q][i] = mail[q][j]
      BY <2>1 DEF MailFrom
    <3> QED BY <2>1, <2>2, <3>1
  <2> QED BY <2>1, <2>2, <2>3
<1>16. AllHere'
  BY <1>4, <1>7 DEF PinnedSoFar, AllHere
<1> QED BY <1>11, <1>12, <1>13, <1>14, <1>15, <1>16 DEF PinnedSoFar

\* Until the tasks that pin are pushed no thread has anything else to do.
LEMMA NoWorkYet ==
  ASSUME IInv, PinnedSoFar, NEW p \in Procs, stack[p] # <<>>,
         Top(p).at \in InTask \cup {"enter", "leave", "join", "main"}
  PROVE  ~Sowing
<1> SUFFICES ASSUME Sowing PROVE FALSE
  OBVIOUS
<1>1. /\ End(stack, p) \in Frames /\ Frame(End(stack, p)) = Top(p) /\ End(stack, p)[1] = p
      /\ Top(p) \in FrameSet
  BY TopFrame DEF IInv, End
<1>2. FrameOK(p, Top(p))
  BY <1>1 DEF IInv, FramesOK
<1>3. CASE Top(p).at = "main"
  <2>1. p = 0 /\ Top(0) \in PinFrames
    BY <1>1, <1>3 DEF PinnedSoFar, OnlyMain, Sowing
  <2> QED BY <1>3, <2>1 DEF PinFrames
<1>4. CASE Top(p).at # "main"
  <2>1. Top(p).id # 0
    <3>1. CASE Top(p).at = "join"
      BY <1>2, <3>1 DEF FrameOK
    <3>2. CASE Top(p).at # "join"
      <4>1. Top(p) \in TaskFrames
        BY <1>1, <1>4, <3>2, FrameKinds
      <4> QED BY <4>1 DEF TaskFrames
    <3> QED BY <3>1, <3>2
  <2>2. Top(p).id \in DOMAIN task
    BY <1>1, <2>1, FrameTask DEF IInv
  <2>3. task[Top(p).id].kind = "pin"
    BY <2>2 DEF PinnedSoFar, Sown
  <2> QED BY <1>2, <1>4, <2>1, <2>3 DEF FrameOK, LoopLabels, IsLoop
<1> QED BY <1>3, <1>4

\* A task at work goes on, ends, or makes another.
LEMMA TaskPinned ==
  ASSUME IInv, IInv', PinnedSoFar, NEW p \in Procs, stack[p] # <<>>,
         Top(p).at \in InTask \cup {"enter", "leave", "join"},
         NEW f, NEW g, Goes(p, f, g), Calm(f), Calm(g), PinsStand, cpus' = cpus
  PROVE  PinnedSoFar'
<1>1. ~Sowing
  BY NoWorkYet
<1>2. Calm(Top(p))
  BY DEF Calm, PinLabels, WaitLabels, InTask
<1> QED BY <1>1, <1>2, WorkPinned

\* It is not one that pins.
LEMMA NotPinning ==
  ASSUME IInv, NEW p \in Procs, stack[p] # <<>>,
         Top(p).at \in InTask \cup {"enter", "leave", "join"}, NEW id, id = Top(p).id
  PROVE  /\ id \in DOMAIN task /\ id \in Nat \ {0} /\ task[id].kind # "pin" /\ task[id] \in TaskSet
         /\ Top(p) \in FrameSet
         /\ Top(p).at # "join" => Top(p) \in TaskFrames
<1>1. /\ End(stack, p) \in Frames /\ Frame(End(stack, p)) = Top(p) /\ End(stack, p)[1] = p
      /\ Top(p) \in FrameSet
  BY TopFrame DEF IInv, End
<1>2. FrameOK(p, Top(p))
  BY <1>1 DEF IInv, FramesOK
<1>3. Top(p).at # "join" => Top(p) \in TaskFrames
  BY <1>1, FrameKinds
<1>4. id # 0
  BY <1>2, <1>3 DEF FrameOK, TaskFrames
<1>5. id \in DOMAIN task /\ id \in Nat \ {0}
  BY <1>1, <1>4, FrameTask DEF IInv
<1>6. task[id].kind # "pin"
  BY <1>2, <1>4 DEF FrameOK, LoopLabels, IsLoop
<1>7. task[id] \in TaskSet
  BY <1>5 DEF IInv, Shape
<1> QED BY <1>1, <1>3, <1>5, <1>6, <1>7

LEMMA StandSame == ASSUME task' = task, deleted' = deleted PROVE PinsStand
BY DEF PinsStand, Gone

LEMMA StandDeleted ==
  ASSUME NEW id \in DOMAIN task, task[id].kind # "pin", task' = task, NEW D, D \subseteq {id},
         deleted' = deleted \cup D
  PROVE  PinsStand
BY DEF PinsStand, Gone

LEMMA StandTurned ==
  ASSUME NEW id \in DOMAIN task, task[id].kind # "pin", NEW u, u.kind = task[id].kind,
         task' = Replace(task, id, u), NEW D, D \subseteq {id}, deleted' = deleted \cup D
  PROVE  PinsStand
<1>1. /\ DOMAIN task' = DOMAIN task /\ task'[id] = u
      /\ \A k \in DOMAIN task : k # id => task'[k] = task[k]
  BY Turned
<1> QED BY <1>1 DEF PinsStand, Gone

LEMMA StandBorn ==
  ASSUME Shape, NEW u, u.kind # "pin", task' = Append(task, u), deleted' = deleted
  PROVE  PinsStand
<1>1. task \in Seq(TaskSet)
  BY DEF Shape
<1>2. /\ DOMAIN task' = DOMAIN task \cup {Len(task) + 1} /\ task'[Len(task) + 1] = u
      /\ \A k \in DOMAIN task : task'[k] = task[k]
  BY <1>1, Grown
<1> QED BY <1>2 DEF PinsStand, Gone

LEMMA StandSpawned ==
  ASSUME Shape, NEW id \in DOMAIN task, task[id].kind # "pin", NEW to \in Nat, NEW u, u.kind # "pin",
         Spawn(id, to, u)
  PROVE  PinsStand
<1>1. task \in Seq(TaskSet) /\ task[id] \in TaskSet
  BY DEF Shape
<1>2. PICK v, s : v = [task[id] EXCEPT !.to = to] /\ s = Replace(task, id, v)
  OBVIOUS
<1>3. v \in TaskSet /\ v.kind = task[id].kind
  BY <1>1, <1>2 DEF TaskSet
<1>4. s \in Seq(TaskSet) /\ Len(s) = Len(task) /\ DOMAIN s = DOMAIN task /\ s[id] = v
      /\ \A k \in DOMAIN task : k # id => s[k] = task[k]
  BY <1>1, <1>2, <1>3 DEF Replace
<1>5. task' = Append(s, u) /\ deleted' = deleted
  BY <1>2 DEF Spawn
<1>6. /\ DOMAIN task' = DOMAIN task \cup {Len(s) + 1} /\ task'[Len(s) + 1] = u
      /\ \A k \in DOMAIN task : task'[k] = s[k]
  BY <1>4, <1>5, Grown
<1> QED BY <1>3, <1>4, <1>5, <1>6 DEF PinsStand, Gone

-----------------------------------------------------------------------------
(* A task at work.  XPinned: what X does to who runs where.                *)

\* The frames that tasks go on as.
LEMMA CalmTask == ASSUME NEW id, NEW at, at \in InTask \cup {"enter", "leave"}
                  PROVE  Calm(TaskFrame(id, at))
BY DEF TaskFrame, Calm, InTask, PinLabels, WaitLabels
LEMMA CalmLoop == ASSUME NEW id, NEW at, at \in LoopLabels, NEW empty PROVE Calm(LoopFrame(id, at, empty))
BY DEF LoopFrame, Calm, LoopLabels, PinLabels, WaitLabels
LEMMA CalmNil == Calm(Nil)
BY DEF Calm, Nil, PinLabels, WaitLabels
LEMMA CalmEntry == ASSUME NEW id, NEW kind, kind \in {"proxy", "unique"} PROVE Calm(Entry(id, kind))
<1>1. Entry(id, kind) = TaskFrame(id, IF kind = "proxy" THEN "enter" ELSE "split")
  BY DEF Entry
<1> QED BY <1>1, CalmTask DEF InTask

\* A stage of the same task.
LEMMA StagePinned ==
  ASSUME IInv, IInv', PinnedSoFar, NEW p \in Procs, stack[p] # <<>>,
         Top(p).at \in InTask \cup {"enter", "leave", "join"},
         NEW f, Calm(f), Becomes(p, f, <<>>), PinsStand, cpus' = cpus
  PROVE  PinnedSoFar'
<1>1. Goes(p, f, Nil)
  BY DEF Goes
<1> QED BY <1>1, CalmNil, TaskPinned

LEMMA LeavingPinned ==
  ASSUME IInv, IInv', PinnedSoFar, NEW p \in Procs, stack[p] # <<>>,
         Top(p).at \in InTask \cup {"enter", "leave", "join"}, Leaves(p), PinsStand, cpus' = cpus
  PROVE  PinnedSoFar'
<1>1. Goes(p, Nil, Nil)
  BY DEF Goes
<1> QED BY <1>1, CalmNil, TaskPinned

LEMMA CallingPinned ==
  ASSUME IInv, IInv', PinnedSoFar, NEW p \in Procs, stack[p] # <<>>,
         Top(p).at \in InTask \cup {"enter", "leave", "join"},
         NEW f, NEW g, Calm(f), Calm(g), Becomes(p, f, <<g>>), PinsStand, cpus' = cpus
  PROVE  PinnedSoFar'
<1>1. Goes(p, f, g)
  BY DEF Goes
<1> QED BY <1>1, TaskPinned

LEMMA SentPinned ==
  ASSUME IInv, IInv', PinnedSoFar, NEW p \in Procs, stack[p] # <<>>,
         Top(p).at \in InTask, NEW f, Calm(f), NEW q, NEW id, NEW kind, kind \in {"proxy", "unique"},
         PushTask(p, q, id, f) \/ ExecuteTask(p, q, id, kind, f), PinsStand, cpus' = cpus
  PROVE  PinnedSoFar'
<1>1. CASE Becomes(p, f, <<>>)
  BY <1>1, StagePinned
<1>2. CASE Becomes(p, f, <<Entry(id, kind)>>)
  <2>1. Calm(Entry(id, kind))
    BY CalmEntry
  <2> QED BY <1>2, <2>1, CallingPinned
<1> QED BY <1>1, <1>2, SentForms

LEMMA BeginStands ==
  ASSUME Shape, NEW p, NEW kind, kind \in LoopKinds, NEW size, BeginLoop(p, kind, size)
  PROVE  PinsStand
<1>1. PICK j, b, c : /\ j = [from |-> 0, to |-> size, lo |-> 0, hi |-> N, grain |-> GrainSize]
                     /\ b = (plan.sharing /\ TaskStackEmpty(p)) /\ c = plan.timespan
  OBVIOUS
<1>2. PICK u : u = Task(kind, Fresh, j, b, c)
  OBVIOUS
<1>3. task' = Append(task, u) /\ deleted' = deleted
  BY <1>1, <1>2 DEF BeginLoop
<1>4. u.kind = kind /\ kind # "pin"
  BY <1>2 DEF Task, LoopKinds
<1> QED BY <1>3, <1>4, StandBorn

LEMMA FinishPinned ==
  ASSUME IInv, IInv', PinnedSoFar, NEW p \in Procs, stack[p] # <<>>,
         Top(p).at \in {"span", "span_body", "rest", "rest_body"}, NEW phase, Finish(p, phase), cpus' = cpus
  PROVE  PinnedSoFar'
<1>1. PICK id, t : id = Top(p).id /\ t = task[id]
  OBVIOUS
<1>2. Top(p).at \in InTask /\ Top(p).at \in InTask \cup {"enter", "leave", "join"}
  BY DEF InTask
<1>3. id \in DOMAIN task /\ t.kind # "pin" /\ t \in TaskSet
  BY <1>1, <1>2, NotPinning
<1>4. \/ /\ task' = Replace(task, id, [t EXCEPT !.from = @ + 1])
         /\ Becomes(p, TaskFrame(id, IF phase = "span" THEN "split" ELSE "rest"), <<>>)
      \/ /\ task' = Replace(task, id, [t EXCEPT !.from = @ + 1, !.grain = @ + 1])
         /\ Becomes(p, TaskFrame(id, "span"), <<>>)
  BY <1>1 DEF Finish
<1>5. deleted' = deleted \cup {}
  BY DEF Finish
<1>6. [t EXCEPT !.from = @ + 1].kind = t.kind /\ [t EXCEPT !.from = @ + 1, !.grain = @ + 1].kind = t.kind
  BY <1>3 DEF TaskSet
<1>7. PinsStand
  BY <1>1, <1>3, <1>4, <1>5, <1>6, StandTurned
<1>8. PICK at \in {"split", "rest", "span"} : Becomes(p, TaskFrame(id, at), <<>>)
  BY <1>4
<1>9. Calm(TaskFrame(id, at))
  BY CalmTask DEF InTask
<1> QED BY <1>2, <1>7, <1>8, <1>9, StagePinned

LEMMA FinishBodyPinned ==
  ASSUME IInv, IInv', PinnedSoFar, NEW p \in Procs, FinishBody(p), cpus' = cpus PROVE PinnedSoFar'
<1>1. stack[p] # <<>> /\ Top(p).at \in {"span", "span_body", "rest", "rest_body"}
  BY DEF FinishBody, Bodies
<1>2. PICK phase : Finish(p, phase)
  BY DEF FinishBody
<1> QED BY <1>1, <1>2, FinishPinned

LEMMA ExecutePinned ==
  ASSUME IInv, IInv', PinnedSoFar, NEW p \in Procs, stack[p] # <<>>, Top(p).at \in {"span", "rest"},
         NEW phase, NEW body \in Bodies, Execute(p, phase, body), cpus' = cpus
  PROVE  PinnedSoFar'
<1>1. PICK id, t : id = Top(p).id /\ t = task[id]
  OBVIOUS
<1>2. Top(p).at \in InTask \cup {"enter", "leave", "join"} /\ body \in InTask
  BY DEF InTask, Bodies
<1>3. Calm(TaskFrame(id, body)) /\ Calm(TaskFrame(Fresh, "share"))
  BY <1>2, CalmTask DEF InTask
<1>4. CASE /\ Becomes(p, TaskFrame(id, body), <<TaskFrame(Fresh, "share")>>)
           /\ BeginLoop(p, "inner", plan.inner)
  <2>1. PinsStand
    <3>1. PICK k \in LoopKinds : k = "inner"
      BY DEF LoopKinds
    <3>2. PICK size : size = plan.inner
      OBVIOUS
    <3> QED BY <1>4, <3>1, <3>2, BeginStands DEF IInv
  <2> QED BY <1>2, <1>3, <1>4, <2>1, CallingPinned
<1>5. CASE Becomes(p, TaskFrame(id, body), <<>>) /\ UNCHANGED <<queues, objects, ran, done>>
  <2>1. PinsStand
    BY <1>5, StandSame DEF objects
  <2> QED BY <1>2, <1>3, <1>5, <2>1, StagePinned
<1>6. CASE Finish(p, phase)
  BY <1>6, FinishPinned
<1> QED BY <1>1, <1>4, <1>5, <1>6 DEF Execute

LEMMA SpanPinned ==
  ASSUME IInv, IInv', PinnedSoFar, NEW p \in Procs, Span(p), cpus' = cpus PROVE PinnedSoFar'
<1>1. PICK id : id = Top(p).id
  OBVIOUS
<1>2. stack[p] # <<>> /\ Top(p).at = "span" /\ Top(p).at \in InTask \cup {"enter", "leave", "join"}
  BY DEF Span, At, InTask
<1>3. CASE Execute(p, "span", "span_body")
  <2>1. PICK body \in Bodies : body = "span_body"
    BY DEF Bodies
  <2>2. PICK phase : phase = "span"
    OBVIOUS
  <2> QED BY <1>2, <1>3, <2>1, <2>2, ExecutePinned
<1>4. CASE Becomes(p, TaskFrame(id, "split"), <<>>) /\ UNCHANGED <<queues, objects, ran, done>>
  <2>1. PinsStand
    BY <1>4, StandSame DEF objects
  <2>2. Calm(TaskFrame(id, "split"))
    BY CalmTask DEF InTask
  <2> QED BY <1>2, <1>4, <2>1, <2>2, StagePinned
<1> QED BY <1>1, <1>3, <1>4 DEF Span

LEMMA RestPinned ==
  ASSUME IInv, IInv', PinnedSoFar, NEW p \in Procs, Rest(p), cpus' = cpus PROVE PinnedSoFar'
<1>1. PICK id, t : id = Top(p).id /\ t = task[id]
  OBVIOUS
<1>2. stack[p] # <<>> /\ Top(p).at = "rest" /\ Top(p).at \in InTask \cup {"enter", "leave", "join"}
  BY DEF Rest, At, InTask
<1>3. CASE Execute(p, "rest", "rest_body")
  <2>1. PICK body \in Bodies : body = "rest_body"
    BY DEF Bodies
  <2>2. PICK phase : phase = "rest"
    OBVIOUS
  <2> QED BY <1>2, <1>3, <2>1, <2>2, ExecutePinned
<1>4. CASE /\ task' = Replace(task, id, [t EXCEPT !.holds = FALSE])
           /\ Becomes(p, [TaskFrame(id, "release") EXCEPT !.ptr = id], <<>>)
           /\ UNCHANGED <<queues, node, deleted, ran, done>>
  <2>1. id \in DOMAIN task /\ t.kind # "pin" /\ t \in TaskSet
    BY <1>1, <1>2, NotPinning
  <2>2. [t EXCEPT !.holds = FALSE].kind = t.kind
    BY <2>1 DEF TaskSet
  <2>3. deleted' = deleted \cup {}
    BY <1>4
  <2>4. PinsStand
    BY <1>1, <1>4, <2>1, <2>2, <2>3, StandTurned
  <2>5. [TaskFrame(id, "release") EXCEPT !.ptr = id].at = "release"
    BY DEF TaskFrame
  <2>6. Calm([TaskFrame(id, "release") EXCEPT !.ptr = id])
    BY <2>5 DEF Calm, PinLabels, WaitLabels
  <2> QED BY <1>2, <1>4, <2>4, <2>6, StagePinned
<1> QED BY <1>1, <1>3, <1>4 DEF Rest

LEMMA DistributePinned ==
  ASSUME IInv, IInv', PinnedSoFar, NEW p \in Procs, Distribute(p), cpus' = cpus PROVE PinnedSoFar'
<1>1. PICK e, id, t, j : e = Top(p) /\ id = Top(p).id /\ t = task[id] /\ j = JobOf(t)
  OBVIOUS
<1>2. stack[p] # <<>> /\ Top(p).at = "share" /\ Top(p).at \in InTask \cup {"enter", "leave", "join"}
  BY DEF Distribute, At, InTask
<1>3. id \in DOMAIN task /\ t.kind # "pin" /\ t \in TaskSet /\ e \in TaskFrames
  BY <1>1, <1>2, NotPinning
<1>4. deleted' = deleted \cup {}
  BY DEF Distribute
<1>5. CASE t.share /\ Shares(j) /\ ~HalfFull(p)
  <2>1. PICK u, f : u = [t EXCEPT !.to = Keep(j)] /\ f = [e EXCEPT !.at = "hand", !.todo = Handed(j)]
    OBVIOUS
  <2>2. task' = Replace(task, id, u) /\ Becomes(p, f, <<>>)
    BY <1>1, <1>5, <2>1 DEF Distribute
  <2>3. u.kind = t.kind /\ f.at = "hand"
    BY <1>3, <2>1 DEF TaskSet, TaskFrames
  <2>4. PinsStand
    BY <1>1, <1>3, <1>4, <2>2, <2>3, StandTurned
  <2>5. Calm(f)
    BY <2>3 DEF Calm, PinLabels, WaitLabels
  <2> QED BY <1>2, <2>2, <2>4, <2>5, StagePinned
<1>6. CASE ~(t.share /\ Shares(j) /\ ~HalfFull(p))
  <2>1. PICK u : u = [t EXCEPT !.grain = IF t.span THEN 1 ELSE @]
    OBVIOUS
  <2>2. task' = Replace(task, id, u) /\ Becomes(p, TaskFrame(id, AfterShare(id)), <<>>)
    BY <1>1, <1>6, <2>1 DEF Distribute
  <2>3. u.kind = t.kind
    BY <1>3, <2>1 DEF TaskSet
  <2>4. PinsStand
    BY <1>1, <1>3, <1>4, <2>2, <2>3, StandTurned
  <2>5. Calm(TaskFrame(id, AfterShare(id)))
    BY CalmTask DEF AfterShare, InTask
  <2> QED BY <1>2, <2>2, <2>4, <2>5, StagePinned
<1> QED BY <1>5, <1>6

LEMMA HandPinned ==
  ASSUME IInv, IInv', PinnedSoFar, NEW p \in Procs, Hand(p), cpus' = cpus PROVE PinnedSoFar'
<1>1. PICK e, id, part : e = Top(p) /\ id = e.id /\ part = Head(e.todo)
  OBVIOUS
<1>2. stack[p] # <<>> /\ Top(p).at = "hand" /\ Top(p).at \in InTask \cup {"enter", "leave", "join"}
  BY DEF Hand, At, InTask
<1>3. id \in DOMAIN task /\ task[id].kind # "pin" /\ task[id] \in TaskSet /\ e \in TaskFrames
  BY <1>1, <1>2, NotPinning
<1>4. PICK u, f, q : /\ u = Task("proxy", task[id].loop, part, task[id].share, task[id].span)
                     /\ f = [e EXCEPT !.at = "self", !.ptr = Fresh] /\ q = part.lo % N
  OBVIOUS
<1>5. Spawn(id, task[id].to, u) /\ (PushTask(p, q, Fresh, f) \/ ExecuteTask(p, q, Fresh, "proxy", f))
  BY <1>1, <1>4 DEF Hand, RunOnThread
<1>6. u.kind # "pin" /\ f.at = "self" /\ task[id].to \in Nat
  BY <1>3, <1>4 DEF Task, TaskFrames, TaskSet
<1>7. PinsStand
  BY <1>3, <1>5, <1>6, StandSpawned DEF IInv
<1>8. Calm(f) /\ Top(p).at \in InTask
  BY <1>2, <1>6 DEF Calm, PinLabels, WaitLabels, InTask
<1>9. PICK kind, k : kind = "proxy" /\ k = Fresh
  OBVIOUS
<1>10. PushTask(p, q, k, f) \/ ExecuteTask(p, q, k, kind, f)
  BY <1>5, <1>9
<1> QED BY <1>2, <1>7, <1>8, <1>9, <1>10, SentPinned

LEMMA HandToSelfPinned ==
  ASSUME IInv, IInv', PinnedSoFar, NEW p \in Procs, HandToSelf(p), cpus' = cpus PROVE PinnedSoFar'
<1>1. PICK e, id : e = Top(p) /\ id = e.id
  OBVIOUS
<1>2. stack[p] # <<>> /\ Top(p).at = "self" /\ Top(p).at \in InTask \cup {"enter", "leave", "join"}
  BY DEF HandToSelf, At, InTask
<1>3. id \in DOMAIN task /\ task[id].kind # "pin" /\ task[id] \in TaskSet /\ e \in TaskFrames
  BY <1>1, <1>2, NotPinning
<1>4. PICK f : f = IF Len(e.todo) = 1 THEN TaskFrame(id, AfterShare(id))
                   ELSE [e EXCEPT !.at = "hand", !.todo = Tail(e.todo), !.ptr = NoTask]
  OBVIOUS
<1>5. ScheduleWithHint(p, e.ptr, "proxy", f)
  BY <1>1, <1>4 DEF HandToSelf
<1>6. PICK q \in Pool : PushTask(p, q, e.ptr, f) \/ ExecuteTask(p, q, e.ptr, "proxy", f)
  BY <1>5 DEF ScheduleWithHint
<1>7. PinsStand
  <2>1. deleted' = deleted \cup {} /\ deleted' = deleted
    BY DEF HandToSelf
  <2>2. CASE task' = task
    BY <2>1, <2>2, StandSame
  <2>3. CASE task' # task
    <3>1. PICK u : u = [task[id] EXCEPT !.grain = 1]
      OBVIOUS
    <3>2. task' = Replace(task, id, u)
      BY <1>1, <2>3, <3>1 DEF HandToSelf
    <3>3. u.kind = task[id].kind
      BY <1>3, <3>1 DEF TaskSet
    <3>4. PICK D : D = {}
      OBVIOUS
    <3>5. deleted' = deleted \cup D /\ D \subseteq {id}
      BY <2>1, <3>4
    <3> QED BY <1>3, <3>2, <3>3, <3>5, StandTurned
  <2> QED BY <2>2, <2>3
<1>8. Calm(f)
  <2>1. CASE Len(e.todo) = 1
    BY <1>4, <2>1, CalmTask DEF AfterShare, InTask
  <2>2. CASE Len(e.todo) # 1
    BY <1>3, <1>4, <2>2 DEF TaskFrames, Calm, PinLabels, WaitLabels
  <2> QED BY <2>1, <2>2
<1>9. PICK kind, k : kind = "proxy" /\ k = e.ptr
  OBVIOUS
<1>10. PushTask(p, q, k, f) \/ ExecuteTask(p, q, k, kind, f)
  BY <1>6, <1>9
<1>11. Top(p).at \in InTask
  BY <1>2 DEF InTask
<1> QED BY <1>2, <1>7, <1>8, <1>9, <1>10, <1>11, SentPinned

LEMMA SplitPinned ==
  ASSUME IInv, IInv', PinnedSoFar, NEW p \in Procs, Split(p), cpus' = cpus PROVE PinnedSoFar'
<1>1. PICK e, id, t : e = Top(p) /\ id = e.id /\ t = task[id]
  OBVIOUS
<1>2. /\ stack[p] # <<>> /\ e.at = "split" /\ Top(p).at \in InTask
      /\ Top(p).at \in InTask \cup {"enter", "leave", "join"}
  BY <1>1 DEF Split, At, InTask
<1>3. id \in DOMAIN task /\ t.kind # "pin" /\ t \in TaskSet
  BY <1>1, <1>2, NotPinning
<1>4. CASE t.from # t.to /\ Divisible(p, t)
  <2>1. PICK mid : mid = t.from + (t.to - t.from) \div 2
    OBVIOUS
  <2>2. PICK u : u = Task("unique", t.loop,
                          [from |-> mid, to |-> t.to, lo |-> 0, hi |-> 0, grain |-> t.grain], FALSE, FALSE)
    OBVIOUS
  <2>3. Spawn(id, mid, u) /\ ScheduleWithHint(p, Fresh, "unique", e)
    BY <1>1, <1>4, <2>1, <2>2 DEF Split
  <2>4. PICK q \in Pool : PushTask(p, q, Fresh, e) \/ ExecuteTask(p, q, Fresh, "unique", e)
    BY <2>3 DEF ScheduleWithHint
  <2>5. u.kind # "pin" /\ mid \in Nat
    <3>1. u.kind = "unique"
      BY <2>2 DEF Task
    <3>2. t.from \in Nat /\ t.to \in Nat /\ t.from <= t.to
      <4>1. TaskOK(t)
        BY <1>1, <1>3 DEF IInv, TasksOK
      <4> QED BY <1>3, <4>1 DEF TaskSet, TaskOK
    <3> QED BY <2>1, <3>1, <3>2
  <2>6. PinsStand
    BY <1>1, <1>3, <2>3, <2>5, StandSpawned DEF IInv
  <2>7. Calm(e)
    BY <1>2 DEF Calm, PinLabels, WaitLabels
  <2>8. PICK kind, k : kind = "unique" /\ k = Fresh
    OBVIOUS
  <2>9. PushTask(p, q, k, e) \/ ExecuteTask(p, q, k, kind, e)
    BY <2>4, <2>8
  <2> QED BY <1>2, <2>6, <2>7, <2>8, <2>9, SentPinned
<1>5. CASE ~(t.from # t.to /\ Divisible(p, t))
  <2>1. Becomes(p, TaskFrame(id, "rest"), <<>>) /\ UNCHANGED <<queues, objects, ran, done>>
    BY <1>1, <1>5 DEF Split
  <2>2. PinsStand
    BY <2>1, StandSame DEF objects
  <2>3. Calm(TaskFrame(id, "rest"))
    BY CalmTask DEF InTask
  <2> QED BY <1>2, <2>1, <2>2, <2>3, StagePinned
<1> QED BY <1>4, <1>5

LEMMA ReleasePinned ==
  ASSUME IInv, IInv', PinnedSoFar, NEW p \in Procs, Release(p), cpus' = cpus PROVE PinnedSoFar'
<1>1. PICK e, id : e = Top(p) /\ id = e.id
  OBVIOUS
<1>2. stack[p] # <<>> /\ Top(p).at = "release" /\ Top(p).at \in InTask \cup {"enter", "leave", "join"}
  BY DEF Release, At, InTask
<1>3. id \in DOMAIN task /\ task[id].kind # "pin" /\ e \in TaskFrames
  BY <1>1, <1>2, NotPinning
<1>4. task' = task /\ (deleted' = deleted \/ deleted' = deleted \cup {id})
  <2>1. task' = task
    BY DEF Release
  <2>2. CASE node[e.ptr].count = 1
    BY <1>1, <2>1, <2>2 DEF Release
  <2>3. CASE node[e.ptr].count # 1
    <3>1. CASE task[id].kind = "unique"
      BY <1>1, <2>1, <2>3, <3>1 DEF Release
    <3>2. CASE task[id].kind = "proxy"
      BY <1>1, <2>1, <2>3, <3>2 DEF Release
    <3>3. CASE task[id].kind # "unique" /\ task[id].kind # "proxy"
      BY <1>1, <2>1, <2>3, <3>3 DEF Release
    <3> QED BY <3>1, <3>2, <3>3
  <2> QED BY <2>2, <2>3
<1>5. PinsStand
  <2>1. PICK D : D = {id}
    OBVIOUS
  <2> QED BY <1>3, <1>4, <2>1, StandSame, StandDeleted
<1>6. CASE node[e.ptr].count = 1
  <2>1. PICK f : f = [e EXCEPT !.ptr = node[e.ptr].parent]
    OBVIOUS
  <2>2. Becomes(p, f, <<>>)
    BY <1>1, <1>6, <2>1 DEF Release
  <2>3. Calm(f)
    BY <1>1, <1>2, <1>3, <2>1 DEF Calm, TaskFrames, PinLabels, WaitLabels
  <2> QED BY <1>2, <1>5, <2>2, <2>3, StagePinned
<1>7. CASE node[e.ptr].count # 1
  <2>1. CASE task[id].kind = "unique"
    <3>1. Leaves(p)
      BY <1>1, <1>7, <2>1 DEF Release
    <3> QED BY <1>2, <1>5, <3>1, LeavingPinned
  <2>2. CASE task[id].kind = "proxy"
    <3>1. PICK f : f = TaskFrame(id, "leave")
      OBVIOUS
    <3>2. Becomes(p, f, <<>>)
      BY <1>1, <1>7, <2>2, <3>1 DEF Release
    <3>3. Calm(f)
      BY <3>1, CalmTask
    <3> QED BY <1>2, <1>5, <3>2, <3>3, StagePinned
  <2>3. CASE task[id].kind # "unique" /\ task[id].kind # "proxy"
    <3>1. PICK f : f = LoopFrame(id, "join", FALSE)
      OBVIOUS
    <3>2. Becomes(p, f, <<>>)
      BY <1>1, <1>7, <2>3, <3>1 DEF Release
    <3>3. Calm(f)
      BY <3>1, CalmLoop DEF LoopLabels
    <3> QED BY <1>2, <1>5, <3>2, <3>3, StagePinned
  <2> QED BY <2>1, <2>2, <2>3
<1> QED BY <1>6, <1>7

LEMMA EnterPinned ==
  ASSUME IInv, IInv', PinnedSoFar, NEW p \in Procs, Enter(p), cpus' = cpus PROVE PinnedSoFar'
<1>1. PICK id, t : id = Top(p).id /\ t = task[id]
  OBVIOUS
<1>2. stack[p] # <<>> /\ Top(p).at \in InTask \cup {"enter", "leave", "join"}
  BY DEF Enter, At
<1>3. id \in DOMAIN task /\ t.kind # "pin" /\ t \in TaskSet
  BY <1>1, <1>2, NotPinning
<1>4. PICK u, D : u = [t EXCEPT !.state = @ + 1] /\ D = IF t.state = 2 THEN {id} ELSE {}
  OBVIOUS
<1>5. task' = Replace(task, id, u) /\ deleted' = deleted \cup D
  BY <1>1, <1>4 DEF Enter
<1>6. u.kind = t.kind /\ D \subseteq {id}
  BY <1>3, <1>4 DEF TaskSet
<1>7. PinsStand
  BY <1>1, <1>3, <1>5, <1>6, StandTurned
<1>8. CASE Becomes(p, TaskFrame(id, "share"), <<>>)
  <2>1. Calm(TaskFrame(id, "share"))
    BY CalmTask DEF InTask
  <2> QED BY <1>2, <1>7, <1>8, <2>1, StagePinned
<1>9. CASE Leaves(p)
  BY <1>2, <1>7, <1>9, LeavingPinned
<1> QED BY <1>1, <1>8, <1>9 DEF Enter

LEMMA LeavePinned ==
  ASSUME IInv, IInv', PinnedSoFar, NEW p \in Procs, Leave(p), cpus' = cpus PROVE PinnedSoFar'
<1>1. PICK id, t : id = Top(p).id /\ t = task[id]
  OBVIOUS
<1>2. stack[p] # <<>> /\ Top(p).at \in InTask \cup {"enter", "leave", "join"}
  BY DEF Leave, At
<1>3. id \in DOMAIN task /\ t.kind # "pin" /\ t \in TaskSet
  BY <1>1, <1>2, NotPinning
<1>4. PICK u, D : u = [t EXCEPT !.state = @ + 1] /\ D = IF t.state = 2 THEN {id} ELSE {}
  OBVIOUS
<1>5. task' = Replace(task, id, u) /\ deleted' = deleted \cup D
  BY <1>1, <1>4 DEF Leave
<1>6. u.kind = t.kind /\ D \subseteq {id}
  BY <1>3, <1>4 DEF TaskSet
<1>7. PinsStand
  BY <1>1, <1>3, <1>5, <1>6, StandTurned
<1>8. Leaves(p)
  BY DEF Leave
<1> QED BY <1>2, <1>7, <1>8, LeavingPinned

LEMMA JoinPinned ==
  ASSUME IInv, IInv', PinnedSoFar, NEW p \in Procs, Join(p), cpus' = cpus PROVE PinnedSoFar'
<1>1. PICK id : id = Top(p).id
  OBVIOUS
<1>2. stack[p] # <<>> /\ Top(p).at \in InTask \cup {"enter", "leave", "join"}
  BY DEF Join, At
<1>3. id \in DOMAIN task /\ task[id].kind # "pin"
  BY <1>1, <1>2, NotPinning
<1>4. task' = task
  BY DEF Join
<1>5. CASE node[id].count = 1
  <2>1. PICK D : D = {id}
    OBVIOUS
  <2>2. Leaves(p) /\ deleted' = deleted \cup D
    BY <1>1, <1>5, <2>1 DEF Join
  <2>3. PinsStand
    BY <1>3, <1>4, <2>1, <2>2, StandDeleted
  <2> QED BY <1>2, <2>2, <2>3, LeavingPinned
<1>6. CASE node[id].count # 1
  <2>1. Becomes(p, LoopFrame(id, "pop", FALSE), <<>>) /\ deleted' = deleted
    BY <1>1, <1>6 DEF Join
  <2>2. PinsStand
    BY <1>4, <2>1, StandSame
  <2>3. Calm(LoopFrame(id, "pop", FALSE))
    BY CalmLoop DEF LoopLabels
  <2> QED BY <1>2, <2>1, <2>2, <2>3, StagePinned
<1> QED BY <1>5, <1>6

LEMMA CallLoopPinned ==
  ASSUME IInv, IInv', PinnedSoFar, NEW p \in Procs, CallLoop(p), cpus' = cpus PROVE PinnedSoFar'
<1>1. stack[p] # <<>> /\ Top(p).at = "main"
  BY DEF CallLoop, At
<1>2. ~Sowing
  BY <1>1, NoWorkYet
<1>3. PICK f, g : f = MainFrame(Top(p).calls - 1) /\ g = TaskFrame(Fresh, "share")
  OBVIOUS
<1>4. Goes(p, f, g)
  BY <1>3 DEF CallLoop, Goes
<1>5. f.at = "main" /\ Calm(g)
  <2>1. Calm(TaskFrame(Fresh, "share"))
    BY CalmTask DEF InTask
  <2> QED BY <1>3, <2>1 DEF MainFrame
<1>6. PinsStand
  <2>1. PICK kind : kind = "root"
    OBVIOUS
  <2>2. BeginLoop(p, kind, plan.size) /\ kind \in LoopKinds
    BY <2>1 DEF CallLoop, LoopKinds
  <2> QED BY <2>2, BeginStands DEF IInv
<1> QED BY <1>1, <1>2, <1>4, <1>5, <1>6, WorkPinned

LEMMA ExitPinned ==
  ASSUME IInv, IInv', PinnedSoFar, NEW p \in Procs, Exit(p), cpus' = cpus PROVE PinnedSoFar'
<1>1. stack[p] # <<>> /\ Top(p).at = "main"
  BY DEF Exit, At
<1>2. ~Sowing
  BY <1>1, NoWorkYet
<1>3. Goes(p, Nil, Nil)
  BY DEF Exit, Goes
<1>4. PinsStand
  BY StandSame DEF Exit, objects
<1> QED BY <1>1, <1>2, <1>3, <1>4, CalmNil, WorkPinned

-----------------------------------------------------------------------------
(* Threads that look for tasks.                                            *)

LEMMA SearchPinned ==
  ASSUME IInv, IInv', PinnedSoFar, NEW p \in Procs, stack[p] # <<>>, Top(p).at \in LoopLabels,
         NEW f, NEW g, Goes(p, f, g), Calm(f), Calm(g) \/ (g.at = "to_pin" /\ p \in Pool \ {0}),
         UNCHANGED objects, cpus' = cpus, MailFrom
  PROVE  PinnedSoFar'
<1>1. task' = task /\ PinsStand
  BY StandSame DEF objects
<1>2. Calm(Top(p))
  BY DEF Calm, LoopLabels, PinLabels, WaitLabels
<1> QED BY <1>1, <1>2, WorkPinned

LEMMA MailStays == ASSUME mail' = mail PROVE MailFrom
BY DEF MailFrom

LEMMA MailTaken == ASSUME Shape, NEW v \in Pool, Took(mail, mail', v) PROVE MailFrom
<1> SUFFICES ASSUME NEW q \in Pool, NEW i \in DOMAIN mail'[q]
             PROVE  \E j \in DOMAIN mail[q] : mail'[q][i] = mail[q][j]
  BY DEF MailFrom
<1>1. mail \in [Pool -> Seq(Nat \ {0})] /\ mail[v] # <<>> /\ mail' = Replace(mail, v, Tail(mail[v]))
  BY DEF Shape, Took
<1>2. CASE q # v
  <2>1. mail'[q] = mail[q]
    BY <1>1, <1>2 DEF Replace
  <2> QED BY <2>1
<1>3. CASE q = v
  <2>1. PICK s : s = mail[v]
    OBVIOUS
  <2>2. s \in Seq(Nat \ {0}) /\ s # <<>> /\ mail'[q] = Tail(s) /\ mail[q] = s
    BY <1>1, <1>3, <2>1 DEF Replace
  <2>3. i \in DOMAIN Tail(s)
    BY <2>2
  <2>4. i \in 1 .. Len(s) - 1 /\ Len(s) \in Nat
    BY ONLY <2>2, <2>3
  <2>5. Tail(s)[i] = s[i + 1] /\ i + 1 \in DOMAIN s
    BY ONLY <2>2, <2>4
  <2> QED BY <2>2, <2>5
<1> QED BY <1>2, <1>3

LEMMA AgainCalm == ASSUME NEW e, NEW empty PROVE Calm(Again(e, empty))
<1>1. CASE e.id = NoTask
  <2>1. Again(e, empty) = LoopFrame(NoTask, "pop", empty)
    BY <1>1 DEF Again
  <2> QED BY <2>1, CalmLoop DEF LoopLabels
<1>2. CASE e.id # NoTask
  <2>1. Again(e, empty) = LoopFrame(e.id, "join", FALSE)
    BY <1>2 DEF Again
  <2> QED BY <2>1, CalmLoop DEF LoopLabels
<1> QED BY <1>1, <1>2

\* A task that pins is not found once all have been run, and thread 0 looks for
\* tasks only then.
LEMMA FoundPinned ==
  ASSUME IInv, IInv', PinnedSoFar, NEW p \in Pool, stack[p] # <<>>, Top(p).at \in LoopLabels,
         NEW id \in Nat \ {0}, QueueStep(0, id), Found(p, id), UNCHANGED objects, cpus' = cpus, MailFrom
  PROVE  PinnedSoFar'
<1>0. p \in Procs
  BY Team
<1>1. Mentioned(id) > 0
  <2>1. InQueues(id) \in Nat /\ InQueues(id)' \in Nat /\ InQueues(id)' + Same(id, id) = InQueues(id) + Same(id, 0)
    BY DEF QueueStep
  <2>2. Same(id, id) = 1 /\ Same(id, 0) = 0
    BY DEF Same
  <2>3. PICK x, y : x = InQueues(id) /\ y = InQueues(id)'
    OBVIOUS
  <2>4. x \in Nat /\ y \in Nat /\ y + 1 = x + 0
    BY <2>1, <2>2, <2>3
  <2>5. x > 0
    BY ONLY <2>4
  <2>6. Carried(id) \in Nat
    BY Tallies DEF IInv
  <2>7. PICK c, m : c = Carried(id) /\ m = Mentioned(id)
    OBVIOUS
  <2>8. m = x + c /\ c \in Nat
    BY <2>3, <2>6, <2>7 DEF Mentioned
  <2>9. m > 0
    BY ONLY <2>4, <2>5, <2>8
  <2> QED BY <2>7, <2>9
<1>2. id \in DOMAIN task /\ task[id].kind \in Queueable
  BY <1>1, Queuing
<1>3. PICK f, g, kind : f = Again(Top(p), FALSE) /\ g = Entry(id, kind) /\ kind = task[id].kind
  OBVIOUS
<1>4. Goes(p, f, g)
  BY <1>3 DEF Goes, Found
<1>5. Calm(f)
  BY <1>3, AgainCalm
<1>6. /\ kind = "proxy" => g.at = "enter"
      /\ kind = "pin" => g.at = "to_pin"
      /\ kind = "unique" => g.at = "split"
  BY <1>2, <1>3, EntryAt
<1>7. CASE kind = "pin"
  <2>1. p # 0
    <3> SUFFICES ASSUME p = 0 PROVE FALSE
      OBVIOUS
    <3>1. Top(0).at \notin {"pin", "gather"}
      BY DEF LoopLabels
    <3>2. ~Constructing
      BY <3>1 DEF PinnedSoFar, OnlyMain, PinFrames
    <3>3. Absent = {}
      BY <3>2 DEF PinnedSoFar, AllHere
    <3>4. id \in PinTasks
      BY <1>2, <1>3, <1>7 DEF PinTasks
    <3>5. Mentioned(id) = 0
      BY <3>3, <3>4, NoneLeft
    <3> QED BY <1>1, <3>5
  <2> QED BY <1>0, <1>4, <1>5, <1>6, <1>7, <2>1, SearchPinned
<1>8. CASE kind # "pin"
  <2>1. Calm(g)
    BY <1>2, <1>3, <1>6, <1>8 DEF Queueable, Calm, PinLabels, WaitLabels
  <2> QED BY <1>0, <1>4, <1>5, <2>1, SearchPinned
<1> QED BY <1>7, <1>8

LEMMA TakeLocalFrontPinned ==
  ASSUME IInv, IInv', PinnedSoFar, NEW p \in Procs, TakeLocalFront(p), cpus' = cpus PROVE PinnedSoFar'
<1>1. /\ stack[p] # <<>> /\ Top(p).at = "pop" /\ Top(p).at \in LoopLabels \ {"join"} /\ Top(p).at \in LoopLabels
      /\ mail' = mail /\ UNCHANGED objects
  BY DEF TakeLocalFront, At, LoopLabels
<1>2. Top(p) \in LoopFrames /\ p \in Pool
  BY <1>1, LoopTop
<1>3. MailFrom
  BY <1>1, MailStays
<1>4. CASE local[p] # <<>>
  <2>1. Found(p, Last(local[p])) /\ TookFront(local, local', p)
    BY <1>4 DEF TakeLocalFront, TookFront
  <2>2. PICK o \in Nat \ {0} : o = Last(local[p]) /\ QueueStep(0, o)
    BY <1>1, <1>2, <2>1, LocalFrontPop DEF IInv
  <2>3. Found(p, o)
    BY <2>1, <2>2 DEF Found, Becomes
  <2> QED BY <1>1, <1>2, <1>3, <2>2, <2>3, FoundPinned
<1>5. CASE local[p] = <<>>
  <2>1. PICK f : f = [Top(p) EXCEPT !.at = "mail"]
    OBVIOUS
  <2>2. Goes(p, f, Nil)
    BY <1>5, <2>1 DEF TakeLocalFront, Becomes, Goes
  <2>3. Calm(f)
    BY <1>2, <2>1 DEF LoopFrames, Calm, PinLabels, WaitLabels
  <2> QED BY <1>1, <1>3, <2>2, <2>3, CalmNil, SearchPinned
<1> QED BY <1>4, <1>5

LEMMA TakeMailPinned ==
  ASSUME IInv, IInv', PinnedSoFar, NEW p \in Procs, TakeMail(p), cpus' = cpus PROVE PinnedSoFar'
<1>1. /\ stack[p] # <<>> /\ Top(p).at = "mail" /\ Top(p).at \in LoopLabels \ {"join"} /\ Top(p).at \in LoopLabels
      /\ local' = local /\ UNCHANGED objects
  BY DEF TakeMail, At, LoopLabels
<1>2. Top(p) \in LoopFrames /\ p \in Pool
  BY <1>1, LoopTop
<1>3. CASE mail[p] # <<>>
  <2>1. Found(p, Head(mail[p])) /\ Took(mail, mail', p)
    BY <1>3 DEF TakeMail, Took
  <2>2. PICK o \in Nat \ {0} : o = Head(mail[p]) /\ QueueStep(0, o)
    BY <1>1, <1>2, <2>1, MailPop DEF IInv
  <2>3. Found(p, o)
    BY <2>1, <2>2 DEF Found, Becomes
  <2>4. MailFrom
    BY <1>2, <2>1, MailTaken DEF IInv
  <2> QED BY <1>1, <1>2, <2>2, <2>3, <2>4, FoundPinned
<1>4. CASE mail[p] = <<>>
  <2>1. PICK f, h : f = Again(Top(p), FALSE) /\ h = [Top(p) EXCEPT !.at = "steal", !.left = N]
    OBVIOUS
  <2>2. (Goes(p, f, Nil) \/ Goes(p, h, Nil)) /\ mail' = mail
    BY <1>4, <2>1 DEF TakeMail, Becomes, Goes
  <2>3. Calm(f) /\ Calm(h)
    <3>1. Calm(f)
      BY <2>1, AgainCalm
    <3>2. h.at = "steal"
      BY <1>2, <2>1 DEF LoopFrames
    <3> QED BY <3>1, <3>2 DEF Calm, PinLabels, WaitLabels
  <2>4. MailFrom
    BY <2>2, MailStays
  <2>5. CASE Goes(p, f, Nil)
    BY <1>1, <2>3, <2>4, <2>5, CalmNil, SearchPinned
  <2>6. CASE Goes(p, h, Nil)
    BY <1>1, <2>3, <2>4, <2>6, CalmNil, SearchPinned
  <2> QED BY <2>2, <2>5, <2>6
<1> QED BY <1>3, <1>4

LEMMA StealMailPinned ==
  ASSUME IInv, IInv', PinnedSoFar, NEW p \in Procs, StealMail(p), cpus' = cpus PROVE PinnedSoFar'
<1>1. /\ stack[p] # <<>> /\ Top(p).at = "steal" /\ Top(p).at \in LoopLabels \ {"join"} /\ Top(p).at \in LoopLabels
      /\ local' = local /\ UNCHANGED objects
  BY DEF StealMail, At, LoopLabels
<1>2. PICK e : e = Top(p)
  OBVIOUS
<1>3. e \in LoopFrames /\ FrameOK(p, e) /\ p \in Pool /\ e.at = "steal"
  BY <1>1, <1>2, LoopTop
<1>4. PICK w \in IF e.left = N THEN Walks(N) ELSE {[victim |-> e.victim, inc |-> e.inc]} :
        LET v == w.victim
            f == [e EXCEPT !.victim = v, !.inc = w.inc]
        IN IF mail[v] # <<>>
           THEN Found(p, Head(mail[v])) /\ mail' = Replace(mail, v, Tail(mail[v]))
           ELSE /\ Becomes(p, IF f.empty THEN [f EXCEPT !.at = "rob"] ELSE NextVictim(f), <<>>)
                /\ UNCHANGED mail
  BY <1>2 DEF StealMail
<1>5. w.victim \in Pool
  <2>1. CASE w \in Walks(N)
    BY <2>1, WalkFacts
  <2>2. CASE w = [victim |-> e.victim, inc |-> e.inc]
    BY <1>3, <2>2 DEF FrameOK, LoopLabels, LoopFrames
  <2> QED BY <1>4, <2>1, <2>2
<1>6. PICK v, f : v = w.victim /\ f = [e EXCEPT !.victim = v, !.inc = w.inc]
  OBVIOUS
<1>7. v \in Pool
  BY <1>5, <1>6
<1>8. CASE mail[v] # <<>>
  <2>1. Found(p, Head(mail[v])) /\ Took(mail, mail', v)
    BY <1>4, <1>6, <1>8 DEF Took
  <2>2. PICK o \in Nat \ {0} : o = Head(mail[v]) /\ QueueStep(0, o)
    BY <1>1, <1>7, <2>1, MailPop DEF IInv
  <2>3. Found(p, o)
    BY <2>1, <2>2 DEF Found, Becomes
  <2>4. MailFrom
    BY <1>7, <2>1, MailTaken DEF IInv
  <2> QED BY <1>1, <1>3, <2>2, <2>3, <2>4, FoundPinned
<1>9. CASE mail[v] = <<>>
  <2>1. mail' = mail /\ Becomes(p, IF f.empty THEN [f EXCEPT !.at = "rob"] ELSE NextVictim(f), <<>>)
    BY <1>4, <1>6, <1>9 DEF Becomes
  <2>2. PICK h : h = IF f.empty THEN [f EXCEPT !.at = "rob"] ELSE NextVictim(f)
    OBVIOUS
  <2>3. Goes(p, h, Nil)
    BY <2>1, <2>2 DEF Becomes, Goes
  <2>4. Calm(h)
    <3>1. DOMAIN f = {"at", "id", "empty", "left", "victim", "inc"}
      BY <1>3, <1>6 DEF LoopFrames
    <3>2. h.at = "rob" \/ h.at = "steal"
      BY <2>2, <3>1 DEF NextVictim
    <3> QED BY <3>2 DEF Calm, PinLabels, WaitLabels
  <2>5. MailFrom
    BY <2>1, MailStays
  <2> QED BY <1>1, <2>3, <2>4, <2>5, CalmNil, SearchPinned
<1> QED BY <1>8, <1>9

LEMMA StealLocalBackPinned ==
  ASSUME IInv, IInv', PinnedSoFar, NEW p \in Procs, StealLocalBack(p), cpus' = cpus PROVE PinnedSoFar'
<1>1. /\ stack[p] # <<>> /\ Top(p).at = "rob" /\ Top(p).at \in LoopLabels \ {"join"} /\ Top(p).at \in LoopLabels
      /\ mail' = mail /\ UNCHANGED objects
  BY DEF StealLocalBack, At, LoopLabels
<1>2. Top(p) \in LoopFrames /\ FrameOK(p, Top(p)) /\ p \in Pool
  BY <1>1, LoopTop
<1>3. PICK v : v = Top(p).victim
  OBVIOUS
<1>4. v \in Pool
  BY <1>1, <1>2, <1>3 DEF FrameOK, LoopLabels
<1>5. MailFrom
  BY <1>1, MailStays
<1>6. CASE local[v] # <<>>
  <2>1. Found(p, Head(local[v])) /\ Took(local, local', v)
    BY <1>3, <1>6 DEF StealLocalBack, Took
  <2>2. PICK o \in Nat \ {0} : o = Head(local[v]) /\ QueueStep(0, o)
    BY <1>1, <1>4, <2>1, LocalBackPop DEF IInv
  <2>3. Found(p, o)
    BY <2>1, <2>2 DEF Found, Becomes
  <2> QED BY <1>1, <1>2, <1>5, <2>2, <2>3, FoundPinned
<1>7. CASE local[v] = <<>>
  <2>1. PICK f : f = NextVictim(Top(p))
    OBVIOUS
  <2>2. Goes(p, f, Nil)
    BY <1>3, <1>7, <2>1 DEF StealLocalBack, Becomes, Goes
  <2>3. Calm(f)
    BY <1>2, <2>1 DEF NextVictim, LoopFrames, Calm, PinLabels, WaitLabels
  <2> QED BY <1>1, <1>5, <2>2, <2>3, CalmNil, SearchPinned
<1> QED BY <1>6, <1>7

LEMMA NothingFoundPinned ==
  ASSUME IInv, IInv', PinnedSoFar, NEW p \in Procs, NothingFound(p), cpus' = cpus PROVE PinnedSoFar'
<1>1. /\ stack[p] # <<>> /\ Top(p).at \in LoopLabels /\ UNCHANGED objects /\ mail' = mail
  BY DEF NothingFound, At, LoopLabels, queues
<1>2. MailFrom
  BY <1>1, MailStays
<1>3. CASE Leaves(p)
  <2>1. Goes(p, Nil, Nil)
    BY <1>3 DEF Goes
  <2> QED BY <1>1, <1>2, <2>1, CalmNil, SearchPinned
<1>4. CASE Becomes(p, Again(Top(p), TRUE), <<>>)
  <2>1. PICK f : f = Again(Top(p), TRUE)
    OBVIOUS
  <2>2. Goes(p, f, Nil)
    BY <1>4, <2>1 DEF Goes
  <2>3. Calm(f)
    BY <2>1, AgainCalm
  <2> QED BY <1>1, <1>2, <2>2, <2>3, CalmNil, SearchPinned
<1> QED BY <1>3, <1>4 DEF NothingFound

LEMMA WorkPinnedApart ==
  ASSUME IInv, IInv', PinnedSoFar, NEW p \in Procs, Work(p), cpus' = cpus PROVE PinnedSoFar'
BY CallLoopPinned, ExitPinned, DistributePinned, HandPinned, HandToSelfPinned, SpanPinned, SplitPinned,
   RestPinned, FinishBodyPinned, ReleasePinned, EnterPinned, LeavePinned, JoinPinned,
   TakeLocalFrontPinned, TakeMailPinned, StealMailPinned, StealLocalBackPinned, NothingFoundPinned
   DEF Work

-----------------------------------------------------------------------------
(* Steps of the constructor and of the tasks that pin.                     *)

\* Who is running the constructor of EigenPinner is thread 0.
LEMMA AtConstructor ==
  ASSUME IInv, PinnedSoFar, NEW p \in Procs, stack[p] # <<>>, Top(p) \in PinFrames
  PROVE  p = 0 /\ Constructing
<1>1. /\ End(stack, p) \in Frames /\ Frame(End(stack, p)) = Top(p) /\ End(stack, p)[1] = p
  BY TopFrame DEF IInv, End
<1>2. p = 0
  BY <1>1 DEF PinnedSoFar, OnlyMain
<1>3. Pinners >= 1
  BY <1>1, CountFrames DEF IInv, Pinners
<1>4. Pinners \in Nat
  BY Tallies DEF IInv
<1>5. PICK x : x = Pinners
  OBVIOUS
<1>6. x >= 1 /\ x \in Nat
  BY <1>3, <1>4, <1>5
<1>7. x > 0
  BY ONLY <1>6
<1> QED BY <1>2, <1>5, <1>7 DEF Constructing

LEMMA SamePinners ==
  ASSUME NEW p \in Procs, NEW f, NEW g, Moved(p, f, g), Top(p) \in FrameSet,
         IsPinner(Top(p)) = IsPinner(f), IsPinner(g) = 0
  PROVE  Pinners' = Pinners
<1>1. /\ Pinners \in Nat /\ Pinners' \in Nat
      /\ Pinners' + IsPinner(Top(p)) = Pinners + IsPinner(f) + IsPinner(g)
  BY PinTally
<1>2. PICK a, c, x, y : a = IsPinner(f) /\ c = IsPinner(g) /\ x = Pinners /\ y = Pinners'
  OBVIOUS
<1>3. x \in Nat /\ y \in Nat /\ a \in Nat /\ c = 0 /\ y + a = x + a + c
  BY <1>1, <1>2 DEF IsPinner
<1>4. x = y
  BY ONLY <1>3
<1> QED BY <1>2, <1>4

\* A thread goes on as f and calls nothing: who runs what.
LEMMA FramesPinned ==
  ASSUME IInv, IInv', PinnedSoFar, NEW p \in Procs, stack[p] # <<>>, NEW f, Goes(p, f, Nil),
         f.at = "main" \/ f \in PinFrames => p = 0,
         f.at \in PinLabels /\ f.id # 0 => p \in Pool \ {0},
         Constructing' => Constructing /\ (p = 0 => f \in PinFrames)
  PROVE  OnlyMain' /\ Helpers'
<1>1. /\ Moved(p, f, Nil) /\ \A q \in Procs : q # p => stack'[q] = stack[q]
      /\ f # Nil => stack'[p] # <<>> /\ Top(p)' = f
  BY GoesAlone DEF IInv
<1>2. \A x \in Frames' : (x \in Frames /\ Frame(x)' = Frame(x)) \/ (x[1] = p /\ Frame(x)' = f)
  BY <1>1 DEF Moved
<1>3. p \notin Outsiders /\ 0 \in Procs
  BY Team DEF PinnedSoFar, OnlyMain
<1>4. \A o \in Outsiders : stack'[o] = <<>>
  BY <1>1, <1>3 DEF PinnedSoFar, OnlyMain, Procs
<1>5. ASSUME NEW x \in Frames', Frame(x)'.at = "main" \/ Frame(x)' \in PinFrames PROVE x[1] = 0
  BY <1>2, <1>5 DEF PinnedSoFar, OnlyMain
<1>6. ASSUME Constructing' PROVE stack'[0] # <<>> /\ Top(0)' \in PinFrames
  <2>1. CASE p = 0
    <3>1. f \in PinFrames /\ f # Nil
      BY <1>6, <2>1, NilIsNone DEF FrameSet
    <3> QED BY <1>1, <2>1, <3>1
  <2>2. CASE p # 0
    <3>1. stack'[0] = stack[0]
      BY <1>1, <1>3, <2>2
    <3> QED BY <1>6, <3>1 DEF PinnedSoFar, OnlyMain, Top
  <2> QED BY <2>1, <2>2
<1>7. ASSUME NEW x \in Frames', Frame(x)'.at \in PinLabels, Frame(x)'.id # 0 PROVE x[1] \in Pool \ {0}
  BY <1>2, <1>7 DEF PinnedSoFar, Helpers
<1> QED BY <1>4, <1>5, <1>6, <1>7 DEF OnlyMain, Helpers

\* And on which CPUs.
LEMMA CpusPinned ==
  ASSUME IInv, IInv', PinnedSoFar, NEW p \in Procs, stack[p] # <<>>, NEW f, Goes(p, f, Nil),
         \A k \in DOMAIN task : task'[k] = task[k],
         \A q \in Pool : q # p => cpus'[q] = cpus[q],
         \A x \in Frames : x[1] = p /\ Frame(x).at \in WaitLabels /\ Frame(x).id # 0 =>
           cpus'[p] = {task[Frame(x).id].from},
         f.at \in WaitLabels /\ f.id # 0 => f.id \in DOMAIN task /\ cpus'[p] = {task[f.id].from},
         \A id \in PinTasks' : Gone(id)' => \E q \in Pool \ {0} : cpus'[q] = {task'[id].from},
         Absent' \subseteq Absent,
         p \in Pool \ {0} => Absent' = {} \/ (f # Nil /\ f.at \in WaitLabels)
  PROVE  OwnCpus'
<1>1. /\ Moved(p, f, Nil) /\ \A q \in Procs : q # p => stack'[q] = stack[q]
      /\ f # Nil => stack'[p] # <<>> /\ Top(p)' = f
  BY GoesAlone DEF IInv
<1>2. \A x \in Frames' : (x \in Frames /\ Frame(x)' = Frame(x)) \/ (x[1] = p /\ Frame(x)' = f)
  BY <1>1 DEF Moved
<1>3. ASSUME NEW x \in Frames', Frame(x)'.at \in WaitLabels, Frame(x)'.id # 0
      PROVE  cpus'[x[1]] = {task'[Frame(x)'.id].from}
  <2>1. CASE x \in Frames /\ Frame(x)' = Frame(x)
    <3>1. Frame(x).id \in DOMAIN task /\ x[1] \in Pool
      BY <1>3, <2>1, FrameTask DEF IInv, PinnedSoFar, Helpers, PinLabels
    <3>2. cpus'[x[1]] = {task[Frame(x).id].from}
      BY <1>3, <2>1, <3>1 DEF PinnedSoFar, OwnCpus
    <3> QED BY <2>1, <3>1, <3>2
  <2>2. CASE x[1] = p /\ Frame(x)' = f
    BY <1>3, <2>2
  <2> QED BY <1>2, <2>1, <2>2
<1>4. ASSUME NEW q \in Pool \ {0} PROVE cpus'[q] = Pool \/ Absent' = {} \/ Stuck(q)'
  <2>1. CASE q = p
    BY <1>1, <2>1 DEF Stuck
  <2>2. CASE q # p
    <3>1. stack'[q] = stack[q] /\ cpus'[q] = cpus[q]
      BY <1>1, <2>2, Team
    <3>2. Stuck(q)' <=> Stuck(q)
      BY <3>1 DEF Stuck, Top
    <3>3. cpus[q] = Pool \/ Absent = {} \/ Stuck(q)
      BY DEF PinnedSoFar, OwnCpus
    <3> QED BY <3>1, <3>2, <3>3
  <2> QED BY <2>1, <2>2
<1> QED BY <1>3, <1>4 DEF OwnCpus

\* Those that wait on one thread agree with its CPUs, which do not change.
LEMMA WaitingThere ==
  ASSUME PinnedSoFar, cpus' = cpus, NEW p
  PROVE  \A x \in Frames : x[1] = p /\ Frame(x).at \in WaitLabels /\ Frame(x).id # 0 =>
           cpus'[p] = {task[Frame(x).id].from}
BY DEF PinnedSoFar, OwnCpus

LEMMA SameFrom ==
  ASSUME Shape, \A k \in DOMAIN task : k \in DOMAIN task' /\ task'[k] = task[k],
         NEW f, NEW g, NEW p \in Procs, Moved(p, f, g), Top(p) \in FrameSet,
         \A k \in PinTasks : IsGather(Top(p), k) = 1 => Gone(k)', deleted \subseteq deleted'
  PROVE  Absent' \subseteq Absent
<1>1. PinTasks \subseteq Nat \ {0} /\ PinTasks \subseteq DOMAIN task
  BY LenProperties DEF PinTasks, Shape
<1>2. ASSUME NEW k \in PinTasks, Noted(k) PROVE Noted(k)'
  <2>1. CASE Gone(k)
    BY <2>1 DEF Noted, Gone
  <2>2. CASE IsGather(Top(p), k) = 1
    BY <2>2 DEF Noted
  <2>3. CASE ~Gone(k) /\ IsGather(Top(p), k) # 1
    <3>1. /\ Gathered(k) \in Nat /\ Gathered(k)' \in Nat /\ Gathered(k) > 0
          /\ Gathered(k)' + IsGather(Top(p), k) = Gathered(k) + IsGather(f, k) + IsGather(g, k)
      BY <1>1, <1>2, <2>3, PinTally DEF Noted
    <3>2. PICK x, y, b, c : x = Gathered(k) /\ y = Gathered(k)' /\ b = IsGather(f, k) /\ c = IsGather(g, k)
      OBVIOUS
    <3>3. x \in Nat /\ y \in Nat /\ x > 0 /\ b \in Nat /\ c \in Nat /\ y + 0 = x + b + c
      BY <2>3, <3>1, <3>2 DEF IsGather
    <3>4. y > 0
      BY ONLY <3>3
    <3> QED BY <3>2, <3>4 DEF Noted
  <2> QED BY <2>1, <2>2, <2>3
<1>3. \A k \in PinTasks : task'[k].kind = "pin" /\ task'[k].from = task[k].from
  BY <1>1 DEF PinTasks
<1>4. DOMAIN task \subseteq DOMAIN task'
  OBVIOUS
<1> QED BY <1>2, <1>3, <1>4, AbsentShrinks

\* The CPU that comes in position i is i.
LEMMA Before == ASSUME NEW i \in 0 .. N - 1 PROVE Cardinality({d \in Pool : d < i}) = i
<1>1. N \in Nat \ {0} /\ i \in Nat
  BY ShapeAssumption
<1>2. {d \in Pool : d < i} = 0 .. i - 1
  BY <1>1 DEF Pool
<1>3. CASE i = 0
  <2>1. {d \in Pool : d < i} = {}
    BY <1>1, <1>2, <1>3
  <2> QED BY <1>3, <2>1, FS_EmptySet
<1>4. CASE i > 0
  <2>1. 0 \in Int /\ i - 1 \in Int /\ ~(0 > i - 1) /\ i - 1 - 0 + 1 = i
    BY <1>1, <1>4
  <2>2. Cardinality(0 .. i - 1) = IF 0 > i - 1 THEN 0 ELSE (i - 1) - 0 + 1
    BY <2>1, FS_Interval, Zenon
  <2>3. Cardinality(0 .. i - 1) = i
    BY <2>1, <2>2
  <2> QED BY <1>2, <2>3
<1> QED BY <1>1, <1>3, <1>4

LEMMA PinnedTo ==
  ASSUME IInv, NEW p \in Pool, cpus[p] = Pool, NEW i \in 0 .. N - 1, PinThread(p, i)
  PROVE  cpus'[p] = {i} /\ \A q \in Pool : q # p => cpus'[q] = cpus[q]
<1>1. cpus \in [Pool -> SUBSET (0 .. N - 1)] /\ N \in Nat \ {0}
  BY ShapeAssumption DEF IInv, Bounds
<1>2. Cardinality(Pool) = N
  <2>1. 0 \in Int /\ N - 1 \in Int /\ ~(0 > N - 1) /\ N - 1 - 0 + 1 = N
    BY <1>1
  <2>2. Cardinality(0 .. N - 1) = IF 0 > N - 1 THEN 0 ELSE (N - 1) - 0 + 1
    BY <2>1, FS_Interval, Zenon
  <2> QED BY <2>1, <2>2 DEF Pool
<1>3. i < Cardinality(cpus[p])
  BY <1>1, <1>2
<1>4. PICK s : s = {c \in Pool : Cardinality({d \in Pool : d < c}) = i}
  OBVIOUS
<1>5. cpus' = [cpus EXCEPT ![p] = s]
  BY <1>3, <1>4 DEF PinThread, Replace
<1>6. s = {i}
  <2>1. \A c \in Pool : Cardinality({d \in Pool : d < c}) = c
    BY Before DEF Pool
  <2>2. i \in Pool
    BY DEF Pool
  <2> QED BY <1>4, <2>1, <2>2
<1> QED BY <1>1, <1>5, <1>6

LEMMA PinMainPinned ==
  ASSUME IInv, IInv', PinnedSoFar, NEW p \in Procs, PinMain(p) PROVE PinnedSoFar'
<1>1. stack[p] # <<>> /\ Top(p).at = "pin" /\ UNCHANGED <<queues, objects, barrier>> /\ Shape
  BY DEF PinMain, At, IInv
<1>2. PICK e, f : e = Top(p) /\ f = [Top(p) EXCEPT !.at = "gather"]
  OBVIOUS
<1>3. e \in PinFrames /\ e \in FrameSet
  BY <1>1, <1>2, PinTop
<1>4. f \in PinFrames /\ f.at = "gather" /\ f.id = 0
  BY <1>2, <1>3 DEF PinFrames
<1>5. p = 0 /\ Constructing /\ 0 \in Pool
  BY <1>1, <1>2, <1>3, AtConstructor, Team
<1>6. Goes(p, f, Nil)
  BY <1>2 DEF PinMain, Goes
<1>7. /\ Moved(p, f, Nil) /\ \A q \in Procs : q # p => stack'[q] = stack[q]
      /\ stack'[p] # <<>> /\ Top(p)' = f
  <2>1. f # Nil
    BY <1>4 DEF Nil
  <2> QED BY <1>1, <1>6, <2>1, GoesAlone DEF IInv
<1>8. Pinners' = Pinners
  <2>1. IsPinner(Top(p)) = IsPinner(f) /\ IsPinner(Nil) = 0
    BY <1>1, <1>4 DEF IsPinner, Nil, NoTask
  <2> QED BY <1>2, <1>3, <1>7, <2>1, SamePinners
<1>9. cpus'[0] = {0} /\ \A q \in Pool : q # 0 => cpus'[q] = cpus[q]
  <2>1. cpus[0] = Pool
    BY <1>1, <1>5 DEF PinnedSoFar, MainCpu, Sowing
  <2>2. PICK i \in 0 .. N - 1 : i = 0
    BY <1>5 DEF Pool
  <2>3. PinThread(p, i)
    BY <2>2 DEF PinMain
  <2> QED BY <1>5, <2>1, <2>2, <2>3, PinnedTo
<1>10. OnlyMain' /\ Helpers'
  <2>1. Constructing' => Constructing
    BY <1>5
  <2> QED BY <1>1, <1>4, <1>5, <1>6, <2>1, FramesPinned
<1>11. Absent' \subseteq Absent
  <2>1. \A k \in PinTasks : IsGather(Top(p), k) # 1
    <3>1. Top(p).at # "gather"
      BY <1>1
    <3> QED BY <3>1 DEF IsGather
  <2> QED BY <1>1, <1>2, <1>3, <1>7, <2>1, SameFrom DEF objects
<1>12. OwnCpus'
  <2>1. \A x \in Frames : x[1] = p /\ Frame(x).at \in WaitLabels /\ Frame(x).id # 0 =>
          cpus'[p] = {task[Frame(x).id].from}
    BY <1>5 DEF PinnedSoFar, Helpers, PinLabels
  <2>2. \A id \in PinTasks' : Gone(id)' => \E q \in Pool \ {0} : cpus'[q] = {task'[id].from}
    <3>1. task' = task /\ deleted' = deleted
      BY <1>1 DEF objects
    <3>2. PinTasks' = PinTasks /\ \A id : Gone(id)' <=> Gone(id)
      BY <3>1 DEF PinTasks, Gone
    <3>3. \A id \in PinTasks : Gone(id) => \E q \in Pool \ {0} : cpus[q] = {task[id].from}
      BY <1>1 DEF PinnedSoFar, OwnCpus
    <3> QED BY <1>9, <3>1, <3>2, <3>3
  <2>3. \A k \in DOMAIN task : task'[k] = task[k]
    BY <1>1 DEF objects
  <2>4. \A q \in Pool : q # p => cpus'[q] = cpus[q]
    BY <1>5, <1>9
  <2>5. /\ f.at \in WaitLabels /\ f.id # 0 => f.id \in DOMAIN task /\ cpus'[p] = {task[f.id].from}
        /\ p \in Pool \ {0} => Absent' = {} \/ (f # Nil /\ f.at \in WaitLabels)
    BY <1>4, <1>5
  <2> QED BY <1>1, <1>6, <1>11, <2>1, <2>2, <2>3, <2>4, <2>5, CpusPinned
<1>13. ~Sowing'
  BY <1>4, <1>5, <1>7 DEF Sowing
<1>14. Constructing'
  BY <1>5, <1>8 DEF Constructing
<1> QED BY <1>9, <1>10, <1>12, <1>13, <1>14 DEF PinnedSoFar, MainCpu, Sown, AllHere

LEMMA PinMePinned ==
  ASSUME IInv, IInv', PinnedSoFar, NEW p \in Procs, PinMe(p) PROVE PinnedSoFar'
<1>1. stack[p] # <<>> /\ Top(p).at = "to_pin" /\ UNCHANGED <<queues, objects, barrier>> /\ Shape
  BY DEF PinMe, At, IInv
<1>2. PICK id, f : id = Top(p).id /\ f = TaskFrame(Top(p).id, "pinned")
  OBVIOUS
<1>3. /\ Top(p) \in FrameSet /\ id \in Nat \ {0} /\ id \in PinTasks /\ id \in DOMAIN task /\ ~Gone(id)
      /\ task[id].kind = "pin"
  BY <1>1, <1>2, PinTop
<1>4. f.at = "pinned" /\ f.id = id /\ f # Nil /\ f \notin PinFrames
  BY <1>2 DEF TaskFrame, Nil, PinFrames
<1>5. p \in Pool \ {0}
  <2>1. /\ End(stack, p) \in Frames /\ Frame(End(stack, p)) = Top(p) /\ End(stack, p)[1] = p
    BY <1>1, TopFrame DEF End
  <2> QED BY <1>1, <1>2, <1>3, <2>1 DEF PinnedSoFar, Helpers, PinLabels
<1>6. Goes(p, f, Nil)
  BY <1>2 DEF PinMe, Goes
<1>7. /\ Moved(p, f, Nil) /\ \A q \in Procs : q # p => stack'[q] = stack[q]
  BY <1>1, <1>6, GoesAlone DEF IInv
<1>8. Pinners' = Pinners
  <2>1. IsPinner(Top(p)) = IsPinner(f) /\ IsPinner(Nil) = 0
    BY <1>1, <1>4 DEF IsPinner, Nil
  <2> QED BY <1>3, <1>7, <2>1, SamePinners
<1>9. (Constructing' <=> Constructing) /\ (Sowing' <=> Sowing)
  <2>1. stack'[0] = stack[0]
    BY <1>5, <1>7, Team
  <2> QED BY <1>8, <2>1 DEF Constructing, Sowing, Top
<1>10. PICK i : i = task[id].from
  OBVIOUS
<1>11. i \in 1 .. N - 1 /\ i \in 0 .. N - 1 /\ 0 \in Pool
  <2>1. i \in 1 .. N - 1
    BY <1>3, <1>10 DEF IInv, Pins
  <2> QED BY <2>1, Team
<1>12. cpus[p] = Pool
  <2>1. Absent # {}
    <3> SUFFICES ASSUME Absent = {} PROVE FALSE
      OBVIOUS
    <3>1. Noted(id)
      BY <1>3, NoneLeft
    <3>2. Gathered(id) = 0
      BY <1>1, <1>2, <1>3, NotGathered
    <3> QED BY <1>3, <3>1, <3>2 DEF Noted
  <2>2. ~Stuck(p)
    BY <1>1 DEF Stuck, WaitLabels
  <2> QED BY <1>5, <2>1, <2>2 DEF PinnedSoFar, OwnCpus
<1>13. cpus'[p] = {i} /\ \A q \in Pool : q # p => cpus'[q] = cpus[q]
  <2>1. PinThread(p, i)
    BY <1>2, <1>10 DEF PinMe
  <2> QED BY <1>5, <1>11, <1>12, <2>1, PinnedTo
<1>14. \A k \in PinTasks : cpus[p] # {task[k].from}
  <2>1. ASSUME NEW k \in PinTasks, cpus[p] = {task[k].from} PROVE FALSE
    <3>1. task[k].from \in 1 .. N - 1
      BY DEF IInv, Pins
    <3>2. 0 \in {task[k].from}
      BY <1>11, <1>12, <2>1
    <3> QED BY <3>1, <3>2
  <2> QED BY <2>1
<1>15. OnlyMain' /\ Helpers'
  <2>1. Constructing' => Constructing /\ (p = 0 => f \in PinFrames)
    BY <1>5, <1>9
  <2>2. (f.at = "main" \/ f \in PinFrames) => p = 0
    BY <1>4
  <2> QED BY <1>1, <1>5, <1>6, <2>1, <2>2, FramesPinned
<1>16. Absent' \subseteq Absent
  <2>1. \A k \in PinTasks : IsGather(Top(p), k) # 1
    <3>1. Top(p).at # "gather"
      BY <1>1
    <3> QED BY <3>1 DEF IsGather
  <2> QED BY <1>1, <1>3, <1>7, <2>1, SameFrom DEF objects
<1>17. OwnCpus'
  <2>1. ASSUME NEW x \in Frames, x[1] = p, Frame(x).at \in WaitLabels, Frame(x).id # 0 PROVE FALSE
    <3>1. cpus[p] = {task[Frame(x).id].from}
      BY <2>1 DEF PinnedSoFar, OwnCpus
    <3>2. Frame(x).id \in DOMAIN task /\ FrameOK(x[1], Frame(x))
      BY <2>1, FrameTask DEF IInv, FramesOK
    <3>3. Frame(x).id \in PinTasks
      BY <2>1, <3>2 DEF FrameOK, WaitLabels, PinTasks
    <3> QED BY <1>14, <3>1, <3>3
  <2>2. ASSUME NEW k \in PinTasks', Gone(k)' PROVE \E q \in Pool \ {0} : cpus'[q] = {task'[k].from}
    <3>1. k \in PinTasks /\ Gone(k) /\ task' = task
      BY <1>1, <2>2 DEF PinTasks, Gone, objects
    <3>2. PICK q \in Pool \ {0} : cpus[q] = {task[k].from}
      BY <3>1 DEF PinnedSoFar, OwnCpus
    <3>3. q # p
      BY <1>14, <3>1, <3>2
    <3> QED BY <1>13, <3>1, <3>2, <3>3
  <2>3. \A k \in DOMAIN task : task'[k] = task[k]
    BY <1>1 DEF objects
  <2>4. f # Nil /\ f.at \in WaitLabels
    BY <1>4 DEF WaitLabels, Nil
  <2>5. f.id \in DOMAIN task /\ cpus'[p] = {task[f.id].from}
    BY <1>3, <1>4, <1>10, <1>13
  <2>6. \A q \in Pool : q # p => cpus'[q] = cpus[q]
    BY <1>13
  <2> QED BY <1>1, <1>6, <1>16, <2>1, <2>2, <2>3, <2>4, <2>5, <2>6, CpusPinned
<1>18. MainCpu'
  BY <1>5, <1>9, <1>11, <1>13 DEF PinnedSoFar, MainCpu
<1>19. Sown'
  BY <1>1, <1>9 DEF PinnedSoFar, Sown, queues, objects
<1>20. AllHere'
  BY <1>9, <1>16 DEF PinnedSoFar, AllHere
<1> QED BY <1>15, <1>17, <1>18, <1>19, <1>20 DEF PinnedSoFar

LEMMA NotifyPinned ==
  ASSUME IInv, IInv', PinnedSoFar, NEW p \in Procs, Notify(p) PROVE PinnedSoFar'
<1>1. /\ stack[p] # <<>> /\ Top(p).at = "pinned" /\ UNCHANGED <<queues, objects>> /\ cpus' = cpus /\ Shape
  BY DEF Notify, At, IInv
<1>2. PICK id, f : id = Top(p).id /\ f = TaskFrame(Top(p).id, "gather")
  OBVIOUS
<1>3. Top(p) \in FrameSet /\ id \in Nat \ {0} /\ id \in DOMAIN task
  BY <1>1, <1>2, PinTop
<1>4. f.at = "gather" /\ f.id = id /\ f # Nil /\ f \notin PinFrames
  BY <1>2, <1>3 DEF TaskFrame, Nil, PinFrames
<1>5. p \in Pool \ {0} /\ cpus[p] = {task[id].from}
  <2>1. /\ End(stack, p) \in Frames /\ Frame(End(stack, p)) = Top(p) /\ End(stack, p)[1] = p
    BY <1>1, TopFrame DEF End
  <2> QED BY <1>1, <1>2, <1>3, <2>1 DEF PinnedSoFar, Helpers, OwnCpus, PinLabels, WaitLabels
<1>6. Goes(p, f, Nil)
  BY <1>2 DEF Notify, Goes
<1>7. /\ Moved(p, f, Nil) /\ \A q \in Procs : q # p => stack'[q] = stack[q]
  BY <1>1, <1>6, GoesAlone DEF IInv
<1>8. Pinners' = Pinners
  <2>1. IsPinner(Top(p)) = IsPinner(f) /\ IsPinner(Nil) = 0
    BY <1>1, <1>3, <1>4 DEF IsPinner, Nil, NoTask
  <2> QED BY <1>3, <1>7, <2>1, SamePinners
<1>9. (Constructing' <=> Constructing) /\ (Sowing' <=> Sowing)
  <2>1. stack'[0] = stack[0]
    BY <1>5, <1>7, Team
  <2> QED BY <1>8, <2>1 DEF Constructing, Sowing, Top
<1>10. OnlyMain' /\ Helpers'
  <2>1. Constructing' => Constructing /\ (p = 0 => f \in PinFrames)
    BY <1>5, <1>9
  <2>2. (f.at = "main" \/ f \in PinFrames) => p = 0
    BY <1>4
  <2> QED BY <1>1, <1>5, <1>6, <2>1, <2>2, FramesPinned
<1>11. Absent' \subseteq Absent
  <2>1. \A k \in PinTasks : IsGather(Top(p), k) # 1
    <3>1. Top(p).at # "gather"
      BY <1>1
    <3> QED BY <3>1 DEF IsGather
  <2> QED BY <1>1, <1>3, <1>7, <2>1, SameFrom DEF objects
<1>12. OwnCpus'
  <2>1. \A x \in Frames : x[1] = p /\ Frame(x).at \in WaitLabels /\ Frame(x).id # 0 =>
          cpus'[p] = {task[Frame(x).id].from}
    BY <1>1, WaitingThere
  <2>2. \A k \in PinTasks' : Gone(k)' => \E q \in Pool \ {0} : cpus'[q] = {task'[k].from}
    BY <1>1 DEF PinnedSoFar, OwnCpus, PinTasks, Gone, objects
  <2>3. \A k \in DOMAIN task : task'[k] = task[k]
    BY <1>1 DEF objects
  <2>4. f.at \in WaitLabels
    BY <1>4 DEF WaitLabels
  <2>5. \A q \in Pool : q # p => cpus'[q] = cpus[q]
    BY <1>1
  <2>6. f.id \in DOMAIN task /\ cpus'[p] = {task[f.id].from}
    BY <1>1, <1>3, <1>4, <1>5
  <2> QED BY <1>1, <1>4, <1>6, <1>11, <2>1, <2>2, <2>3, <2>4, <2>5, <2>6, CpusPinned
<1>13. MainCpu'
  BY <1>1, <1>9 DEF PinnedSoFar, MainCpu
<1>14. Sown'
  BY <1>1, <1>9 DEF PinnedSoFar, Sown, queues, objects
<1>15. AllHere'
  BY <1>9, <1>11 DEF PinnedSoFar, AllHere
<1> QED BY <1>10, <1>12, <1>13, <1>14, <1>15 DEF PinnedSoFar

LEMMA GatherPinned ==
  ASSUME IInv, IInv', PinnedSoFar, NEW p \in Procs, Gather(p) PROVE PinnedSoFar'
<1>1. /\ stack[p] # <<>> /\ Top(p).at = "gather" /\ UNCHANGED <<queues, task, node>> /\ cpus' = cpus /\ Shape
      /\ deleted' = deleted \cup ({Top(p).id} \ {NoTask}) /\ barrier.remain = 0
  BY DEF Gather, At, IInv
<1>2. PICK id, f : id = Top(p).id /\ f = Nil
  OBVIOUS
<1>3. /\ Top(p) \in FrameSet /\ id \in Nat
      /\ id # 0 => id \in Nat \ {0} /\ id \in DOMAIN task /\ id \in PinTasks /\ task[id].kind = "pin"
  BY <1>1, <1>2, PinTop
<1>4. f.at = "none" /\ f.id = 0 /\ f \notin PinFrames /\ f = Nil
  BY <1>2 DEF Nil, NoTask, PinFrames
<1>5. Absent = {} /\ Absent' = {}
  <2>1. Absent = {}
    <3>1. IsFiniteSet(Absent)
      <4>1. 1 \in Int /\ N - 1 \in Int
        BY ShapeAssumption
      <4>2. IsFiniteSet(1 .. N - 1)
        BY <4>1, FS_Interval, Zenon
      <4> QED BY <4>2, FS_Subset DEF Absent
    <3>2. Cardinality(Absent) = 0
      BY <1>1 DEF IInv, Pins
    <3> QED BY <3>1, <3>2, FS_EmptySet
  <2>2. Goes(p, f, Nil)
    BY <1>2 DEF Gather, Goes
  <2>3. Moved(p, f, Nil)
    BY <1>1, <2>2, GoesAlone DEF IInv
  <2>4. \A k \in PinTasks : IsGather(Top(p), k) = 1 => Gone(k)'
    <3>1. ASSUME NEW k \in PinTasks, IsGather(Top(p), k) = 1 PROVE Gone(k)'
      <4>1. k = Top(p).id /\ k # NoTask
        <5>1. k = Top(p).id
          BY <3>1 DEF IsGather
        <5>2. DOMAIN task \subseteq Nat \ {0}
          BY <1>1, LenProperties DEF Shape
        <5> QED BY <5>1, <5>2 DEF PinTasks, NoTask
      <4> QED BY <1>1, <4>1 DEF Gone
    <3> QED BY <3>1
  <2>5. Absent' \subseteq Absent
    BY <1>1, <1>3, <2>3, <2>4, SameFrom
  <2> QED BY <2>1, <2>5
<1>6. Goes(p, f, Nil)
  BY <1>2 DEF Gather, Goes
<1>7. /\ Moved(p, f, Nil) /\ \A q \in Procs : q # p => stack'[q] = stack[q]
  BY <1>1, <1>6, GoesAlone DEF IInv
<1>8. \/ id = 0 /\ p = 0 /\ ~Constructing' /\ ~Sowing
      \/ p \in Pool \ {0} /\ cpus[p] = {task[id].from} /\ (Constructing' <=> Constructing) /\ id # 0
  <2>1. /\ End(stack, p) \in Frames /\ Frame(End(stack, p)) = Top(p) /\ End(stack, p)[1] = p
    BY <1>1, TopFrame DEF End
  <2>2. CASE id = 0
    <3>1. Top(p) \in PinFrames
      BY <1>1, <1>2, <1>3, <2>2 DEF FrameSet, TaskFrames, LoopFrames, LoopLabels, MainFrames
    <3>2. p = 0
      BY <1>1, <3>1, AtConstructor
    <3>3. /\ Pinners \in Nat /\ Pinners' \in Nat
          /\ Pinners' + IsPinner(Top(p)) = Pinners + IsPinner(f) + IsPinner(Nil)
      BY <1>3, <1>7, PinTally
    <3>4. IsPinner(Top(p)) = 1 /\ IsPinner(f) = 0 /\ IsPinner(Nil) = 0
      BY <1>1, <1>2, <1>4, <2>2 DEF IsPinner, NoTask
    <3>5. Pinners <= 1
      BY DEF IInv, Pins
    <3>6. PICK x, y : x = Pinners /\ y = Pinners'
      OBVIOUS
    <3>7. x \in Nat /\ y \in Nat /\ y + 1 = x + 0 + 0 /\ x <= 1
      BY <3>3, <3>4, <3>5, <3>6
    <3>8. ~(y > 0)
      BY ONLY <3>7
    <3>9. ~Constructing'
      BY <3>6, <3>8 DEF Constructing
    <3>10. ~Sowing
      BY <1>1, <3>2 DEF Sowing
    <3> QED BY <2>2, <3>2, <3>9, <3>10
  <2>3. CASE id # 0
    <3>1. p \in Pool \ {0} /\ cpus[p] = {task[id].from}
      BY <1>1, <1>2, <2>1, <2>3 DEF PinnedSoFar, Helpers, OwnCpus, PinLabels, WaitLabels
    <3>2. IsPinner(Top(p)) = IsPinner(f) /\ IsPinner(Nil) = 0
      BY <1>1, <1>2, <1>4, <2>3 DEF IsPinner, NoTask
    <3>3. Pinners' = Pinners
      BY <1>3, <1>7, <3>2, SamePinners
    <3> QED BY <2>3, <3>1, <3>3 DEF Constructing
  <2> QED BY <2>2, <2>3
<1>9. Sowing' <=> Sowing
  <2>1. CASE ~Constructing' /\ ~Sowing
    BY <2>1 DEF Sowing
  <2>2. CASE p \in Pool \ {0} /\ (Constructing' <=> Constructing)
    <3>1. stack'[0] = stack[0]
      BY <1>7, <2>2, Team
    <3> QED BY <2>2, <3>1 DEF Sowing, Top
  <2> QED BY <1>8, <2>1, <2>2
<1>10. OnlyMain' /\ Helpers'
  <2>1. Constructing' => Constructing /\ (p = 0 => f \in PinFrames)
    BY <1>8
  <2>2. f.at # "main" /\ f.at \notin PinLabels
    BY <1>4 DEF PinLabels, WaitLabels
  <2> QED BY <1>1, <1>4, <1>6, <2>1, <2>2, FramesPinned
<1>11. OwnCpus'
  <2>1. \A x \in Frames : x[1] = p /\ Frame(x).at \in WaitLabels /\ Frame(x).id # 0 =>
          cpus'[p] = {task[Frame(x).id].from}
    BY <1>1, WaitingThere
  <2>2. ASSUME NEW k \in PinTasks', Gone(k)' PROVE \E q \in Pool \ {0} : cpus'[q] = {task'[k].from}
    <3>1. k \in PinTasks /\ task' = task /\ (Gone(k) \/ (k = id /\ id # 0))
      BY <1>1, <1>2, <2>2 DEF PinTasks, Gone, NoTask
    <3>2. CASE Gone(k)
      BY <1>1, <3>1, <3>2 DEF PinnedSoFar, OwnCpus
    <3>3. CASE k = id /\ id # 0
      BY <1>1, <1>8, <3>1, <3>3
    <3> QED BY <3>1, <3>2, <3>3
  <2>3. \A k \in DOMAIN task : task'[k] = task[k]
    BY <1>1
  <2>4. f.at \notin WaitLabels
    BY <1>4 DEF WaitLabels
  <2>5. \A q \in Pool : q # p => cpus'[q] = cpus[q]
    BY <1>1
  <2>6. Absent' \subseteq Absent
    BY <1>5
  <2> QED BY <1>1, <1>5, <1>6, <2>1, <2>2, <2>3, <2>4, <2>5, <2>6, CpusPinned
<1>12. MainCpu'
  BY <1>1, <1>9 DEF PinnedSoFar, MainCpu
<1>13. Sown'
  BY <1>1, <1>9 DEF PinnedSoFar, Sown, queues
<1> QED BY <1>5, <1>10, <1>11, <1>12, <1>13 DEF PinnedSoFar, AllHere

\* The mailbox of the thread for which a task is pushed is empty.
LEMMA NoMailYet ==
  ASSUME IInv, PinnedSoFar, Sowing, NEW x \in Frames, Frame(x).at = "pin", NEW q \in Pool, q = Frame(x).next
  PROVE  mail[q] = <<>>
<1> SUFFICES ASSUME mail[q] # <<>> PROVE FALSE
  OBVIOUS
<1>1. mail[q] \in Seq(Nat \ {0}) /\ Shape
  BY DEF IInv, Shape
<1>2. PICK s : s = mail[q]
  OBVIOUS
<1>3. s \in Seq(Nat \ {0}) /\ s # <<>>
  BY <1>1, <1>2
<1>4. 1 \in DOMAIN s
  BY ONLY <1>3
<1>5. PICK id : id = s[1]
  OBVIOUS
<1>6. id \in Queued
  BY <1>2, <1>4, <1>5 DEF Queued, Range
<1>7. id \in DOMAIN task
  BY <1>1, <1>6, QueuedMentioned, Queuing
<1>8. task[id].kind = "pin" /\ task[id].from = q
  BY <1>2, <1>4, <1>5, <1>7 DEF PinnedSoFar, Sown
<1>9. task[id].from \in 1 .. N - 1 /\ task[id].from < Frame(x).next
  BY <1>7, <1>8 DEF IInv, Pins, PinTasks
<1> QED BY <1>8, <1>9

LEMMA PushPinPinned ==
  ASSUME IInv, IInv', PinnedSoFar, MailCap # 0, NEW p \in Procs, PushPin(p) PROVE PinnedSoFar'
<1>1. /\ stack[p] # <<>> /\ Top(p).at = "pin" /\ Top(p).next < N /\ deleted' = deleted /\ cpus' = cpus
      /\ task' = Append(task, PinTask(Top(p).next)) /\ Shape
  BY DEF PushPin, At, IInv
<1>2. PICK e, n, new : e = Top(p) /\ n = Top(p).next /\ new = Fresh
  OBVIOUS
<1>3. /\ Len(task) \in Nat /\ DOMAIN task = 1 .. Len(task) /\ new = Len(task) + 1
      /\ new \in Nat \ {0} /\ new \notin DOMAIN task
  BY <1>1, <1>2, LenProperties DEF Shape, Fresh
<1>4. e \in PinFrames /\ e \in FrameSet /\ e.at = "pin" /\ e.id = 0 /\ e.next = n /\ n \in 1 .. N - 1
  <2>1. e \in PinFrames /\ e \in FrameSet /\ FrameOK(p, e) /\ e.at = "pin" /\ e.id = 0
    BY <1>1, <1>2, PinTop
  <2>2. e.next \in 1 .. N
    BY <2>1 DEF FrameOK
  <2> QED BY <1>1, <1>2, <2>1, <2>2, ShapeAssumption
<1>5. p = 0 /\ Constructing /\ Sowing /\ 0 \in Pool /\ 0 \in Procs
  <2>1. p = 0 /\ Constructing
    BY <1>1, <1>2, <1>4, AtConstructor
  <2> QED BY <1>1, <2>1, Team DEF Sowing
<1>6. n \in Pool /\ n # p /\ n % N = n /\ mail[n] = <<>>
  <2>1. n \in Pool /\ n # p /\ n % N = n
    BY <1>4, <1>5, ShapeAssumption DEF Pool
  <2>2. End(stack, p) \in Frames /\ Frame(End(stack, p)) = Top(p)
    BY <1>1, TopFrame
  <2> QED BY <1>1, <1>2, <1>5, <2>1, <2>2, NoMailYet
<1>7. PICK f, u : f = [e EXCEPT !.next = @ + 1] /\ u = PinTask(n)
  OBVIOUS
<1>8. f \in PinFrames /\ f.at = "pin" /\ f.id = 0 /\ f # Nil
  BY <1>4, <1>7 DEF PinFrames, Nil
<1>9. u.kind = "pin" /\ u.from = n /\ task' = Append(task, u)
  BY <1>1, <1>2, <1>7 DEF PinTask, Task
<1>10. mail' = Replace(mail, n, Append(mail[n], new)) /\ Becomes(p, f, <<>>)
  <2>1. Len(mail[n]) = 0 /\ MailCap \in Nat
    BY <1>6, ShapeAssumption
  <2>2. ~(Len(mail[n]) >= MailCap)
    BY <2>1
  <2>3. PushTask(p, n % N, new, f) \/ ExecuteTask(p, n % N, new, "pin", f)
    BY <1>2, <1>7 DEF PushPin, RunOnThread
  <2> QED BY <1>6, <2>2, <2>3 DEF PushTask, ExecuteTask
<1>11. Goes(p, f, Nil)
  BY <1>10 DEF Goes
<1>12. /\ Moved(p, f, Nil) /\ \A q \in Procs : q # p => stack'[q] = stack[q]
       /\ stack'[p] # <<>> /\ Top(p)' = f
  BY <1>1, <1>8, <1>11, GoesAlone DEF IInv
<1>13. Pinners' = Pinners
  <2>1. IsPinner(Top(p)) = IsPinner(f) /\ IsPinner(Nil) = 0
    BY <1>1, <1>8 DEF IsPinner, Nil
  <2> QED BY <1>2, <1>4, <1>12, <2>1, SamePinners
<1>14. Constructing' /\ Sowing'
  BY <1>5, <1>8, <1>12, <1>13 DEF Constructing, Sowing
<1>15. \A k \in DOMAIN task : k \in DOMAIN task' /\ task'[k] = task[k]
  BY <1>1, <1>3, <1>9 DEF Shape
<1>16. task'[new] = u /\ DOMAIN task' = DOMAIN task \cup {new}
  BY <1>1, <1>3, <1>9 DEF Shape
<1>17. OnlyMain' /\ Helpers'
  BY <1>1, <1>5, <1>8, <1>11, FramesPinned
<1>18. Absent' \subseteq Absent
  <2>1. \A k \in PinTasks : IsGather(Top(p), k) # 1
    <3>1. Top(p).at # "gather"
      BY <1>1
    <3> QED BY <3>1 DEF IsGather
  <2> QED BY <1>1, <1>2, <1>4, <1>12, <1>15, <2>1, SameFrom
<1>19. OwnCpus'
  <2>1. \A x \in Frames : x[1] = p /\ Frame(x).at \in WaitLabels /\ Frame(x).id # 0 =>
          cpus'[p] = {task[Frame(x).id].from}
    BY <1>1, WaitingThere
  <2>2. ASSUME NEW k \in PinTasks', Gone(k)' PROVE \E q \in Pool \ {0} : cpus'[q] = {task'[k].from}
    <3>1. k \in DOMAIN task /\ Gone(k)
      BY <1>1, <2>2 DEF Gone, Shape
    <3>2. k \in PinTasks /\ task'[k].from = task[k].from
      BY <1>15, <2>2, <3>1 DEF PinTasks
    <3> QED BY <1>1, <3>1, <3>2 DEF PinnedSoFar, OwnCpus
  <2>3. f.at \notin WaitLabels
    BY <1>8 DEF WaitLabels
  <2>4. \A q \in Pool : q # p => cpus'[q] = cpus[q]
    BY <1>1
  <2>5. \A k \in DOMAIN task : task'[k] = task[k]
    BY <1>15
  <2> QED BY <1>1, <1>5, <1>11, <1>18, <2>1, <2>2, <2>3, <2>4, <2>5, CpusPinned
<1>20. MainCpu'
  BY <1>1, <1>5, <1>14 DEF PinnedSoFar, MainCpu
<1>21. \A k \in DOMAIN task' : task'[k].kind = "pin"
  BY <1>5, <1>9, <1>15, <1>16 DEF PinnedSoFar, Sown
<1>22. ASSUME NEW q \in Pool, NEW i \in DOMAIN mail'[q] PROVE task'[mail'[q][i]].from = q
  <2>1. mail \in [Pool -> Seq(Nat \ {0})]
    BY <1>1 DEF Shape
  <2>2. CASE q # n
    <3>1. mail'[q] = mail[q]
      BY <1>6, <1>10, <2>1, <2>2 DEF Replace
    <3>2. task[mail[q][i]].from = q
      BY <1>5, <1>22, <3>1 DEF PinnedSoFar, Sown
    <3>3. mail[q][i] \in DOMAIN task
      <4>1. mail[q][i] \in Queued
        BY <1>22, <3>1 DEF Queued, Range
      <4> QED BY <1>1, <4>1, QueuedMentioned, Queuing
    <3> QED BY <1>15, <3>1, <3>2, <3>3
  <2>3. CASE q = n
    <3>1. mail'[q] = Append(<<>>, new)
      BY <1>6, <1>10, <2>1, <2>3 DEF Replace
    <3>2. i = 1 /\ mail'[q][i] = new
      BY <1>22, <3>1
    <3> QED BY <1>9, <1>16, <2>3, <3>2
  <2> QED BY <2>2, <2>3
<1>23. Sown'
  BY <1>21, <1>22 DEF Sown
<1>24. AllHere'
  BY <1>14 DEF AllHere
<1> QED BY <1>17, <1>19, <1>20, <1>23, <1>24 DEF PinnedSoFar

-----------------------------------------------------------------------------
(* At the start, and at the end of the constructor.                        *)

LEMMA StutterPinned == ASSUME IInv, PinnedSoFar, UNCHANGED vars PROVE PinnedSoFar'
<1>1. /\ stack' = stack /\ mail' = mail /\ task' = task /\ deleted' = deleted /\ cpus' = cpus
  BY DEF vars, queues, objects
<1>2. Frames' = Frames /\ (\A x \in Frames : Frame(x)' = Frame(x)) /\ Pinners' = Pinners
  BY <1>1 DEF Frames, Frame, Pinners, Count, Among
<1>3. OnlyMain'
  BY <1>1, <1>2 DEF PinnedSoFar, OnlyMain, Constructing, Top
<1>4. Helpers'
  BY <1>2 DEF PinnedSoFar, Helpers
<1>5. PinTasks' = PinTasks /\ (\A k : Gone(k)' <=> Gone(k)) /\ Absent' = Absent
  BY <1>1 DEF PinTasks, Gone, Absent, Noted, Gathered, Count, Among
<1>6. OwnCpus'
  BY <1>1, <1>2, <1>5 DEF PinnedSoFar, OwnCpus, Stuck, Top
<1>7. Sowing' <=> Sowing
  BY <1>1, <1>2 DEF Sowing, Constructing, Top
<1> QED BY <1>1, <1>2, <1>3, <1>4, <1>5, <1>6, <1>7
        DEF PinnedSoFar, MainCpu, Sown, AllHere, Constructing

LEMMA InitPinned == ASSUME Init, IInv, plan.pin, PinsFirst PROVE PinnedSoFar
<1>1. /\ Shape /\ 0 \in Procs /\ 0 \in Pool /\ plan \in Plans /\ GoodPlan(plan)
      /\ stack = [p \in Procs |-> Start(p)] /\ mail = [p \in Pool |-> <<>>] /\ DOMAIN task = {}
      /\ cpus = [p \in Pool |-> 0 .. N - 1]
  BY Team, InitShape, ShapeAssumption DEF Init
<1>2. PICK m, c : m = MainFrame(plan.calls[0]) /\ c = PinFrame(1)
  OBVIOUS
<1>3. stack[0] = <<m, c>>
  BY <1>1, <1>2 DEF Start
<1>4. c.at = "pin"
  BY <1>2 DEF PinFrame
<1>5. <<0, 2>> \in Frames /\ Frame(<<0, 2>>) = c /\ stack[0] # <<>> /\ Top(0) = c
  <2>1. <<m, c>> # <<>> /\ Len(<<m, c>>) = 2 /\ <<m, c>>[2] = c
    OBVIOUS
  <2>2. <<0, 2>> \in Frames
    <3>1. 2 \in 1 .. Len(stack[0])
      BY <1>3, <2>1
    <3>2. stack \in [Procs -> Seq(FrameSet)]
      BY <1>1 DEF Shape
    <3>3. \E k \in 1 .. Len(stack[0]) : <<0, 2>> = <<0, k>>
      BY <3>1
    <3> QED BY <1>1, <3>2, <3>3, PlaceOf DEF Frames
  <2> QED BY <1>3, <2>1, <2>2 DEF Frame, Top, Last
<1>6. c \in PinFrames
  <2>1. c \in FrameSet
    BY <1>1, <1>5, FrameIn
  <2> QED BY <1>4, <2>1, FrameKinds DEF TaskLabels, InTask, LoopLabels
<1>7. Constructing /\ Sowing
  <2>1. Pinners >= 1 /\ Pinners \in Nat
    BY <1>1, <1>5, <1>6, CountFrames, Tallies DEF Pinners
  <2>2. PICK x : x = Pinners
    OBVIOUS
  <2>3. x >= 1 /\ x \in Nat
    BY <2>1, <2>2
  <2>4. x > 0
    BY ONLY <2>3
  <2> QED BY <1>4, <1>5, <2>2, <2>4 DEF Constructing, Sowing
<1>8. OnlyMain
  <2>1. ASSUME NEW o \in Outsiders PROVE stack[o] = <<>>
    <3>1. plan.calls[o] = 0 /\ o \notin Pool /\ o # 0 /\ o \in Procs
      BY <1>1, ShapeAssumption DEF PinsFirst, Procs
    <3>2. Start(o) = <<>>
      BY <3>1 DEF Start
    <3> QED BY <1>1, <3>1, <3>2
  <2>2. ASSUME NEW x \in Frames, Frame(x).at = "main" \/ Frame(x) \in PinFrames PROVE x[1] = 0
    <3>1. Frame(x).at \in {"main", "pop", "pin"} /\ (Frame(x).at = "pin" => x = <<0, 2>>)
      BY InitFrames
    <3>2. CASE Frame(x).at = "pin"
      BY <3>1, <3>2
    <3>3. CASE Frame(x).at = "main"
      <4>0. stack \in [Procs -> Seq(FrameSet)]
        BY <1>1 DEF Shape
      <4>1. PICK p \in Procs : \E k \in 1 .. Len(stack[p]) : x = <<p, k>>
        BY <2>2, <4>0, PlaceOf DEF Frames
      <4>2. PICK k \in 1 .. Len(stack[p]) : x = <<p, k>>
        BY <4>1
      <4> SUFFICES ASSUME p # 0 PROVE FALSE
        BY <4>2
      <4>3. p \in Pool /\ p \notin Outsiders
        <5>1. p \in Pool \/ p \in Outsiders
          BY DEF Procs
        <5>2. stack[p] # <<>>
          BY <4>2, EmptySeq
        <5> QED BY <2>1, <5>1, <5>2
      <4>4. PICK l : l = LoopFrame(NoTask, "pop", FALSE)
        OBVIOUS
      <4>5. stack[p] = <<l>>
        BY <1>1, <4>3, <4>4 DEF Start
      <4>6. k = 1 /\ stack[p][k] = l
        BY <4>2, <4>5
      <4>7. l.at = "pop" /\ Frame(x) = l
        BY <4>2, <4>4, <4>6 DEF Frame, LoopFrame
      <4> QED BY <3>3, <4>7
    <3>4. CASE Frame(x).at = "pop"
      BY <2>2, <3>4 DEF PinFrames
    <3> QED BY <3>1, <3>2, <3>3, <3>4
  <2> QED BY <1>5, <1>6, <2>1, <2>2 DEF OnlyMain
<1>9. \A x \in Frames : Frame(x).at \notin PinLabels
  BY InitFrames DEF PinLabels, WaitLabels
<1>10. Helpers
  BY <1>9 DEF Helpers
<1>11. OwnCpus
  BY <1>1, <1>9 DEF OwnCpus, PinTasks, PinLabels, Pool
<1>12. MainCpu
  BY <1>1, <1>7 DEF MainCpu, Pool
<1>13. Sown
  BY <1>1 DEF Sown
<1> QED BY <1>7, <1>8, <1>10, <1>11, <1>12, <1>13 DEF PinnedSoFar, AllHere

\* When all have been run, for each CPU there is a thread that it is alone for.
LEMMA EveryCpuTaken ==
  ASSUME IInv, PinnedSoFar, Absent = {}, ~Sowing
  PROVE  \A i \in Pool : \E q \in Pool : cpus[q] = {i}
<1> SUFFICES ASSUME NEW i \in Pool PROVE \E q \in Pool : cpus[q] = {i}
  OBVIOUS
<1>1. CASE i = 0
  BY <1>1 DEF PinnedSoFar, MainCpu
<1>2. CASE i # 0
  <2>1. i \in 1 .. N - 1
    BY <1>2, ShapeAssumption DEF Pool
  <2>2. PICK id \in PinTasks : task[id].from = i /\ Noted(id)
    BY <2>1 DEF Absent
  <2>3. CASE Gone(id)
    BY <2>2, <2>3 DEF PinnedSoFar, OwnCpus
  <2>4. CASE Gathered(id) > 0
    <3>1. Shape /\ id \in Nat \ {0}
      BY LenProperties DEF IInv, Shape, PinTasks
    <3>2. PICK x \in Frames : Frame(x) \in Gathering(id)
      BY <2>4, <3>1, StackRows, HeldIn DEF Gathered, Frames, Frame, Item
    <3>3. Frame(x).at = "gather" /\ Frame(x).id = id /\ id # 0
      BY <3>1, <3>2 DEF Gathering
    <3>4. x[1] \in Pool /\ cpus[x[1]] = {task[id].from}
      BY <3>3 DEF PinnedSoFar, Helpers, OwnCpus, PinLabels, WaitLabels
    <3> QED BY <2>2, <3>4
  <2> QED BY <2>2, <2>3, <2>4 DEF Noted
<1> QED BY <1>1, <1>2

\* There are as many threads as CPUs, so that no thread has two and no two the
\* same.
LEMMA ThenApart ==
  ASSUME \A i \in Pool : \E q \in Pool : cpus[q] = {i}
  PROVE  \A p, q \in Pool : Cardinality(cpus[p]) = 1 /\ (p # q => cpus[p] # cpus[q])
<1>1. PICK g : g = [i \in Pool |-> CHOOSE q \in Pool : cpus[q] = {i}]
  OBVIOUS
<1>2. \A i \in Pool : g[i] \in Pool /\ cpus[g[i]] = {i}
  <2>1. ASSUME NEW i \in Pool PROVE g[i] \in Pool /\ cpus[g[i]] = {i}
    <3>1. \E q \in Pool : cpus[q] = {i}
      OBVIOUS
    <3>2. g[i] = CHOOSE q \in Pool : cpus[q] = {i}
      BY <1>1
    <3> QED BY <3>1, <3>2
  <2> QED BY <2>1
<1>3. DOMAIN g = Pool /\ g \in [Pool -> Pool]
  BY <1>1, <1>2
<1>4. \A i, j \in Pool : g[i] = g[j] => i = j
  <2>1. ASSUME NEW i \in Pool, NEW j \in Pool, g[i] = g[j] PROVE i = j
    <3>1. {i} = {j}
      BY <1>2, <2>1
    <3> QED BY <3>1
  <2> QED BY <2>1
<1>5. g \in Injection(Pool, Pool)
  BY <1>3, <1>4 DEF Injection, IsInjective
<1>6. g \in Surjection(Pool, Pool)
  BY <1>5, Team, FS_Injection
<1>7. \A q \in Pool : \E i \in Pool : g[i] = q
  BY <1>6 DEF Surjection
<1>8. ASSUME NEW p \in Pool PROVE Cardinality(cpus[p]) = 1
  <2>1. PICK i \in Pool : g[i] = p
    BY <1>7
  <2>2. cpus[p] = {i}
    BY <1>2, <2>1
  <2>3. Cardinality({i}) = 1
    BY FS_Singleton
  <2> QED BY <2>2, <2>3
<1>9. ASSUME NEW p \in Pool, NEW q \in Pool, cpus[p] = cpus[q] PROVE p = q
  <2>1. PICK i \in Pool : g[i] = p
    BY <1>7
  <2>2. PICK j \in Pool : g[j] = q
    BY <1>7
  <2>3. {i} = {j}
    BY <1>2, <1>9, <2>1, <2>2
  <2>4. i = j
    BY <2>3
  <2> QED BY <2>1, <2>2, <2>4
<1> QED BY <1>8, <1>9

LEMMA ApartFromPinned == ASSUME IInv, plan.pin => PinnedSoFar PROVE PinnedApart
<1> SUFFICES ASSUME plan.pin, \A k \in DOMAIN stack[0] : stack[0][k].at \notin {"pin", "gather"}
             PROVE  \A p, q \in Pool : Cardinality(cpus[p]) = 1 /\ (p # q => cpus[p] # cpus[q])
  BY DEF PinnedApart
<1>1. ~Constructing
  <2> SUFFICES ASSUME Constructing PROVE FALSE
    OBVIOUS
  <2>1. stack[0] # <<>> /\ Top(0) \in PinFrames /\ stack[0] \in Seq(FrameSet)
    BY Team DEF PinnedSoFar, OnlyMain, IInv, Shape
  <2>2. PICK s : s = stack[0]
    OBVIOUS
  <2>3. s # <<>> /\ s \in Seq(FrameSet) /\ Top(0) = Last(s)
    BY <2>1, <2>2 DEF Top
  <2>4. Last(s) = s[Len(s)] /\ Len(s) \in Nat \ {0} /\ DOMAIN s = 1 .. Len(s)
    BY <2>3, FrontLast, LenProperties
  <2>5. Len(s) \in DOMAIN s
    BY ONLY <2>4
  <2>6. s[Len(s)].at \notin {"pin", "gather"}
    BY <2>2, <2>5
  <2> QED BY <2>1, <2>3, <2>4, <2>6 DEF PinFrames
<1>2. Absent = {} /\ ~Sowing
  BY <1>1 DEF PinnedSoFar, AllHere, Sowing
<1> QED BY <1>2, EveryCpuTaken, ThenApart

LEMMA PinningPinned ==
  ASSUME IInv, IInv', PinnedSoFar, MailCap # 0, NEW p \in Procs, Pinning(p) PROVE PinnedSoFar'
BY PushPinPinned, PinMainPinned, PinMePinned, NotifyPinned, GatherPinned DEF Pinning

\* PinnedApart in every state: when the constructor of EigenPinner has
\* returned each thread of the pool has one CPU, and no two have the same.
THEOREM EachOnItsOwn == PinsFirst => (Spec => []PinnedApart)
<1> SUFFICES ASSUME PinsFirst PROVE Spec => []PinnedApart
  OBVIOUS
<1> DEFINE Good == plan.pin => PinnedSoFar
<1>1. Init => Good
  BY InitInvariant, InitPinned
<1>2. IInv /\ IInv' /\ Good /\ [Next]_vars => Good'
  <2> SUFFICES ASSUME IInv, IInv', Good, [Next]_vars, plan'.pin PROVE PinnedSoFar'
    OBVIOUS
  <2>1. CASE UNCHANGED vars
    BY <2>1, StutterPinned DEF vars
  <2>2. ASSUME NEW p \in Procs, Step(p) PROVE PinnedSoFar'
    <3>1. plan' = plan /\ PinnedSoFar
      BY <2>2 DEF Step
    <3>2. CASE Work(p) /\ UNCHANGED <<cpus, barrier>>
      BY <3>1, <3>2, WorkPinnedApart
    <3>3. CASE Pinning(p)
      BY <3>1, <3>3, PinningPinned DEF PinsFirst
    <3> QED BY <2>2, <3>2, <3>3 DEF Step
  <2>3. CASE Ended
    BY <2>3, StutterPinned DEF Ended, vars
  <2> QED BY <2>1, <2>2, <2>3 DEF Next
<1>3. IInv /\ Good => PinnedApart
  BY ApartFromPinned
<1> QED BY <1>1, <1>2, <1>3, Invariant, PTL DEF Spec
===============================================================================
