--------------------------- MODULE RunQueueProofs ---------------------------
(***************************************************************************)
(* Theorems about RunQueue for every kSize, every number of threads, and   *)
(* every choice of the operations they use; the last two, that emptiness   *)
(* is reported truly and that the queue implements Deque, for the pool's   *)
(* choice, which leaves PushBack out (PoolUse).                            *)
(***************************************************************************)
EXTENDS RunQueue, TLAPS

Assumptions == KAssumption /\ MAssumption /\ ProcsAssumption
               /\ UsesAssumption /\ WorksAssumption

Labels == {"idle", "return", "load_back", "reload_front", "popb_lock",
           "pushf_claim", "pushf_store", "popf_claim"}
          \cup Popping \cup Pushing \cup InMutex \cup FrontOps \cup BackOps

LEMMA LabelSets ==
  /\ Popping \subseteq Labels /\ Pushing \subseteq Labels
  /\ InMutex \subseteq Labels /\ FrontOps \subseteq Labels /\ BackOps \subseteq Labels
BY DEF Labels

\* The index arithmetic stays among the index values.
LEMMA Moves == ASSUME NEW w \in Word
               PROVE  Up(w) \in Word /\ Down(w) \in Word
<1>1. Next1(w.pos) \in Positions /\ Prev1(w.pos) \in Positions
  BY KAssumption DEF Word, Positions, Next1, Prev1
<1>2. WrapCount(w.cnt + (IF w.pos = 2 * K - 1 THEN 2 ELSE 1)) \in 0 .. M - 1
  BY MAssumption DEF Word, WrapCount
<1> QED BY <1>1, <1>2 DEF Up, Down, Word

LEMMA SlotType == ASSUME NEW i \in Positions
                  PROVE  Slot(i) \in Slots /\ Next1(i) \in Positions /\ Prev1(i) \in Positions
BY KAssumption DEF Positions, Slots, Slot, Next1, Prev1

LEMMA TypeInit == Init => TypeOK
BY KAssumption, MAssumption
   DEF Init, TypeOK, Word, Positions, Slots, FrontOps, BackOps

LEMMA TypeStep == TypeOK /\ [Next]_vars => TypeOK'
<1> SUFFICES ASSUME TypeOK, [Next]_vars PROVE TypeOK'
  OBVIOUS
<1>1. CASE UNCHANGED vars
  BY <1>1 DEF TypeOK, vars, queue, snap
<1>2. CASE Next
  <2>1. seen' \in SUBSET Procs
    BY <1>2 DEF Next, Watch
  <2>2. PICK p \in Procs : Call(p) \/ Step(p)
    BY <1>2 DEF Next
  <2>s. Slot(front.pos) \in Slots /\ Slot(Prev1(front.pos)) \in Slots
        /\ Slot(back.pos) \in Slots /\ Slot(Prev1(back.pos)) \in Slots
    BY SlotType DEF TypeOK, Word
  <2>w. Up(front) \in Word /\ Down(front) \in Word /\ Up(back) \in Word /\ Down(back) \in Word
    BY Moves DEF TypeOK
  <2>3. CASE Call(p)
    <3>1. PICK op \in Uses[p] : /\ pc' = [pc EXCEPT ![p] = op]
                                /\ call' = [call EXCEPT ![p] = op]
      BY <2>3 DEF Call, Goto
    <3>2. op \in FrontOps \cup BackOps
      BY UsesAssumption
    <3>3. hand' = hand \/ \E w \in Works : hand' = [hand EXCEPT ![p] = w]
      BY <2>3 DEF Call
    <3>4. hand' \in [Procs -> Works \cup {NoWork}]
      BY <3>3 DEF TypeOK
    <3>5. UNCHANGED <<front, back, state, work, mutex, snapFront, snapBack>>
      BY <2>3 DEF Call, queue, snap
    <3> QED BY <2>1, <3>1, <3>2, <3>4, <3>5 DEF TypeOK
  <2>4. CASE PushFront(p)
    <3>1. \E l \in Labels : pc' = [pc EXCEPT ![p] = l]
      BY <2>4 DEF PushFront, Load, Claim, StoreFront, MoveIn, Publish, Goto, Labels, Pushing
    <3>2. state' \in [Slots -> {"Empty", "Busy", "Ready"}]
      BY <2>4, <2>s DEF PushFront, Load, Claim, StoreFront, MoveIn, Publish, queue, TypeOK
    <3>3. work' \in [Slots -> Works \cup {NoWork}] /\ hand' \in [Procs -> Works \cup {NoWork}]
      BY <2>4, <2>s DEF PushFront, Load, Claim, StoreFront, MoveIn, Publish, queue, TypeOK
    <3>4. front' \in Word /\ back' \in Word /\ mutex' \in Procs \cup {Nobody}
      BY <2>4, <2>w DEF PushFront, Load, Claim, StoreFront, MoveIn, Publish, queue, TypeOK
    <3>5. UNCHANGED <<call, snapFront, snapBack>>
      BY <2>4 DEF PushFront, Load, Claim, StoreFront, MoveIn, Publish, snap
    <3>6. pc' \in [Procs -> Labels]
      BY <3>1 DEF TypeOK, Labels
    <3> QED BY <2>1, <3>2, <3>3, <3>4, <3>5, <3>6 DEF TypeOK, Labels
  <2>5. CASE PopFront(p)
    <3>1. \E l \in Labels : pc' = [pc EXCEPT ![p] = l]
      BY <2>5 DEF PopFront, Load, Claim, StoreFront, MoveOut, Release, Goto, Labels, Popping
    <3>2. state' \in [Slots -> {"Empty", "Busy", "Ready"}]
      BY <2>5, <2>s DEF PopFront, Load, Claim, StoreFront, MoveOut, Release, queue, TypeOK
    <3>3. work' \in [Slots -> Works \cup {NoWork}] /\ hand' \in [Procs -> Works \cup {NoWork}]
      BY <2>5, <2>s DEF PopFront, Load, Claim, StoreFront, MoveOut, Release, queue, TypeOK
    <3>4. front' \in Word /\ back' \in Word /\ mutex' \in Procs \cup {Nobody}
      BY <2>5, <2>w DEF PopFront, Load, Claim, StoreFront, MoveOut, Release, queue, TypeOK
    <3>5. UNCHANGED <<call, snapFront, snapBack>>
      BY <2>5 DEF PopFront, Load, Claim, StoreFront, MoveOut, Release, snap
    <3>6. pc' \in [Procs -> Labels]
      BY <3>1 DEF TypeOK, Labels
    <3> QED BY <2>1, <3>2, <3>3, <3>4, <3>5, <3>6 DEF TypeOK, Labels
  <2>6. CASE PushBack(p)
    <3>1. \E l \in Labels : pc' = [pc EXCEPT ![p] = l]
      BY <2>6 DEF PushBack, Lock, Load, Claim, StoreBack, MoveIn, Publish, Goto, Labels, InMutex, BackPushing
    <3>2. state' \in [Slots -> {"Empty", "Busy", "Ready"}]
      BY <2>6, <2>s DEF PushBack, Lock, Load, Claim, StoreBack, MoveIn, Publish, queue, TypeOK
    <3>3. work' \in [Slots -> Works \cup {NoWork}] /\ hand' \in [Procs -> Works \cup {NoWork}]
      BY <2>6, <2>s DEF PushBack, Lock, Load, Claim, StoreBack, MoveIn, Publish, queue, TypeOK
    <3>4. front' \in Word /\ back' \in Word /\ mutex' \in Procs \cup {Nobody}
      BY <2>6, <2>w DEF PushBack, Lock, Load, Claim, StoreBack, MoveIn, Publish, queue, TypeOK
    <3>5. UNCHANGED <<call, snapFront, snapBack>>
      BY <2>6 DEF PushBack, Lock, Load, Claim, StoreBack, MoveIn, Publish, snap
    <3>6. pc' \in [Procs -> Labels]
      BY <3>1 DEF TypeOK, Labels
    <3> QED BY <2>1, <3>2, <3>3, <3>4, <3>5, <3>6 DEF TypeOK, Labels
  <2>7. CASE PopBack(p)
    <3>1. \E l \in Labels : pc' = [pc EXCEPT ![p] = l]
      BY <2>7 DEF PopBack, Lock, Load, Claim, StoreBack, MoveOut, Release, Goto, Labels, InMutex, BackPopping
    <3>2. state' \in [Slots -> {"Empty", "Busy", "Ready"}]
      BY <2>7, <2>s DEF PopBack, Lock, Load, Claim, StoreBack, MoveOut, Release, queue, TypeOK
    <3>3. work' \in [Slots -> Works \cup {NoWork}] /\ hand' \in [Procs -> Works \cup {NoWork}]
      BY <2>7, <2>s DEF PopBack, Lock, Load, Claim, StoreBack, MoveOut, Release, queue, TypeOK
    <3>4. front' \in Word /\ back' \in Word /\ mutex' \in Procs \cup {Nobody}
      BY <2>7, <2>w DEF PopBack, Lock, Load, Claim, StoreBack, MoveOut, Release, queue, TypeOK
    <3>5. UNCHANGED <<call, snapFront, snapBack>>
      BY <2>7 DEF PopBack, Lock, Load, Claim, StoreBack, MoveOut, Release, snap
    <3>6. pc' \in [Procs -> Labels]
      BY <3>1 DEF TypeOK, Labels
    <3> QED BY <2>1, <3>2, <3>3, <3>4, <3>5, <3>6 DEF TypeOK, Labels
  <2>8. CASE LoadFront(p)
    BY <2>1, <2>8 DEF LoadFront, Goto, queue, snap, TypeOK
  <2>9. CASE LoadBack(p)
    BY <2>1, <2>9 DEF LoadBack, Goto, queue, snap, TypeOK
  <2>10. CASE ReloadFront(p)
    BY <2>1, <2>10 DEF ReloadFront, Goto, queue, snap, TypeOK
  <2>11. CASE Unlock(p)
    BY <2>1, <2>11 DEF Unlock, Goto, queue, snap, TypeOK
  <2>12. CASE Return(p)
    <3>1. [pos |-> 0, cnt |-> 0] \in Word
      BY KAssumption, MAssumption DEF Word, Positions
    <3> QED BY <2>1, <2>12, <3>1 DEF Return, Goto, queue, snap, TypeOK
  <2> QED BY <2>2, <2>3, <2>4, <2>5, <2>6, <2>7, <2>8, <2>9, <2>10, <2>11, <2>12 DEF Step
<1> QED BY <1>1, <1>2

\* Every variable keeps its type, whatever the threads do.
THEOREM TypeCorrect == Spec => []TypeOK
BY TypeInit, TypeStep, PTL DEF Spec

-----------------------------------------------------------------------------
(* The four ways an end of the region of published works moves.            *)

LEMMA OffsetType == ASSUME NEW s \in Slots, NEW t \in Slots
                    PROVE  Offset(s, t) \in 0 .. K - 1
BY KAssumption DEF Slots, Offset

LEMMA RegionAddFront ==
  ASSUME NEW st \in [Slots -> {"Empty", "Busy", "Ready"}],
         NEW b \in Positions, NEW f \in Positions,
         Region(st, b, f), st[Slot(f)] # "Ready"
  PROVE  /\ Region([st EXCEPT ![Slot(f)] = "Ready"], b, Next1(f))
         /\ Dist(b, f) < K
<1>1. Slot(f) \in Slots /\ Slot(b) \in Slots /\ Next1(f) \in Positions
  BY SlotType
<1>2. Dist(b, f) \in 0 .. K
  BY KAssumption DEF Region, Positions, Dist
<1>3. Offset(Slot(f), Slot(b)) = IF Dist(b, f) = K THEN 0 ELSE Dist(b, f)
  BY <1>2, KAssumption DEF Positions, Slot, Offset, Dist
<1>4. Dist(b, f) < K
  BY <1>1, <1>2, <1>3, KAssumption DEF Region
<1>5. Dist(b, Next1(f)) = Dist(b, f) + 1
  BY <1>4, KAssumption DEF Positions, Next1, Dist
<1>6. ASSUME NEW s \in Slots, s # Slot(f)
      PROVE  Offset(s, Slot(b)) # Dist(b, f)
  BY <1>1, <1>3, <1>4, <1>6, KAssumption DEF Slots, Offset
<1>7. ASSUME NEW s \in Slots
      PROVE  [st EXCEPT ![Slot(f)] = "Ready"][s] = "Ready"
               <=> Offset(s, Slot(b)) < Dist(b, f) + 1
  <2>1. Offset(s, Slot(b)) \in 0 .. K - 1
    BY <1>1, OffsetType
  <2>2. CASE s = Slot(f)
    BY <2>2, <1>1, <1>2, <1>3, <1>4
  <2>3. CASE s # Slot(f)
    <3>1. [st EXCEPT ![Slot(f)] = "Ready"][s] = st[s]
      BY <2>3
    <3>2. Offset(s, Slot(b)) < Dist(b, f) + 1 <=> Offset(s, Slot(b)) < Dist(b, f)
      BY <2>1, <2>3, <1>2, <1>6
    <3> QED BY <3>1, <3>2 DEF Region
  <2> QED BY <2>2, <2>3
<1> QED BY <1>2, <1>4, <1>5, <1>7, KAssumption DEF Region

LEMMA RegionDropFront ==
  ASSUME NEW st \in [Slots -> {"Empty", "Busy", "Ready"}], NEW x \in {"Empty", "Busy"},
         NEW b \in Positions, NEW f \in Positions,
         Region(st, b, f), st[Slot(Prev1(f))] = "Ready"
  PROVE  /\ Region([st EXCEPT ![Slot(Prev1(f))] = x], b, Prev1(f))
         /\ Dist(b, Prev1(f)) < K
<1> DEFINE e == Prev1(f)
<1>1. Slot(e) \in Slots /\ Slot(b) \in Slots /\ e \in Positions
  BY SlotType
<1>2. Dist(b, f) \in 1 .. K
  <2>1. Dist(b, f) \in 0 .. K
    BY KAssumption DEF Region, Positions, Dist
  <2>2. Offset(Slot(e), Slot(b)) \in 0 .. K - 1
    BY <1>1, OffsetType
  <2> QED BY <1>1, <2>1, <2>2, KAssumption DEF Region
<1>3. Dist(b, e) = Dist(b, f) - 1
  BY <1>2, KAssumption DEF Positions, Prev1, Dist
<1>4. Offset(Slot(e), Slot(b)) = Dist(b, f) - 1
  BY <1>1, <1>2, <1>3, KAssumption DEF Positions, Slot, Offset, Dist
<1>5. ASSUME NEW s \in Slots, s # Slot(e)
      PROVE  Offset(s, Slot(b)) # Dist(b, f) - 1
  BY <1>1, <1>4, <1>5, KAssumption DEF Slots, Offset
<1>6. ASSUME NEW s \in Slots
      PROVE  [st EXCEPT ![Slot(e)] = x][s] = "Ready" <=> Offset(s, Slot(b)) < Dist(b, f) - 1
  <2>1. Offset(s, Slot(b)) \in 0 .. K - 1
    BY <1>1, OffsetType
  <2>2. CASE s = Slot(e)
    BY <2>2, <1>1, <1>2, <1>4
  <2>3. CASE s # Slot(e)
    <3>1. [st EXCEPT ![Slot(e)] = x][s] = st[s]
      BY <2>3
    <3>2. Offset(s, Slot(b)) < Dist(b, f) - 1 <=> Offset(s, Slot(b)) < Dist(b, f)
      BY <2>1, <2>3, <1>2, <1>5
    <3> QED BY <3>1, <3>2 DEF Region
  <2> QED BY <2>2, <2>3
<1> QED BY <1>2, <1>3, <1>6, KAssumption DEF Region

\* Moving the back by one shifts every offset by one.
LEMMA ShiftUp ==
  ASSUME NEW b \in Positions, NEW s \in Slots
  PROVE  Offset(s, Slot(Next1(b))) = IF s = Slot(b) THEN K - 1 ELSE Offset(s, Slot(b)) - 1
BY KAssumption DEF Positions, Slots, Slot, Next1, Offset

LEMMA RegionDropBack ==
  ASSUME NEW st \in [Slots -> {"Empty", "Busy", "Ready"}], NEW x \in {"Empty", "Busy"},
         NEW b \in Positions, NEW f \in Positions,
         Region(st, b, f), st[Slot(b)] = "Ready"
  PROVE  /\ Region([st EXCEPT ![Slot(b)] = x], Next1(b), f)
         /\ Dist(Next1(b), f) < K
<1>1. Slot(b) \in Slots /\ Next1(b) \in Positions
  BY SlotType
<1>2. Dist(b, f) \in 1 .. K
  <2>1. Dist(b, f) \in 0 .. K
    BY KAssumption DEF Region, Positions, Dist
  <2>2. Offset(Slot(b), Slot(b)) \in 0 .. K - 1
    BY <1>1, OffsetType
  <2> QED BY <1>1, <2>1, <2>2, KAssumption DEF Region
<1>3. Dist(Next1(b), f) = Dist(b, f) - 1
  BY <1>2, KAssumption DEF Positions, Next1, Dist
<1>4. ASSUME NEW s \in Slots
      PROVE  [st EXCEPT ![Slot(b)] = x][s] = "Ready"
               <=> Offset(s, Slot(Next1(b))) < Dist(b, f) - 1
  <2>1. Offset(s, Slot(b)) \in 0 .. K - 1
    BY <1>1, OffsetType
  <2>2. CASE s = Slot(b)
    BY <2>2, <1>1, <1>2, ShiftUp, KAssumption
  <2>3. CASE s # Slot(b)
    <3>1. [st EXCEPT ![Slot(b)] = x][s] = st[s]
      BY <2>3
    <3>2. Offset(s, Slot(Next1(b))) = Offset(s, Slot(b)) - 1
      BY <2>3, ShiftUp
    <3> QED BY <2>1, <3>1, <3>2, <1>2 DEF Region
  <2> QED BY <2>2, <2>3
<1> QED BY <1>2, <1>3, <1>4, KAssumption DEF Region

LEMMA RegionAddBack ==
  ASSUME NEW st \in [Slots -> {"Empty", "Busy", "Ready"}],
         NEW b \in Positions, NEW f \in Positions,
         Region(st, Next1(b), f), st[Slot(b)] # "Ready"
  PROVE  /\ Region([st EXCEPT ![Slot(b)] = "Ready"], b, f)
         /\ Dist(Next1(b), f) < K
<1>1. Slot(b) \in Slots /\ Next1(b) \in Positions /\ Slot(Next1(b)) \in Slots
  BY SlotType
<1>2. Dist(Next1(b), f) \in 0 .. K
  BY <1>1, KAssumption DEF Region, Positions, Dist
<1>3. Offset(Slot(b), Slot(Next1(b))) = K - 1
  BY <1>1, ShiftUp
<1>4. Dist(Next1(b), f) < K
  BY <1>1, <1>2, <1>3, KAssumption DEF Region
<1>5. Dist(b, f) = Dist(Next1(b), f) + 1
  BY <1>1, <1>4, KAssumption DEF Positions, Next1, Dist
<1>6. ASSUME NEW s \in Slots
      PROVE  [st EXCEPT ![Slot(b)] = "Ready"][s] = "Ready"
               <=> Offset(s, Slot(b)) < Dist(Next1(b), f) + 1
  <2>1. Offset(s, Slot(b)) \in 0 .. K - 1 /\ Offset(s, Slot(Next1(b))) \in 0 .. K - 1
    BY <1>1, OffsetType
  <2>2. CASE s = Slot(b)
    <3>1. Offset(Slot(b), Slot(b)) = 0
      BY <1>1, KAssumption DEF Slots, Offset
    <3> QED BY <2>2, <3>1, <1>1, <1>2
  <2>3. CASE s # Slot(b)
    <3>1. [st EXCEPT ![Slot(b)] = "Ready"][s] = st[s]
      BY <2>3
    <3>2. Offset(s, Slot(Next1(b))) = Offset(s, Slot(b)) - 1
      BY <2>3, ShiftUp
    <3> QED BY <2>1, <3>1, <3>2, <1>2 DEF Region
  <2> QED BY <2>2, <2>3
<1> QED BY <1>2, <1>4, <1>5, <1>6, KAssumption DEF Region

-----------------------------------------------------------------------------
(* Claiming and giving up a slot.                                          *)

LEMMA OwnClaim ==
  ASSUME NEW held \in [Procs -> SUBSET Slots],
         NEW st \in [Slots -> {"Empty", "Busy", "Ready"}],
         NEW p \in Procs, NEW s \in Slots,
         Owned(held, st), st[s] # "Busy", held[p] = {}
  PROVE  Owned([held EXCEPT ![p] = {s}], [st EXCEPT ![s] = "Busy"])
<1>1. \A q \in Procs : s \notin held[q]
  BY DEF Owned
<1> QED BY <1>1 DEF Owned

LEMMA OwnDrop ==
  ASSUME NEW held \in [Procs -> SUBSET Slots],
         NEW st \in [Slots -> {"Empty", "Busy", "Ready"}],
         NEW p \in Procs, NEW s \in Slots, NEW x \in {"Empty", "Ready"},
         Owned(held, st), held[p] = {s}
  PROVE  Owned([held EXCEPT ![p] = {}], [st EXCEPT ![s] = x])
<1>1. \A q \in Procs : q # p => s \notin held[q]
  BY DEF Owned
<1> QED BY <1>1 DEF Owned

LEMMA HeldType == TypeOK => Held \in [Procs -> SUBSET Slots]
<1> SUFFICES ASSUME TypeOK, NEW p \in Procs
             PROVE  HeldAt(pc[p], front.pos, back.pos) \in SUBSET Slots
  BY DEF Held
<1>1. Slot(front.pos) \in Slots /\ Slot(Prev1(front.pos)) \in Slots
      /\ Slot(back.pos) \in Slots /\ Slot(Prev1(back.pos)) \in Slots
  BY SlotType DEF TypeOK, Word
<1> QED BY <1>1 DEF HeldAt

\* A thread that moves its own end leaves what the others hold alone.
LEMMA HeldUpdate ==
  ASSUME TypeOK, Control, NEW p \in Procs, NEW l, pc' = [pc EXCEPT ![p] = l],
         front' = front \/ p = Owner, back' = back \/ mutex = p
  PROVE  Held' = [Held EXCEPT ![p] = HeldAt(l, front'.pos, back'.pos)]
<1>1. ASSUME NEW q \in Procs, q # p
      PROVE  HeldAt(pc[q], front'.pos, back'.pos) = HeldAt(pc[q], front.pos, back.pos)
  <2>1. CASE pc[q] \in FrontLabels
    <3>1. front' = front
      BY <1>1, <2>1 DEF Control
    <3> QED BY <2>1, <3>1 DEF HeldAt, FrontLabels, FrontOps, Popping, Pushing
  <2>2. CASE pc[q] \in InMutex
    <3>1. back' = back
      BY <1>1, <2>2 DEF Control
    <3> QED BY <2>2, <3>1 DEF HeldAt, InMutex, BackPopping, BackPushing
  <2>3. CASE pc[q] \notin FrontLabels \cup InMutex
    BY <2>3 DEF HeldAt, FrontLabels, FrontOps, Popping, Pushing,
                InMutex, BackPopping, BackPushing
  <2> QED BY <2>1, <2>2, <2>3
<1>2. Held' = [q \in Procs |-> HeldAt(pc'[q], front'.pos, back'.pos)]
  BY DEF Held
<1>3. \A q \in Procs : pc'[q] = IF q = p THEN l ELSE pc[q]
  BY DEF TypeOK
<1> DEFINE mine == HeldAt(l, front'.pos, back'.pos)
           rest(q) == HeldAt(pc[q], front.pos, back.pos)
<1>4. \A q \in Procs : HeldAt(pc'[q], front'.pos, back'.pos) = IF q = p THEN mine ELSE rest(q)
  BY <1>1, <1>3
<1>5. Held' = [q \in Procs |-> IF q = p THEN mine ELSE rest(q)]
  BY <1>2, <1>4
<1>6. Held = [q \in Procs |-> rest(q)]
  BY DEF Held
<1> HIDE DEF mine, rest
<1>7. Held' = [Held EXCEPT ![p] = mine]
  BY <1>5, <1>6
<1> QED BY <1>7 DEF mine

\* Which ends move after one thread went to label l.
LEMMA FrontSet ==
  ASSUME TypeOK, NEW l, pc' = [pc EXCEPT ![Owner] = l]
  PROVE  FrontMoving' <=> l \in Popping \cup Pushing
BY DEF FrontMoving, TypeOK, Procs

LEMMA FrontSame ==
  ASSUME TypeOK, NEW p \in Procs, NEW l, pc' = [pc EXCEPT ![p] = l],
         l \in Popping \cup Pushing <=> pc[p] \in Popping \cup Pushing
  PROVE  FrontMoving' <=> FrontMoving
BY DEF FrontMoving, TypeOK, Procs

LEMMA BackSet ==
  ASSUME TypeOK, Control, NEW p \in Procs, mutex = p, NEW l, pc' = [pc EXCEPT ![p] = l]
  PROVE  /\ BackMoving <=> pc[p] \in BackPopping \cup BackPushing
         /\ BackMoving' <=> l \in BackPopping \cup BackPushing
<1>1. \A q \in Procs : pc'[q] = IF q = p THEN l ELSE pc[q]
  BY DEF TypeOK
<1>2. \A q \in Procs : q # p => pc[q] \notin BackPopping \cup BackPushing
  BY DEF Control, InMutex
<1> QED BY <1>1, <1>2 DEF BackMoving

LEMMA BackSame ==
  ASSUME TypeOK, NEW p \in Procs, NEW l, pc' = [pc EXCEPT ![p] = l],
         l \in BackPopping \cup BackPushing <=> pc[p] \in BackPopping \cup BackPushing
  PROVE  BackMoving' <=> BackMoving
<1>1. \A q \in Procs : pc'[q] = IF q = p THEN l ELSE pc[q]
  BY DEF TypeOK
<1> QED BY <1>1 DEF BackMoving

\* A step that changes neither the ends nor the states, and neither claims
\* nor gives up a slot, keeps the slot invariants.
LEMMA Quiet ==
  ASSUME IInv, NEW p \in Procs, NEW l, pc' = [pc EXCEPT ![p] = l],
         UNCHANGED <<front, back, state>>,
         HeldAt(l, front.pos, back.pos) = HeldAt(pc[p], front.pos, back.pos),
         l \in FrontLabels => p = Owner,
         l \in Popping \cup Pushing <=> pc[p] \in Popping \cup Pushing,
         l \in BackPopping \cup BackPushing <=> pc[p] \in BackPopping \cup BackPushing
  PROVE  SlotExclusion' /\ Contiguous' /\ Slack'
<1>1. Held' = Held
  <2>1. TypeOK /\ Control
    BY DEF IInv
  <2>2. Held' = [Held EXCEPT ![p] = HeldAt(l, front.pos, back.pos)]
    BY <2>1, HeldUpdate
  <2> QED BY <2>2 DEF Held
<1>2. (FrontMoving' <=> FrontMoving) /\ (BackMoving' <=> BackMoving)
  BY FrontSame, BackSame DEF IInv
<1>3. TrueFront' = TrueFront /\ TrueBack' = TrueBack
  BY <1>2 DEF TrueFront, TrueBack
<1> QED BY <1>1, <1>2, <1>3 DEF IInv, SlotExclusion, Contiguous, Slack, Length

-----------------------------------------------------------------------------
(* IInv is inductive.                                                      *)

LEMMA InvInit == Init => IInv
<1> SUFFICES ASSUME Init PROVE IInv
  OBVIOUS
<1>1. TypeOK
  BY TypeInit
<1>2. Owner \in Procs
  BY DEF Procs
<1>3. \A p \in Procs : pc[p] = "idle"
  BY DEF Init
<1>4. Control
  BY <1>3, ProcsAssumption
     DEF Init, Control, FrontLabels, FrontOps, Popping, Pushing, InMutex, BackPopping, BackPushing
<1>5. ~FrontMoving /\ ~BackMoving
  BY <1>2, <1>3 DEF FrontMoving, BackMoving, Popping, Pushing, BackPopping, BackPushing
<1>6. \A p \in Procs : Held[p] = {}
  BY <1>3 DEF Held, HeldAt
<1>7. SlotExclusion
  BY <1>6 DEF SlotExclusion, Owned, Init
<1>8. TrueFront = 0 /\ TrueBack = 0 /\ Length = 0
  BY <1>5 DEF Init, TrueFront, TrueBack, Length, Dist
<1>9. Contiguous
  <2>1. \A s \in Slots : Offset(s, Slot(0)) \in 0 .. K - 1
    BY OffsetType, SlotType, KAssumption DEF Positions
  <2> QED BY <1>8, <2>1, KAssumption DEF Contiguous, Region, Length, Init
<1> QED BY <1>1, <1>4, <1>5, <1>7, <1>9 DEF IInv, Slack

\* The front belongs to its owner and the back to whoever holds the lock.
LEMMA ControlStep == IInv /\ (\E p \in Procs : Call(p) \/ Step(p)) => Control'
<1> SUFFICES ASSUME IInv, NEW p \in Procs, Call(p) \/ Step(p) PROVE Control'
  OBVIOUS
<1> USE DEF IInv
<1>u. ASSUME NEW l, pc' = [pc EXCEPT ![p] = l],
             l \in FrontLabels => p = Owner,
             \/ mutex' = mutex /\ (l \in InMutex <=> pc[p] \in InMutex)
             \/ mutex = Nobody /\ mutex' = p /\ l \in InMutex
             \/ mutex = p /\ mutex' = Nobody /\ l \notin InMutex
      PROVE  Control'
  <2>1. \A q \in Procs : pc'[q] = IF q = p THEN l ELSE pc[q]
    BY <1>u DEF TypeOK
  <2>2. Nobody \notin Procs
    BY ProcsAssumption
  <2>3. \A q \in Procs : pc'[q] \in FrontLabels => q = Owner
    BY <1>u, <2>1 DEF Control
  <2>4. \A q \in Procs : pc'[q] \in InMutex <=> mutex' = q
    BY <1>u, <2>1, <2>2 DEF Control
  <2> QED BY <2>3, <2>4 DEF Control
<1>f. pc[p] \in FrontLabels => p = Owner
  BY DEF Control
<1>m. pc[p] \in InMutex <=> mutex = p
  BY DEF Control
<1> USE DEF FrontLabels, FrontOps, Popping, Pushing, InMutex, BackPopping, BackPushing
<1>1. CASE Call(p)
  <2>1. PICK op \in Uses[p] : Goto(p, "idle", op) /\ mutex' = mutex
    BY <1>1 DEF Call
  <2>2. op \in BackOps \cup FrontOps /\ (p # Owner => op \in BackOps)
    BY UsesAssumption DEF Procs
  <2> QED BY <2>1, <2>2, <1>u DEF Goto, BackOps
<1>2. CASE PushFront(p)
  BY <1>2, <1>u, <1>f DEF PushFront, Load, Claim, StoreFront, MoveIn, Publish, Goto
<1>3. CASE PopFront(p)
  BY <1>3, <1>u, <1>f DEF PopFront, Load, Claim, StoreFront, MoveOut, Release, Goto
<1>4. CASE PushBack(p)
  BY <1>4, <1>u, <1>m DEF PushBack, Lock, Load, Claim, StoreBack, MoveIn, Publish, Goto
<1>5. CASE PopBack(p)
  BY <1>5, <1>u, <1>m DEF PopBack, Lock, Load, Claim, StoreBack, MoveOut, Release, Goto
<1>6. CASE LoadFront(p) \/ LoadBack(p) \/ ReloadFront(p)
  BY <1>6, <1>u DEF LoadFront, LoadBack, ReloadFront, Goto
<1>7. CASE Unlock(p)
  BY <1>7, <1>u, <1>m DEF Unlock, Goto
<1>8. CASE Return(p)
  BY <1>8, <1>u DEF Return, Goto
<1> QED BY <1>1, <1>2, <1>3, <1>4, <1>5, <1>6, <1>7, <1>8 DEF Step

\* The slot invariants, one step per action that claims, moves or gives up.
LEMMA SlotStep ==
  IInv /\ (\E p \in Procs : Call(p) \/ Step(p)) => SlotExclusion' /\ Contiguous' /\ Slack'
<1> SUFFICES ASSUME IInv, NEW p \in Procs, Call(p) \/ Step(p)
             PROVE  SlotExclusion' /\ Contiguous' /\ Slack'
  OBVIOUS
<1> USE DEF IInv
<1> DEFINE fs == Slot(front.pos)        fp == Slot(Prev1(front.pos))
           bs == Slot(back.pos)         bp == Slot(Prev1(back.pos))
<1>s. fs \in Slots /\ fp \in Slots /\ bs \in Slots /\ bp \in Slots
  BY SlotType DEF TypeOK, Word
<1>o. Owner \in Procs /\ front.pos \in Positions /\ back.pos \in Positions
  BY DEF Procs, TypeOK, Word
<1>t. TrueFront \in Positions /\ TrueBack \in Positions
  BY <1>o, SlotType DEF TrueFront, TrueBack
<1>p. /\ Next1(Prev1(front.pos)) = front.pos /\ Prev1(Next1(front.pos)) = front.pos
      /\ Next1(Prev1(back.pos)) = back.pos /\ Prev1(Next1(back.pos)) = back.pos
  BY <1>o, KAssumption DEF Positions, Next1, Prev1
<1>h. Held \in [Procs -> SUBSET Slots] /\ Held[p] = HeldAt(pc[p], front.pos, back.pos)
  BY HeldType DEF Held
<1>st. state \in [Slots -> {"Empty", "Busy", "Ready"}]
  BY DEF TypeOK
<1>f. pc[p] \in FrontLabels => p = Owner
  BY DEF Control
<1>m. pc[p] \in InMutex => mutex = p
  BY DEF Control
<1>own. Owned(Held, state)
  BY DEF SlotExclusion
<1>reg. Region(state, TrueBack, TrueFront)
  BY DEF Contiguous

\* Taking slot s without publishing or withdrawing a work.
<1>claim. ASSUME NEW s \in Slots, state[s] # "Busy", Held[p] = {},
                 state' = [state EXCEPT ![s] = "Busy"], Held' = [Held EXCEPT ![p] = {s}]
          PROVE  SlotExclusion'
  BY <1>claim, <1>own, <1>h, <1>st, OwnClaim DEF SlotExclusion
<1>drop. ASSUME NEW s \in Slots, NEW x \in {"Empty", "Ready"}, Held[p] = {s},
                state' = [state EXCEPT ![s] = x], Held' = [Held EXCEPT ![p] = {}]
         PROVE  SlotExclusion'
  BY <1>drop, <1>own, <1>h, <1>st, OwnDrop DEF SlotExclusion
<1>keep. ASSUME Held' = [Held EXCEPT ![p] = Held[p]], state' = state
         PROVE  SlotExclusion'
  BY <1>keep, <1>own, <1>h DEF SlotExclusion
\* A slot that goes from one unpublished state to another.
<1>same. ASSUME NEW s \in Slots, NEW x \in {"Empty", "Busy"}, state[s] # "Ready",
                state' = [state EXCEPT ![s] = x], TrueBack' = TrueBack, TrueFront' = TrueFront
         PROVE  Contiguous'
  BY <1>same, <1>reg, <1>st DEF Contiguous, Region
<1>ends. ASSUME state' = state, TrueBack' = TrueBack, TrueFront' = TrueFront
         PROVE  Contiguous'
  BY <1>ends, <1>reg DEF Contiguous, Region

<1> HIDE DEF fs, fp, bs, bp
<1>q. ASSUME NEW l, pc' = [pc EXCEPT ![p] = l], UNCHANGED <<front, back, state>>,
             HeldAt(l, front.pos, back.pos) = HeldAt(pc[p], front.pos, back.pos),
             l \in FrontLabels => p = Owner,
             l \in Popping \cup Pushing <=> pc[p] \in Popping \cup Pushing,
             l \in BackPopping \cup BackPushing <=> pc[p] \in BackPopping \cup BackPushing
      PROVE  SlotExclusion' /\ Contiguous' /\ Slack'
  BY <1>q, Quiet
<1>1. CASE PushFront(p)
  <2> USE DEF PushFront, Load, Claim, StoreFront, MoveIn, Publish, Goto, queue
  <2>1. CASE pc[p] = "PushFront"
    <3>1. /\ pc' = [pc EXCEPT ![p] = "pushf_claim"] \/ pc' = [pc EXCEPT ![p] = "return"]
          /\ UNCHANGED <<front, back, state>>
      BY <1>1, <2>1
    <3> QED BY <1>f, <1>q, <2>1, <3>1 DEF HeldAt, FrontLabels, FrontOps, Popping, Pushing, BackPopping, BackPushing
  <2>2. CASE pc[p] = "pushf_claim" /\ state[fs] = "Empty"
    <3>1. /\ pc' = [pc EXCEPT ![p] = "pushf_store"] /\ UNCHANGED <<front, back>>
          /\ state' = [state EXCEPT ![fs] = "Busy"]
      BY <1>1, <2>2 DEF fs
    <3>2. p = Owner
      BY <1>f, <2>2 DEF FrontLabels, Popping, Pushing
    <3>3. Held[p] = {} /\ Held' = [Held EXCEPT ![p] = {fs}]
      <4>1. Held' = [Held EXCEPT ![p] = HeldAt("pushf_store", front'.pos, back'.pos)]
        BY <3>1, <3>2, HeldUpdate
      <4> QED BY <1>h, <2>2, <3>1, <4>1 DEF HeldAt, fs
    <3>4. (FrontMoving' <=> FrontMoving) /\ (BackMoving' <=> BackMoving)
      <4>1. BackMoving' <=> BackMoving
        BY <2>2, <3>1, BackSame DEF BackPopping, BackPushing
      <4>2. FrontMoving' <=> FrontMoving
        BY <2>2, <3>1, FrontSame DEF Popping, Pushing
      <4> QED BY <4>1, <4>2
    <3>5. TrueFront' = TrueFront /\ TrueBack' = TrueBack
      BY <3>1, <3>4 DEF TrueFront, TrueBack
    <3> QED BY <1>s, <2>2, <3>1, <3>3, <3>4, <3>5, <1>claim, <1>same DEF Slack, Length
  <2>3. CASE pc[p] = "pushf_claim" /\ state[fs] # "Empty"
    <3>1. pc' = [pc EXCEPT ![p] = "return"] /\ UNCHANGED <<front, back, state>>
      BY <1>1, <2>3 DEF fs
    <3> QED BY <1>f, <1>q, <2>3, <3>1 DEF HeldAt, FrontLabels, FrontOps, Popping, Pushing, BackPopping, BackPushing
  <2>4. CASE pc[p] = "pushf_store"
    <3>1. /\ pc' = [pc EXCEPT ![p] = "pushf_move"] /\ UNCHANGED <<back, state>>
          /\ front'.pos = Next1(front.pos)
      <4>1. /\ pc' = [pc EXCEPT ![p] = "pushf_move"] /\ UNCHANGED <<back, state>>
            /\ front' = Up(front)
        BY <1>1, <2>4
      <4> QED BY <4>1 DEF Up
    <3>2. p = Owner
      BY <1>f, <2>4 DEF FrontLabels, Popping, Pushing
    <3>3. Held[p] = {fs} /\ Held' = [Held EXCEPT ![p] = {fs}]
      <4>1. Held' = [Held EXCEPT ![p] = HeldAt("pushf_move", front'.pos, back'.pos)]
        BY <3>1, <3>2, HeldUpdate
      <4> QED BY <1>h, <1>p, <2>4, <3>1, <4>1 DEF HeldAt, fs
    <3>4. ~FrontMoving /\ FrontMoving' /\ (BackMoving' <=> BackMoving)
      <4>1. BackMoving' <=> BackMoving
        BY <2>4, <3>1, BackSame DEF BackPopping, BackPushing
      <4>2. FrontMoving' <=> "pushf_move" \in Popping \cup Pushing
        BY <3>1, <3>2, FrontSet
      <4> QED BY <2>4, <3>2, <4>1, <4>2 DEF FrontMoving, Popping, Pushing
    <3>5. TrueFront' = TrueFront /\ TrueBack' = TrueBack /\ TrueFront = front.pos
      BY <1>p, <3>1, <3>4 DEF TrueFront, TrueBack
    <3>6. state[fs] = "Busy"
      BY <1>own, <1>s, <3>3 DEF Owned
    <3>7. Length < K
      BY <1>reg, <1>st, <1>t, <3>5, <3>6, RegionAddFront DEF Length, fs
    <3> QED BY <3>1, <3>3, <3>5, <3>7, <1>keep, <1>ends DEF Slack, Length
  <2>5. CASE pc[p] = "pushf_move"
    <3>1. pc' = [pc EXCEPT ![p] = "pushf_publish"] /\ UNCHANGED <<front, back, state>>
      BY <1>1, <2>5
    <3> QED BY <1>f, <1>q, <2>5, <3>1 DEF HeldAt, FrontLabels, FrontOps, Popping, Pushing, BackPopping, BackPushing
  <2>6. CASE pc[p] = "pushf_publish"
    <3>1. /\ pc' = [pc EXCEPT ![p] = "return"] /\ UNCHANGED <<front, back>>
          /\ state' = [state EXCEPT ![fp] = "Ready"]
      BY <1>1, <2>6 DEF fp
    <3>2. p = Owner
      BY <1>f, <2>6 DEF FrontLabels, Popping, Pushing
    <3>3. Held[p] = {fp} /\ Held' = [Held EXCEPT ![p] = {}]
      <4>1. Held' = [Held EXCEPT ![p] = HeldAt("return", front'.pos, back'.pos)]
        BY <3>1, <3>2, HeldUpdate
      <4> QED BY <1>h, <2>6, <3>1, <4>1 DEF HeldAt, fp
    <3>4. FrontMoving /\ ~FrontMoving' /\ (BackMoving' <=> BackMoving)
      <4>1. BackMoving' <=> BackMoving
        BY <2>6, <3>1, BackSame DEF BackPopping, BackPushing
      <4>2. FrontMoving' <=> "return" \in Popping \cup Pushing
        BY <3>1, <3>2, FrontSet
      <4> QED BY <2>6, <3>2, <4>1, <4>2 DEF FrontMoving, Popping, Pushing
    <3>5. TrueFront = Prev1(front.pos) /\ TrueFront' = Next1(TrueFront) /\ TrueBack' = TrueBack
      BY <1>p, <3>1, <3>4 DEF TrueFront, TrueBack
    <3>6. state[fp] = "Busy"
      BY <1>own, <1>s, <3>3 DEF Owned
    <3>7. Contiguous'
      BY <1>reg, <1>st, <1>t, <3>1, <3>5, <3>6, RegionAddFront DEF Contiguous, fp
    <3> QED BY <1>s, <3>1, <3>3, <3>4, <3>7, <1>drop DEF Slack
  <2> QED BY <1>1, <2>1, <2>2, <2>3, <2>4, <2>5, <2>6 DEF fs, fp, bs, bp
<1>2. CASE PopFront(p)
  <2> USE DEF PopFront, Load, Claim, StoreFront, MoveOut, Release, Goto, queue
  <2>1. CASE pc[p] = "PopFront"
    <3>1. /\ pc' = [pc EXCEPT ![p] = "popf_claim"] \/ pc' = [pc EXCEPT ![p] = "return"]
          /\ UNCHANGED <<front, back, state>>
      BY <1>2, <2>1
    <3> QED BY <1>f, <1>q, <2>1, <3>1 DEF HeldAt, FrontLabels, FrontOps, Popping, Pushing, BackPopping, BackPushing
  <2>2. CASE pc[p] = "popf_claim" /\ state[fp] = "Ready"
    <3>1. /\ pc' = [pc EXCEPT ![p] = "popf_move"] /\ UNCHANGED <<front, back>>
          /\ state' = [state EXCEPT ![fp] = "Busy"]
      BY <1>2, <2>2 DEF fp
    <3>2. p = Owner
      BY <1>f, <2>2 DEF FrontLabels, Popping, Pushing
    <3>3. Held[p] = {} /\ Held' = [Held EXCEPT ![p] = {fp}]
      <4>1. Held' = [Held EXCEPT ![p] = HeldAt("popf_move", front'.pos, back'.pos)]
        BY <3>1, <3>2, HeldUpdate
      <4> QED BY <1>h, <2>2, <3>1, <4>1 DEF HeldAt, fp
    <3>4. ~FrontMoving /\ FrontMoving' /\ (BackMoving' <=> BackMoving)
      <4>1. BackMoving' <=> BackMoving
        BY <2>2, <3>1, BackSame DEF BackPopping, BackPushing
      <4>2. FrontMoving' <=> "popf_move" \in Popping \cup Pushing
        BY <3>1, <3>2, FrontSet
      <4> QED BY <2>2, <3>2, <4>1, <4>2 DEF FrontMoving, Popping, Pushing
    <3>5. TrueFront = front.pos /\ TrueFront' = Prev1(TrueFront) /\ TrueBack' = TrueBack
      BY <3>1, <3>4 DEF TrueFront, TrueBack
    <3>6. Contiguous' /\ Length' < K
      BY <1>reg, <1>st, <1>t, <2>2, <3>1, <3>5, RegionDropFront DEF Contiguous, Length, fp
    <3> QED BY <1>s, <2>2, <3>1, <3>3, <3>6, <1>claim DEF Slack
  <2>3. CASE pc[p] = "popf_claim" /\ state[fp] # "Ready"
    <3>1. pc' = [pc EXCEPT ![p] = "return"] /\ UNCHANGED <<front, back, state>>
      BY <1>2, <2>3 DEF fp
    <3> QED BY <1>f, <1>q, <2>3, <3>1 DEF HeldAt, FrontLabels, FrontOps, Popping, Pushing, BackPopping, BackPushing
  <2>4. CASE pc[p] = "popf_move"
    <3>1. pc' = [pc EXCEPT ![p] = "popf_release"] /\ UNCHANGED <<front, back, state>>
      BY <1>2, <2>4
    <3> QED BY <1>f, <1>q, <2>4, <3>1 DEF HeldAt, FrontLabels, FrontOps, Popping, Pushing, BackPopping, BackPushing
  <2>5. CASE pc[p] = "popf_release"
    <3>1. /\ pc' = [pc EXCEPT ![p] = "popf_store"] /\ UNCHANGED <<front, back>>
          /\ state' = [state EXCEPT ![fp] = "Empty"]
      BY <1>2, <2>5 DEF fp
    <3>2. p = Owner
      BY <1>f, <2>5 DEF FrontLabels, Popping, Pushing
    <3>3. Held[p] = {fp} /\ Held' = [Held EXCEPT ![p] = {}]
      <4>1. Held' = [Held EXCEPT ![p] = HeldAt("popf_store", front'.pos, back'.pos)]
        BY <3>1, <3>2, HeldUpdate
      <4> QED BY <1>h, <2>5, <3>1, <4>1 DEF HeldAt, fp
    <3>4. (FrontMoving' <=> FrontMoving) /\ (BackMoving' <=> BackMoving)
      <4>1. BackMoving' <=> BackMoving
        BY <2>5, <3>1, BackSame DEF BackPopping, BackPushing
      <4>2. FrontMoving' <=> FrontMoving
        BY <2>5, <3>1, FrontSame DEF Popping, Pushing
      <4> QED BY <4>1, <4>2
    <3>5. TrueFront' = TrueFront /\ TrueBack' = TrueBack
      BY <3>1, <3>4 DEF TrueFront, TrueBack
    <3>6. state[fp] = "Busy"
      BY <1>own, <1>s, <3>3 DEF Owned
    <3> QED BY <1>s, <3>1, <3>3, <3>4, <3>5, <3>6, <1>drop, <1>same DEF Slack, Length
  <2>6. CASE pc[p] = "popf_store"
    <3>1. /\ pc' = [pc EXCEPT ![p] = "return"] /\ UNCHANGED <<back, state>>
          /\ front'.pos = Prev1(front.pos)
      <4>1. /\ pc' = [pc EXCEPT ![p] = "return"] /\ UNCHANGED <<back, state>>
            /\ front' = Down(front)
        BY <1>2, <2>6
      <4> QED BY <4>1 DEF Down
    <3>2. p = Owner
      BY <1>f, <2>6 DEF FrontLabels, Popping, Pushing
    <3>3. Held' = [Held EXCEPT ![p] = Held[p]]
      <4>1. Held' = [Held EXCEPT ![p] = HeldAt("return", front'.pos, back'.pos)]
        BY <3>1, <3>2, HeldUpdate
      <4> QED BY <1>h, <2>6, <3>1, <4>1 DEF HeldAt
    <3>4. FrontMoving /\ ~FrontMoving' /\ (BackMoving' <=> BackMoving)
      <4>1. BackMoving' <=> BackMoving
        BY <2>6, <3>1, BackSame DEF BackPopping, BackPushing
      <4>2. FrontMoving' <=> "return" \in Popping \cup Pushing
        BY <3>1, <3>2, FrontSet
      <4> QED BY <2>6, <3>2, <4>1, <4>2 DEF FrontMoving, Popping, Pushing
    <3>5. TrueFront' = TrueFront /\ TrueBack' = TrueBack
      BY <3>1, <3>4 DEF TrueFront, TrueBack
    <3> QED BY <3>1, <3>3, <3>4, <3>5, <1>keep, <1>ends DEF Slack
  <2> QED BY <1>2, <2>1, <2>2, <2>3, <2>4, <2>5, <2>6 DEF fs, fp, bs, bp
<1>3. CASE PushBack(p)
  <2> USE DEF PushBack, Lock, Load, Claim, StoreBack, MoveIn, Publish, Goto, queue
  <2>1. CASE pc[p] = "PushBack"
    <3>1. pc' = [pc EXCEPT ![p] = "pushb_load"] /\ UNCHANGED <<front, back, state>>
      BY <1>3, <2>1
    <3> QED BY <1>f, <1>q, <2>1, <3>1 DEF HeldAt, FrontLabels, FrontOps, Popping, Pushing, BackPopping, BackPushing
  <2>2. CASE pc[p] = "pushb_load"
    <3>1. /\ pc' = [pc EXCEPT ![p] = "pushb_claim"] \/ pc' = [pc EXCEPT ![p] = "unlock"]
          /\ UNCHANGED <<front, back, state>>
      BY <1>3, <2>2
    <3> QED BY <1>f, <1>q, <2>2, <3>1 DEF HeldAt, FrontLabels, FrontOps, Popping, Pushing, BackPopping, BackPushing
  <2>3. CASE pc[p] = "pushb_claim" /\ state[bp] = "Empty"
    <3>1. /\ pc' = [pc EXCEPT ![p] = "pushb_store"] /\ UNCHANGED <<front, back>>
          /\ state' = [state EXCEPT ![bp] = "Busy"]
      BY <1>3, <2>3 DEF bp
    <3>2. mutex = p /\ pc[p] \in InMutex
      BY <1>m, <2>3 DEF InMutex, BackPopping, BackPushing
    <3>3. Held[p] = {} /\ Held' = [Held EXCEPT ![p] = {bp}]
      <4>1. Held' = [Held EXCEPT ![p] = HeldAt("pushb_store", front'.pos, back'.pos)]
        BY <3>1, <3>2, HeldUpdate
      <4> QED BY <1>h, <2>3, <3>1, <4>1 DEF HeldAt, bp
    <3>4. (FrontMoving' <=> FrontMoving) /\ (BackMoving' <=> BackMoving)
      <4>1. FrontMoving' <=> FrontMoving
        BY <2>3, <3>1, FrontSame DEF Popping, Pushing
      <4>2. /\ BackMoving <=> pc[p] \in BackPopping \cup BackPushing
            /\ BackMoving' <=> "pushb_store" \in BackPopping \cup BackPushing
        BY <3>1, <3>2, BackSet
      <4> QED BY <2>3, <4>1, <4>2 DEF BackPopping, BackPushing
    <3>5. TrueFront' = TrueFront /\ TrueBack' = TrueBack
      BY <3>1, <3>4 DEF TrueFront, TrueBack
    <3> QED BY <1>s, <2>3, <3>1, <3>3, <3>4, <3>5, <1>claim, <1>same DEF Slack, Length
  <2>4. CASE pc[p] = "pushb_claim" /\ state[bp] # "Empty"
    <3>1. pc' = [pc EXCEPT ![p] = "unlock"] /\ UNCHANGED <<front, back, state>>
      BY <1>3, <2>4 DEF bp
    <3> QED BY <1>f, <1>q, <2>4, <3>1 DEF HeldAt, FrontLabels, FrontOps, Popping, Pushing, BackPopping, BackPushing
  <2>5. CASE pc[p] = "pushb_store"
    <3>1. /\ pc' = [pc EXCEPT ![p] = "pushb_move"] /\ UNCHANGED <<front, state>>
          /\ back'.pos = Prev1(back.pos)
      <4>1. /\ pc' = [pc EXCEPT ![p] = "pushb_move"] /\ UNCHANGED <<front, state>>
            /\ back' = Down(back)
        BY <1>3, <2>5
      <4> QED BY <4>1 DEF Down
    <3>2. mutex = p /\ pc[p] \in InMutex
      BY <1>m, <2>5 DEF InMutex, BackPopping, BackPushing
    <3>3. Held[p] = {bp} /\ Held' = [Held EXCEPT ![p] = {bp}]
      <4>1. Held' = [Held EXCEPT ![p] = HeldAt("pushb_move", front'.pos, back'.pos)]
        BY <3>1, <3>2, HeldUpdate
      <4> QED BY <1>h, <1>p, <2>5, <3>1, <4>1 DEF HeldAt, bp
    <3>4. ~BackMoving /\ BackMoving' /\ (FrontMoving' <=> FrontMoving)
      <4>1. FrontMoving' <=> FrontMoving
        BY <2>5, <3>1, FrontSame DEF Popping, Pushing
      <4>2. /\ BackMoving <=> pc[p] \in BackPopping \cup BackPushing
            /\ BackMoving' <=> "pushb_move" \in BackPopping \cup BackPushing
        BY <3>1, <3>2, BackSet
      <4> QED BY <2>5, <4>1, <4>2 DEF BackPopping, BackPushing
    <3>5. TrueFront' = TrueFront /\ TrueBack' = TrueBack /\ TrueBack = Next1(Prev1(back.pos))
      BY <1>p, <3>1, <3>4 DEF TrueFront, TrueBack
    <3>6. state[bp] = "Busy"
      BY <1>own, <1>s, <3>3 DEF Owned
    <3>7. Length < K
      BY <1>reg, <1>st, <1>t, <1>o, <3>5, <3>6, SlotType, RegionAddBack DEF Length, bp
    <3> QED BY <3>1, <3>3, <3>5, <3>7, <1>keep, <1>ends DEF Slack, Length
  <2>6. CASE pc[p] = "pushb_move"
    <3>1. pc' = [pc EXCEPT ![p] = "pushb_publish"] /\ UNCHANGED <<front, back, state>>
      BY <1>3, <2>6
    <3> QED BY <1>f, <1>q, <2>6, <3>1 DEF HeldAt, FrontLabels, FrontOps, Popping, Pushing, BackPopping, BackPushing
  <2>7. CASE pc[p] = "pushb_publish"
    <3>1. /\ pc' = [pc EXCEPT ![p] = "unlock"] /\ UNCHANGED <<front, back>>
          /\ state' = [state EXCEPT ![bs] = "Ready"]
      BY <1>3, <2>7 DEF bs
    <3>2. mutex = p /\ pc[p] \in InMutex
      BY <1>m, <2>7 DEF InMutex, BackPopping, BackPushing
    <3>3. Held[p] = {bs} /\ Held' = [Held EXCEPT ![p] = {}]
      <4>1. Held' = [Held EXCEPT ![p] = HeldAt("unlock", front'.pos, back'.pos)]
        BY <3>1, <3>2, HeldUpdate
      <4> QED BY <1>h, <2>7, <3>1, <4>1 DEF HeldAt, bs
    <3>4. BackMoving /\ ~BackMoving' /\ (FrontMoving' <=> FrontMoving)
      <4>1. FrontMoving' <=> FrontMoving
        BY <2>7, <3>1, FrontSame DEF Popping, Pushing
      <4>2. /\ BackMoving <=> pc[p] \in BackPopping \cup BackPushing
            /\ BackMoving' <=> "unlock" \in BackPopping \cup BackPushing
        BY <3>1, <3>2, BackSet
      <4> QED BY <2>7, <4>1, <4>2 DEF BackPopping, BackPushing
    <3>5. TrueBack = Next1(back.pos) /\ TrueBack' = back.pos /\ TrueFront' = TrueFront
      BY <1>p, <3>1, <3>4 DEF TrueFront, TrueBack
    <3>6. state[bs] = "Busy"
      BY <1>own, <1>s, <3>3 DEF Owned
    <3>7. Contiguous'
      BY <1>reg, <1>st, <1>t, <1>o, <3>1, <3>5, <3>6, RegionAddBack DEF Contiguous, bs
    <3> QED BY <1>s, <3>1, <3>3, <3>4, <3>7, <1>drop DEF Slack
  <2> QED BY <1>3, <2>1, <2>2, <2>3, <2>4, <2>5, <2>6, <2>7 DEF fs, fp, bs, bp
<1>4. CASE PopBack(p)
  <2> USE DEF PopBack, Lock, Load, Claim, StoreBack, MoveOut, Release, Goto, queue
  <2>1. CASE pc[p] = "popb_lock"
    <3>1. pc' = [pc EXCEPT ![p] = "popb_load"] /\ UNCHANGED <<front, back, state>>
      BY <1>4, <2>1
    <3> QED BY <1>f, <1>q, <2>1, <3>1 DEF HeldAt, FrontLabels, FrontOps, Popping, Pushing, BackPopping, BackPushing
  <2>2. CASE pc[p] = "popb_load"
    <3>1. /\ pc' = [pc EXCEPT ![p] = "popb_claim"] \/ pc' = [pc EXCEPT ![p] = "unlock"]
          /\ UNCHANGED <<front, back, state>>
      BY <1>4, <2>2
    <3> QED BY <1>f, <1>q, <2>2, <3>1 DEF HeldAt, FrontLabels, FrontOps, Popping, Pushing, BackPopping, BackPushing
  <2>3. CASE pc[p] = "popb_claim" /\ state[bs] = "Ready"
    <3>1. /\ pc' = [pc EXCEPT ![p] = "popb_move"] /\ UNCHANGED <<front, back>>
          /\ state' = [state EXCEPT ![bs] = "Busy"]
      BY <1>4, <2>3 DEF bs
    <3>2. mutex = p /\ pc[p] \in InMutex
      BY <1>m, <2>3 DEF InMutex, BackPopping, BackPushing
    <3>3. Held[p] = {} /\ Held' = [Held EXCEPT ![p] = {bs}]
      <4>1. Held' = [Held EXCEPT ![p] = HeldAt("popb_move", front'.pos, back'.pos)]
        BY <3>1, <3>2, HeldUpdate
      <4> QED BY <1>h, <2>3, <3>1, <4>1 DEF HeldAt, bs
    <3>4. ~BackMoving /\ BackMoving' /\ (FrontMoving' <=> FrontMoving)
      <4>1. FrontMoving' <=> FrontMoving
        BY <2>3, <3>1, FrontSame DEF Popping, Pushing
      <4>2. /\ BackMoving <=> pc[p] \in BackPopping \cup BackPushing
            /\ BackMoving' <=> "popb_move" \in BackPopping \cup BackPushing
        BY <3>1, <3>2, BackSet
      <4> QED BY <2>3, <4>1, <4>2 DEF BackPopping, BackPushing
    <3>5. TrueBack = back.pos /\ TrueBack' = Next1(TrueBack) /\ TrueFront' = TrueFront
      BY <3>1, <3>4 DEF TrueFront, TrueBack
    <3>6. Contiguous' /\ Length' < K
      BY <1>reg, <1>st, <1>t, <2>3, <3>1, <3>5, RegionDropBack DEF Contiguous, Length, bs
    <3> QED BY <1>s, <2>3, <3>1, <3>3, <3>6, <1>claim DEF Slack
  <2>4. CASE pc[p] = "popb_claim" /\ state[bs] # "Ready"
    <3>1. pc' = [pc EXCEPT ![p] = "unlock"] /\ UNCHANGED <<front, back, state>>
      BY <1>4, <2>4 DEF bs
    <3> QED BY <1>f, <1>q, <2>4, <3>1 DEF HeldAt, FrontLabels, FrontOps, Popping, Pushing, BackPopping, BackPushing
  <2>5. CASE pc[p] = "popb_move"
    <3>1. pc' = [pc EXCEPT ![p] = "popb_release"] /\ UNCHANGED <<front, back, state>>
      BY <1>4, <2>5
    <3> QED BY <1>f, <1>q, <2>5, <3>1 DEF HeldAt, FrontLabels, FrontOps, Popping, Pushing, BackPopping, BackPushing
  <2>6. CASE pc[p] = "popb_release"
    <3>1. /\ pc' = [pc EXCEPT ![p] = "popb_store"] /\ UNCHANGED <<front, back>>
          /\ state' = [state EXCEPT ![bs] = "Empty"]
      BY <1>4, <2>6 DEF bs
    <3>2. mutex = p /\ pc[p] \in InMutex
      BY <1>m, <2>6 DEF InMutex, BackPopping, BackPushing
    <3>3. Held[p] = {bs} /\ Held' = [Held EXCEPT ![p] = {}]
      <4>1. Held' = [Held EXCEPT ![p] = HeldAt("popb_store", front'.pos, back'.pos)]
        BY <3>1, <3>2, HeldUpdate
      <4> QED BY <1>h, <2>6, <3>1, <4>1 DEF HeldAt, bs
    <3>4. (FrontMoving' <=> FrontMoving) /\ (BackMoving' <=> BackMoving)
      <4>1. FrontMoving' <=> FrontMoving
        BY <2>6, <3>1, FrontSame DEF Popping, Pushing
      <4>2. /\ BackMoving <=> pc[p] \in BackPopping \cup BackPushing
            /\ BackMoving' <=> "popb_store" \in BackPopping \cup BackPushing
        BY <3>1, <3>2, BackSet
      <4> QED BY <2>6, <4>1, <4>2 DEF BackPopping, BackPushing
    <3>5. TrueFront' = TrueFront /\ TrueBack' = TrueBack
      BY <3>1, <3>4 DEF TrueFront, TrueBack
    <3>6. state[bs] = "Busy"
      BY <1>own, <1>s, <3>3 DEF Owned
    <3> QED BY <1>s, <3>1, <3>3, <3>4, <3>5, <3>6, <1>drop, <1>same DEF Slack, Length
  <2>7. CASE pc[p] = "popb_store"
    <3>1. /\ pc' = [pc EXCEPT ![p] = "unlock"] /\ UNCHANGED <<front, state>>
          /\ back'.pos = Next1(back.pos)
      <4>1. /\ pc' = [pc EXCEPT ![p] = "unlock"] /\ UNCHANGED <<front, state>>
            /\ back' = Up(back)
        BY <1>4, <2>7
      <4> QED BY <4>1 DEF Up
    <3>2. mutex = p /\ pc[p] \in InMutex
      BY <1>m, <2>7 DEF InMutex, BackPopping, BackPushing
    <3>3. Held' = [Held EXCEPT ![p] = Held[p]]
      <4>1. Held' = [Held EXCEPT ![p] = HeldAt("unlock", front'.pos, back'.pos)]
        BY <3>1, <3>2, HeldUpdate
      <4> QED BY <1>h, <2>7, <3>1, <4>1 DEF HeldAt
    <3>4. BackMoving /\ ~BackMoving' /\ (FrontMoving' <=> FrontMoving)
      <4>1. FrontMoving' <=> FrontMoving
        BY <2>7, <3>1, FrontSame DEF Popping, Pushing
      <4>2. /\ BackMoving <=> pc[p] \in BackPopping \cup BackPushing
            /\ BackMoving' <=> "unlock" \in BackPopping \cup BackPushing
        BY <3>1, <3>2, BackSet
      <4> QED BY <2>7, <4>1, <4>2 DEF BackPopping, BackPushing
    <3>5. TrueFront' = TrueFront /\ TrueBack' = TrueBack
      BY <3>1, <3>4 DEF TrueFront, TrueBack
    <3> QED BY <3>1, <3>3, <3>4, <3>5, <1>keep, <1>ends DEF Slack
  <2> QED BY <1>4, <2>1, <2>2, <2>3, <2>4, <2>5, <2>6, <2>7 DEF fs, fp, bs, bp
<1>5. CASE Call(p)
  <2>1. PICK op \in Uses[p] : /\ pc[p] = "idle" /\ pc' = [pc EXCEPT ![p] = op]
                              /\ UNCHANGED <<front, back, state>>
    BY <1>5 DEF Call, Goto, queue
  <2>2. op \in FrontOps \cup BackOps /\ (op \in FrontLabels => p = Owner)
    BY UsesAssumption DEF Procs, BackOps, FrontLabels, FrontOps, Popping, Pushing, BackPopping, BackPushing
  <2> QED BY <1>q, <2>1, <2>2 DEF HeldAt, BackOps, FrontLabels, FrontOps, Popping, Pushing, BackPopping, BackPushing
<1>6. CASE LoadFront(p) \/ LoadBack(p) \/ ReloadFront(p) \/ Unlock(p) \/ Return(p)
  <2>1. /\ pc[p] \in {"PopBack", "Empty", "Size", "load_back", "reload_front", "unlock", "return"}
        /\ UNCHANGED <<front, back, state>>
        /\ \E l \in {"load_back", "reload_front", "popb_lock", "return", "idle"} :
             pc' = [pc EXCEPT ![p] = l]
    BY <1>6 DEF LoadFront, LoadBack, ReloadFront, Unlock, Return, Goto, queue
  <2> QED BY <1>q, <2>1 DEF HeldAt, FrontLabels, FrontOps, Popping, Pushing, BackPopping, BackPushing
<1> QED BY <1>1, <1>2, <1>3, <1>4, <1>5, <1>6 DEF Step

LEMMA InvStep == IInv /\ [Next]_vars => IInv'
<1> SUFFICES ASSUME IInv, [Next]_vars PROVE IInv'
  OBVIOUS
<1>1. TypeOK'
  BY TypeStep DEF IInv
<1>2. CASE UNCHANGED vars
  BY <1>2 DEF vars, queue, snap, IInv, TypeOK, Control, SlotExclusion, Contiguous, Slack,
     Held, FrontMoving, BackMoving, TrueFront, TrueBack, Length
<1>3. CASE Next
  BY <1>1, <1>3, ControlStep, SlotStep DEF Next, IInv
<1> QED BY <1>2, <1>3

LEMMA Invariance == Spec => []IInv
BY InvInit, InvStep, PTL DEF Spec

\* However owner and thieves interleave, a claimed slot has one owner.
THEOREM SlotsExclusive == Spec => []SlotExclusion
<1>1. IInv => SlotExclusion
  BY DEF IInv
<1> QED BY <1>1, Invariance, PTL

\* However they interleave, the published works have no hole.
THEOREM QueueContiguous == Spec => []Contiguous
<1>1. IInv => Contiguous
  BY DEF IInv
<1> QED BY <1>1, Invariance, PTL

\* The raw distance counts an end that is moving twice at most.
LEMMA RawDistance ==
  IInv => /\ Length \in Nat /\ Length <= K
          /\ Dist(back.pos, front.pos) =
               Length + (IF FrontMoving THEN 1 ELSE 0) + (IF BackMoving THEN 1 ELSE 0)
          /\ Dist(back.pos, front.pos) <= K + 1
<1> SUFFICES ASSUME IInv
             PROVE  /\ Length \in Nat /\ Length <= K
                    /\ Dist(back.pos, front.pos) =
                         Length + (IF FrontMoving THEN 1 ELSE 0) + (IF BackMoving THEN 1 ELSE 0)
                    /\ Dist(back.pos, front.pos) <= K + 1
  OBVIOUS
<1>1. front.pos \in Positions /\ back.pos \in Positions
  BY DEF IInv, TypeOK, Word
<1>2. Length <= K /\ (FrontMoving /\ BackMoving => Length < K)
  BY DEF IInv, Contiguous, Region, Slack, Length
<1>3. Dist(back.pos, front.pos) =
        Length + (IF FrontMoving THEN 1 ELSE 0) + (IF BackMoving THEN 1 ELSE 0)
  BY <1>1, <1>2, KAssumption
     DEF Length, TrueFront, TrueBack, Dist, Next1, Prev1, Positions
<1>4. Length \in Nat
  BY <1>1, KAssumption DEF Length, TrueFront, TrueBack, Dist, Next1, Prev1, Positions
<1> QED BY <1>2, <1>3, <1>4, KAssumption

\* The computed size is never below the number of published works, and the
\* raw index distance never above kSize + 1 (comment at lines 230-233).
THEOREM SizeLooksLarger == Spec => []LooksLarger
<1>1. IInv => LooksLarger
  <2> SUFFICES ASSUME IInv PROVE LooksLarger
    OBVIOUS
  <2>1. PICK n : n = Length
    OBVIOUS
  <2>2. PICK x : x = (IF FrontMoving THEN 1 ELSE 0) + (IF BackMoving THEN 1 ELSE 0)
    OBVIOUS
  <2>3. x \in Nat
    BY <2>2
  <2>4. n \in Nat /\ n <= K /\ Dist(back.pos, front.pos) = n + x /\ n + x <= K + 1
    BY <2>1, <2>2, RawDistance
  <2>5. n <= (IF n + x > K THEN K ELSE n + x)
    BY ONLY <2>3, <2>4, KAssumption
  <2> QED BY <2>1, <2>4, <2>5 DEF LooksLarger, CalculateSize
<1> QED BY <1>1, Invariance, PTL

-----------------------------------------------------------------------------
(* A push is refused only when there is no room.                           *)

\* A position of the array just above the published works, or just below
\* them, is free unless the array is full.
LEMMA AboveIsFree ==
  ASSUME NEW st, NEW b \in Positions, NEW f \in Positions, Region(st, b, f)
  PROVE  st[Slot(f)] = "Ready" => Dist(b, f) = K
<1>1. Slot(f) \in Slots
  BY SlotType
<1>2. Offset(Slot(f), Slot(b)) < Dist(b, f) /\ Dist(b, f) <= K => Dist(b, f) = K
  BY KAssumption DEF Positions, Slot, Offset, Dist
<1> QED BY <1>1, <1>2 DEF Region

LEMMA BelowIsFree ==
  ASSUME NEW st, NEW b \in Positions, NEW f \in Positions, Region(st, b, f)
  PROVE  st[Slot(Prev1(b))] = "Ready" => Dist(b, f) = K
<1>1. Slot(Prev1(b)) \in Slots
  BY SlotType
<1>2. Offset(Slot(Prev1(b)), Slot(b)) = K - 1
  BY KAssumption DEF Positions, Slot, Offset, Prev1
<1>3. Dist(b, f) \in Nat
  BY KAssumption DEF Positions, Dist
<1> QED BY <1>1, <1>2, <1>3, KAssumption DEF Region

\* When the two ends look at the same slot it is the last one.
LEMMA SameSlot ==
  ASSUME NEW b \in Positions, NEW f \in Positions, Slot(Prev1(b)) = Slot(f), Dist(b, f) <= K
  PROVE  Dist(b, f) = K - 1
BY KAssumption DEF Positions, Slot, Prev1, Dist

LEMMA NextPrev == ASSUME NEW i \in Positions PROVE Prev1(Next1(i)) = i /\ Next1(Prev1(i)) = i
BY KAssumption DEF Positions, Next1, Prev1

LEMMA TrueEnds == TypeOK => TrueFront \in Positions /\ TrueBack \in Positions
BY SlotType DEF TypeOK, Word, TrueFront, TrueBack

\* The slot in front is taken, and no end at the front is moving.
LEMMA FrontTaken ==
  ASSUME IInv, pc[Owner] \in {"PushFront", "pushf_claim"}, state[Slot(front.pos)] # "Empty"
  PROVE  Length >= K - 1
<1>1. ~FrontMoving /\ TrueFront = front.pos
  BY DEF FrontMoving, TrueFront, Popping, Pushing
<1>2. TrueFront \in Positions /\ TrueBack \in Positions /\ front.pos \in Positions /\ back.pos \in Positions
  BY TrueEnds DEF IInv, TypeOK, Word
<1>3. Region(state, TrueBack, TrueFront) /\ Length = Dist(TrueBack, TrueFront) /\ Length <= K
  BY DEF IInv, Contiguous, Region, Length
<1>4. Slot(front.pos) \in Slots /\ state[Slot(front.pos)] \in {"Empty", "Busy", "Ready"}
  BY <1>2, SlotType DEF IInv, TypeOK
<1>7. Length = K \/ Length = K - 1 => Length >= K - 1
  <2>1. PICK n : n = Length
    OBVIOUS
  <2>2. n = K \/ n = K - 1 => n >= K - 1
    BY ONLY KAssumption
  <2> QED BY <2>1, <2>2
<1>5. CASE state[Slot(front.pos)] = "Ready"
  <2>1. Length = K
    BY <1>1, <1>2, <1>3, <1>5, AboveIsFree
  <2> QED BY <1>7, <2>1
<1>6. CASE state[Slot(front.pos)] = "Busy"
  <2>1. PICK q \in Procs : Slot(front.pos) \in HeldAt(pc[q], front.pos, back.pos)
    BY <1>4, <1>6 DEF IInv, SlotExclusion, Owned, Held
  <2>2. q # Owner
    BY <2>1 DEF HeldAt
  <2>3. pc[q] \notin FrontLabels
    BY <2>2 DEF IInv, Control
  <2>4. \/ pc[q] \in {"popb_move", "popb_release", "pushb_move", "pushb_publish"} /\ Slot(front.pos) = Slot(back.pos)
        \/ pc[q] = "pushb_store" /\ Slot(front.pos) = Slot(Prev1(back.pos))
    BY <2>1, <2>3 DEF HeldAt, FrontLabels, Popping, Pushing
  <2>5. Slot(Prev1(TrueBack)) = Slot(front.pos)
    <3>1. CASE pc[q] = "pushb_store" /\ Slot(front.pos) = Slot(Prev1(back.pos))
      <4>1. mutex = q
        BY <3>1 DEF IInv, Control, InMutex
      <4>2. ~BackMoving
        <5>1. ASSUME NEW r \in Procs, pc[r] \in BackPopping \cup BackPushing PROVE FALSE
          <6>1. mutex = r
            BY <5>1 DEF IInv, Control, InMutex
          <6> QED BY <3>1, <4>1, <5>1, <6>1 DEF BackPopping, BackPushing
        <5> QED BY <5>1 DEF BackMoving
      <4> QED BY <3>1, <4>2 DEF TrueBack
    <3>2. CASE pc[q] \in {"popb_move", "popb_release", "pushb_move", "pushb_publish"}
               /\ Slot(front.pos) = Slot(back.pos)
      <4>1. BackMoving
        BY <3>2 DEF BackMoving, BackPopping, BackPushing
      <4>2. Prev1(TrueBack) = back.pos
        BY <1>2, <4>1, NextPrev DEF TrueBack
      <4> QED BY <3>2, <4>2
    <3> QED BY <2>4, <3>1, <3>2
  <2>6. Length = K - 1
    BY <1>1, <1>2, <1>3, <2>5, SameSlot
  <2> QED BY <1>7, <2>6
<1> QED BY <1>4, <1>5, <1>6

LEMMA BackTaken ==
  ASSUME IInv, NEW p \in Procs, pc[p] \in {"pushb_load", "pushb_claim"},
         state[Slot(Prev1(back.pos))] # "Empty"
  PROVE  Length >= K - 1
<1>0. mutex = p
  BY DEF IInv, Control, InMutex
<1>1. ~BackMoving /\ TrueBack = back.pos
  <2>1. ASSUME NEW r \in Procs, pc[r] \in BackPopping \cup BackPushing PROVE FALSE
    <3>1. mutex = r
      BY <2>1 DEF IInv, Control, InMutex
    <3> QED BY <1>0, <2>1, <3>1 DEF BackPopping, BackPushing
  <2>2. ~BackMoving
    BY <2>1 DEF BackMoving
  <2> QED BY <2>2 DEF TrueBack
<1>2. TrueFront \in Positions /\ TrueBack \in Positions /\ front.pos \in Positions /\ back.pos \in Positions
  BY TrueEnds DEF IInv, TypeOK, Word
<1>3. Region(state, TrueBack, TrueFront) /\ Length = Dist(TrueBack, TrueFront) /\ Length <= K
  BY DEF IInv, Contiguous, Region, Length
<1>4. /\ Slot(Prev1(back.pos)) \in Slots
      /\ state[Slot(Prev1(back.pos))] \in {"Empty", "Busy", "Ready"}
  BY <1>2, SlotType DEF IInv, TypeOK
<1>7. Length = K \/ Length = K - 1 => Length >= K - 1
  <2>1. PICK n : n = Length
    OBVIOUS
  <2>2. n = K \/ n = K - 1 => n >= K - 1
    BY ONLY KAssumption
  <2> QED BY <2>1, <2>2
<1>5. CASE state[Slot(Prev1(back.pos))] = "Ready"
  <2>1. Length = K
    BY <1>1, <1>2, <1>3, <1>5, BelowIsFree
  <2> QED BY <1>7, <2>1
<1>6. CASE state[Slot(Prev1(back.pos))] = "Busy"
  <2>1. PICK q \in Procs : Slot(Prev1(back.pos)) \in HeldAt(pc[q], front.pos, back.pos)
    BY <1>4, <1>6 DEF IInv, SlotExclusion, Owned, Held
  <2>2. q # p
    BY <2>1 DEF HeldAt
  <2>3. pc[q] \notin InMutex
    BY <1>0, <2>2 DEF IInv, Control
  <2>4. \/ pc[q] \in {"popf_move", "popf_release", "pushf_move", "pushf_publish"}
           /\ Slot(Prev1(back.pos)) = Slot(Prev1(front.pos))
        \/ pc[q] = "pushf_store" /\ Slot(Prev1(back.pos)) = Slot(front.pos)
    BY <2>1, <2>3 DEF HeldAt, InMutex, BackPopping, BackPushing
  <2>5. q = Owner
    BY <2>4 DEF IInv, Control, FrontLabels, Popping, Pushing
  <2>6. Slot(Prev1(back.pos)) = Slot(TrueFront)
    BY <2>4, <2>5 DEF TrueFront, FrontMoving, Popping, Pushing
  <2>7. Length = K - 1
    BY <1>1, <1>2, <1>3, <2>6, SameSlot
  <2> QED BY <1>7, <2>7
<1> QED BY <1>4, <1>5, <1>6

\* A step moves the thread that takes it and no other.
LEMMA StepMovesOne ==
  ASSUME NEW q \in Procs, Call(q) \/ Step(q)
  PROVE  \E l : pc' = [pc EXCEPT ![q] = l]
<1>2. CASE Call(q)
  BY <1>2 DEF Call, Goto
<1>3. CASE PushFront(q)
  BY <1>3 DEF PushFront, Load, Claim, StoreFront, MoveIn, Publish, Goto
<1>4. CASE PopFront(q)
  BY <1>4 DEF PopFront, Load, Claim, StoreFront, MoveOut, Release, Goto
<1>5. CASE PushBack(q)
  BY <1>5 DEF PushBack, Lock, Load, Claim, StoreBack, MoveIn, Publish, Goto
<1>6. CASE PopBack(q)
  BY <1>6 DEF PopBack, Lock, Load, Claim, StoreBack, MoveOut, Release, Goto
<1>7. CASE LoadFront(q) \/ LoadBack(q) \/ ReloadFront(q) \/ Unlock(q) \/ Return(q)
  BY <1>7 DEF LoadFront, LoadBack, ReloadFront, Unlock, Return, Goto
<1> QED BY <1>2, <1>3, <1>4, <1>5, <1>6, <1>7 DEF Step

\* The only steps from the look at a slot to the end of a push are refusals.
LEMMA Refusals ==
  ASSUME IInv, NEW q \in Procs, Call(q) \/ Step(q), NEW p \in Procs,
         pc[p] \in {"PushFront", "pushf_claim", "pushb_load", "pushb_claim"},
         pc'[p] \in {"return", "unlock"}
  PROVE  \/ pc[p] \in {"PushFront", "pushf_claim"} /\ state[Slot(front.pos)] # "Empty"
         \/ pc[p] \in {"pushb_load", "pushb_claim"} /\ state[Slot(Prev1(back.pos))] # "Empty"
<1>0. pc[p] \notin {"return", "unlock"} /\ p = q
  <2>1. PICK l : pc' = [pc EXCEPT ![q] = l]
    BY StepMovesOne
  <2>2. pc \in [Procs -> Labels]
    BY DEF IInv, TypeOK, Labels
  <2>3. p # q => pc'[p] = pc[p]
    BY <2>1, <2>2
  <2> QED BY <2>3
<1>1. \A l : pc' = [pc EXCEPT ![q] = l] => pc'[p] = l
  BY <1>0 DEF IInv, TypeOK
<1>2. CASE Call(q)
  BY <1>0, <1>2 DEF Call, Goto
<1>3. CASE PushFront(q)
  BY <1>0, <1>1, <1>3 DEF PushFront, Load, Claim, StoreFront, MoveIn, Publish, Goto
<1>4. CASE PopFront(q)
  BY <1>0, <1>4 DEF PopFront, Load, Claim, StoreFront, MoveOut, Release, Goto
<1>5. CASE PushBack(q)
  BY <1>0, <1>1, <1>5 DEF PushBack, Lock, Load, Claim, StoreBack, MoveIn, Publish, Goto
<1>6. CASE PopBack(q)
  BY <1>0, <1>6 DEF PopBack, Lock, Load, Claim, StoreBack, MoveOut, Release, Goto
<1>7. CASE LoadFront(q) \/ LoadBack(q) \/ ReloadFront(q) \/ Unlock(q) \/ Return(q)
  BY <1>0, <1>7 DEF LoadFront, LoadBack, ReloadFront, Unlock, Return, Goto
<1> QED BY <1>2, <1>3, <1>4, <1>5, <1>6, <1>7 DEF Step

\* A push fails only when the queue is full up to one slot, which a thief, or
\* the owner, is just leaving.
THEOREM RefusedWhenFull == Spec => RefusesWhenFull
<1>1. ASSUME IInv, [Next]_vars
      PROVE  [\A p \in Procs :
               (/\ pc[p] \in {"PushFront", "pushf_claim", "pushb_load", "pushb_claim"}
                /\ pc'[p] \in {"return", "unlock"}) => Length >= K - 1]_vars
  <2>1. CASE UNCHANGED vars
    BY <2>1
  <2>2. CASE Next
    <3>1. PICK q \in Procs : Call(q) \/ Step(q)
      BY <2>2 DEF Next
    <3>2. ASSUME NEW p \in Procs, pc[p] \in {"PushFront", "pushf_claim", "pushb_load", "pushb_claim"},
                 pc'[p] \in {"return", "unlock"}
          PROVE  Length >= K - 1
      <4>1. CASE pc[p] \in {"PushFront", "pushf_claim"} /\ state[Slot(front.pos)] # "Empty"
        <5>1. p = Owner
          BY <1>1, <4>1 DEF IInv, Control, FrontLabels, FrontOps
        <5> QED BY <1>1, <4>1, <5>1, FrontTaken
      <4>2. CASE pc[p] \in {"pushb_load", "pushb_claim"} /\ state[Slot(Prev1(back.pos))] # "Empty"
        BY <1>1, <4>2, BackTaken
      <4> QED BY <1>1, <3>1, <3>2, <4>1, <4>2, Refusals
    <3> QED BY <3>2
  <2> QED BY <1>1, <2>1, <2>2
<1> QED BY <1>1, Invariance, PTL DEF Spec, RefusesWhenFull

-----------------------------------------------------------------------------
(* What a thread is doing and what it has in its hands.                    *)

\* The operations a thread at label l may be in.
CallsAt(l) ==
  IF l \in {"pushf_claim", "pushf_store"} \cup Pushing THEN {"PushFront"}
  ELSE IF l \in {"popf_claim"} \cup Popping THEN {"PopFront"}
  ELSE IF l \in {"popb_lock", "popb_load", "popb_claim"} \cup BackPopping THEN {"PopBack"}
  ELSE IF l \in {"pushb_load", "pushb_claim", "pushb_store"} \cup BackPushing THEN {"PushBack"}
  ELSE IF l \in {"load_back", "reload_front"} THEN {"PopBack", "Empty", "Size"}
  ELSE IF l = "unlock" THEN {"PushBack", "PopBack"}
  ELSE IF l = "return" THEN FrontOps \cup BackOps
  ELSE {l}
Calls == \A p \in Procs : call[p] \in CallsAt(pc[p]) /\ call[p] \in Uses[p] \cup {"idle"}

\* The labels of a thread that has a work in hand, or nothing; those of one
\* whose slot holds the work.
Bearing == {"PushFront", "pushf_claim", "pushf_store"} \cup Pushing
           \cup {"PushBack", "pushb_load", "pushb_claim", "pushb_store"} \cup BackPushing
           \cup {"popf_release", "popf_store", "popb_release", "popb_store"}
EmptyHanded == {"idle", "PopFront", "popf_claim", "popf_move", "PopBack", "Empty", "Size",
                "load_back", "reload_front", "popb_lock", "popb_load", "popb_claim", "popb_move"}
Filled == {"popf_move", "popb_move", "pushf_publish", "pushb_publish"}
Hands == \A p \in Procs : /\ pc[p] \in Bearing => hand[p] \in Works
                          /\ pc[p] \in EmptyHanded => hand[p] = NoWork
Stored == /\ \A s \in Slots : state[s] = "Ready" => work[s] \in Works
          /\ \A p \in Procs : pc[p] \in Filled => \A s \in Held[p] : work[s] \in Works

LEMMA CallsStep ==
  ASSUME IInv, Calls, NEW p \in Procs, Call(p) \/ Step(p)
  PROVE  Calls'
<1>u. ASSUME NEW l, pc' = [pc EXCEPT ![p] = l],
             \/ call' = call /\ call[p] \in CallsAt(l)
             \/ \E c \in Uses[p] \cup {"idle"} : call' = [call EXCEPT ![p] = c] /\ c \in CallsAt(l)
      PROVE  Calls'
  BY <1>u DEF Calls, IInv, TypeOK
<1>c. call[p] \in CallsAt(pc[p]) /\ pc[p] \in Labels
  BY DEF Calls, IInv, TypeOK, Labels
<1> USE DEF CallsAt, FrontOps, BackOps, Pushing, Popping, BackPushing, BackPopping
<1>1. CASE Call(p)
  <2>1. PICK op \in Uses[p] : pc' = [pc EXCEPT ![p] = op] /\ call' = [call EXCEPT ![p] = op]
    BY <1>1 DEF Call, Goto
  <2>2. op \in FrontOps \cup BackOps
    BY UsesAssumption
  <2>3. op \in CallsAt(op)
    BY <2>2
  <2> HIDE DEF CallsAt
  <2> QED BY <1>u, <2>1, <2>3
<1>2. CASE PushFront(p)
  BY <1>2, <1>u, <1>c DEF PushFront, Load, Claim, StoreFront, MoveIn, Publish, Goto
<1>3. CASE PopFront(p)
  BY <1>3, <1>u, <1>c DEF PopFront, Load, Claim, StoreFront, MoveOut, Release, Goto
<1>4. CASE PushBack(p)
  BY <1>4, <1>u, <1>c DEF PushBack, Lock, Load, Claim, StoreBack, MoveIn, Publish, Goto
<1>5. CASE PopBack(p)
  BY <1>5, <1>u, <1>c DEF PopBack, Lock, Load, Claim, StoreBack, MoveOut, Release, Goto
<1>6. CASE LoadFront(p) \/ LoadBack(p) \/ ReloadFront(p)
  BY <1>6, <1>u, <1>c DEF LoadFront, LoadBack, ReloadFront, Goto
<1>7. CASE Unlock(p)
  BY <1>7, <1>u, <1>c DEF Unlock, Goto
<1>8. CASE Return(p)
  BY <1>8, <1>u, <1>c DEF Return, Goto
<1> QED BY <1>1, <1>2, <1>3, <1>4, <1>5, <1>6, <1>7, <1>8 DEF Step

\* A step changes nothing in the hands of the other threads.
LEMMA OthersKeep ==
  ASSUME IInv, NEW p \in Procs, Call(p) \/ Step(p), NEW q \in Procs, q # p
  PROVE  pc'[q] = pc[q] /\ hand'[q] = hand[q] /\ call'[q] = call[q]
         /\ snapFront'[q] = snapFront[q] /\ snapBack'[q] = snapBack[q]
<1>t. /\ pc \in [Procs -> Labels] /\ hand \in [Procs -> Works \cup {NoWork}]
      /\ call \in [Procs -> FrontOps \cup BackOps \cup {"idle"}]
      /\ snapFront \in [Procs -> Word] /\ snapBack \in [Procs -> Word]
  BY DEF IInv, TypeOK, Labels
<1>1. CASE Call(p)
  <2>1. UNCHANGED <<snapFront, snapBack>>
    BY <1>1 DEF Call, snap
  <2>2. pc'[q] = pc[q] /\ call'[q] = call[q]
    BY <1>1, <1>t DEF Call, Goto
  <2>3. hand' = hand \/ \E w \in Works : hand' = [hand EXCEPT ![p] = w]
    BY <1>1 DEF Call
  <2> QED BY <1>t, <2>1, <2>2, <2>3
<1>2. CASE PushFront(p)
  BY <1>2, <1>t DEF PushFront, Load, Claim, StoreFront, MoveIn, Publish, Goto, snap
<1>3. CASE PopFront(p)
  BY <1>3, <1>t DEF PopFront, Load, Claim, StoreFront, MoveOut, Release, Goto, snap
<1>4. CASE PushBack(p)
  BY <1>4, <1>t DEF PushBack, Lock, Load, Claim, StoreBack, MoveIn, Publish, Goto, snap
<1>5. CASE PopBack(p)
  BY <1>5, <1>t DEF PopBack, Lock, Load, Claim, StoreBack, MoveOut, Release, Goto, snap
<1>6. CASE LoadFront(p) \/ LoadBack(p) \/ ReloadFront(p)
  BY <1>6, <1>t DEF LoadFront, LoadBack, ReloadFront, Goto, snap
<1>7. CASE Unlock(p)
  BY <1>7, <1>t DEF Unlock, Goto, snap
<1>8. CASE Return(p)
  BY <1>8, <1>t DEF Return, Goto, snap
<1> QED BY <1>1, <1>2, <1>3, <1>4, <1>5, <1>6, <1>7, <1>8 DEF Step

LEMMA HandsStep ==
  ASSUME IInv, Hands, Stored, NEW p \in Procs, Call(p) \/ Step(p)
  PROVE  Hands'
<1>t. pc \in [Procs -> Labels] /\ hand \in [Procs -> Works \cup {NoWork}]
  BY DEF IInv, TypeOK, Labels
<1>u. ASSUME pc'[p] \in Bearing => hand'[p] \in Works,
             pc'[p] \in EmptyHanded => hand'[p] = NoWork
      PROVE  Hands'
  BY <1>u, OthersKeep DEF Hands
<1>h. /\ pc[p] \in Bearing => hand[p] \in Works
      /\ pc[p] \in EmptyHanded => hand[p] = NoWork
  BY DEF Hands
<1>f. pc[p] = "popf_move" => work[Slot(Prev1(front.pos))] \in Works
  BY DEF Stored, Filled, Held, HeldAt
<1>b. pc[p] = "popb_move" => work[Slot(back.pos)] \in Works
  BY DEF Stored, Filled, Held, HeldAt
<1> USE DEF Bearing, EmptyHanded, Pushing, BackPushing
<1>1. CASE Call(p)
  <2>1. PICK op \in Uses[p] : /\ Goto(p, "idle", op)
                              /\ IF op \in Pushes THEN \E w \in Works : hand' = [hand EXCEPT ![p] = w]
                                 ELSE UNCHANGED hand
    BY <1>1 DEF Call
  <2>2. op \in FrontOps \cup BackOps
    BY UsesAssumption
  <2>4. pc'[p] = op /\ pc[p] = "idle"
    BY <1>t, <2>1 DEF Goto
  <2>5. CASE op \in Pushes
    <3>1. hand'[p] \in Works
      BY <1>t, <2>1, <2>5
    <3> QED BY <1>u, <2>4, <2>5, <3>1 DEF Pushes
  <2>6. CASE op \notin Pushes
    <3>1. hand'[p] = NoWork
      BY <1>h, <2>1, <2>4, <2>6
    <3> QED BY <1>u, <2>2, <2>4, <2>6, <3>1 DEF Pushes, FrontOps, BackOps
  <2> QED BY <2>5, <2>6
<1>2. CASE PushFront(p)
  BY <1>2, <1>u, <1>t, <1>h DEF PushFront, Load, Claim, StoreFront, MoveIn, Publish, Goto
<1>3. CASE PopFront(p)
  BY <1>3, <1>u, <1>t, <1>h, <1>f DEF PopFront, Load, Claim, StoreFront, MoveOut, Release, Goto
<1>4. CASE PushBack(p)
  BY <1>4, <1>u, <1>t, <1>h DEF PushBack, Lock, Load, Claim, StoreBack, MoveIn, Publish, Goto
<1>5. CASE PopBack(p)
  BY <1>5, <1>u, <1>t, <1>h, <1>b DEF PopBack, Lock, Load, Claim, StoreBack, MoveOut, Release, Goto
<1>6. CASE LoadFront(p) \/ LoadBack(p) \/ ReloadFront(p)
  BY <1>6, <1>u, <1>t, <1>h DEF LoadFront, LoadBack, ReloadFront, Goto
<1>7. CASE Unlock(p)
  BY <1>7, <1>u, <1>t, <1>h DEF Unlock, Goto
<1>8. CASE Return(p)
  BY <1>8, <1>u, <1>t DEF Return, Goto
<1> QED BY <1>1, <1>2, <1>3, <1>4, <1>5, <1>6, <1>7, <1>8 DEF Step

\* A step touches the works of the slots its thread holds, and publishes one
\* of them or none.
LEMMA TouchesOwn ==
  ASSUME IInv, NEW p \in Procs, Call(p) \/ Step(p)
  PROVE  /\ \A s \in Slots : s \notin Held[p] => work'[s] = work[s]
         /\ \A s \in Slots : state'[s] = "Ready" /\ state[s] # "Ready" =>
              s \in Held[p] /\ work' = work /\ pc[p] \in {"pushf_publish", "pushb_publish"}
<1>t. work \in [Slots -> Works \cup {NoWork}] /\ state \in [Slots -> {"Empty", "Busy", "Ready"}]
  BY DEF IInv, TypeOK
<1>h. Held[p] = HeldAt(pc[p], front.pos, back.pos)
  BY DEF Held
<1>1. CASE Call(p)
  BY <1>1 DEF Call, queue
<1>2. CASE PushFront(p)
  BY <1>2, <1>t, <1>h DEF PushFront, Load, Claim, StoreFront, MoveIn, Publish, Goto, queue, HeldAt
<1>3. CASE PopFront(p)
  BY <1>3, <1>t, <1>h DEF PopFront, Load, Claim, StoreFront, MoveOut, Release, Goto, queue, HeldAt
<1>4. CASE PushBack(p)
  BY <1>4, <1>t, <1>h DEF PushBack, Lock, Load, Claim, StoreBack, MoveIn, Publish, Goto, queue, HeldAt
<1>5. CASE PopBack(p)
  BY <1>5, <1>t, <1>h DEF PopBack, Lock, Load, Claim, StoreBack, MoveOut, Release, Goto, queue, HeldAt
<1>6. CASE LoadFront(p) \/ LoadBack(p) \/ ReloadFront(p) \/ Unlock(p) \/ Return(p)
  BY <1>6 DEF LoadFront, LoadBack, ReloadFront, Unlock, Return, queue
<1> QED BY <1>1, <1>2, <1>3, <1>4, <1>5, <1>6 DEF Step

\* Only the owner moves the front, only the holder of the lock the back.
LEMMA EndsMove ==
  ASSUME IInv, NEW p \in Procs, Call(p) \/ Step(p)
  PROVE  (front' = front \/ p = Owner) /\ (back' = back \/ mutex = p)
<1>f. pc[p] \in FrontLabels => p = Owner
  BY DEF IInv, Control
<1>m. pc[p] \in InMutex => mutex = p
  BY DEF IInv, Control
<1>1. CASE Call(p)
  BY <1>1 DEF Call, queue
<1>2. CASE PushFront(p)
  BY <1>2, <1>f DEF PushFront, Load, Claim, StoreFront, MoveIn, Publish, Goto, queue,
     FrontLabels, FrontOps, Pushing
<1>3. CASE PopFront(p)
  BY <1>3, <1>f DEF PopFront, Load, Claim, StoreFront, MoveOut, Release, Goto, queue,
     FrontLabels, FrontOps, Popping
<1>4. CASE PushBack(p)
  BY <1>4, <1>m DEF PushBack, Lock, Load, Claim, StoreBack, MoveIn, Publish, Goto, queue, InMutex
<1>5. CASE PopBack(p)
  BY <1>5, <1>m DEF PopBack, Lock, Load, Claim, StoreBack, MoveOut, Release, Goto, queue,
     InMutex, BackPopping
<1>6. CASE LoadFront(p) \/ LoadBack(p) \/ ReloadFront(p) \/ Unlock(p) \/ Return(p)
  BY <1>6 DEF LoadFront, LoadBack, ReloadFront, Unlock, Return, queue
<1> QED BY <1>1, <1>2, <1>3, <1>4, <1>5, <1>6 DEF Step

LEMMA OthersHold ==
  ASSUME IInv, NEW p \in Procs, Call(p) \/ Step(p), NEW q \in Procs, q # p
  PROVE  Held'[q] = Held[q]
<1>1. PICK l : pc' = [pc EXCEPT ![p] = l]
  BY StepMovesOne
<1>2. Held' = [Held EXCEPT ![p] = HeldAt(l, front'.pos, back'.pos)]
  BY <1>1, EndsMove, HeldUpdate DEF IInv
<1>3. Held \in [Procs -> SUBSET Slots]
  BY HeldType DEF IInv
<1> QED BY <1>2, <1>3

\* A thread comes to the labels in Filled with a work in its slot.
LEMMA ComesFilled ==
  ASSUME IInv, Hands, Stored, NEW p \in Procs, Call(p) \/ Step(p), pc'[p] \in Filled,
         NEW s \in Held'[p]
  PROVE  work'[s] \in Works
<1>t. /\ pc \in [Procs -> Labels] /\ work \in [Slots -> Works \cup {NoWork}]
      /\ state \in [Slots -> {"Empty", "Busy", "Ready"}]
  BY DEF IInv, TypeOK, Labels
<1>s. Slot(front.pos) \in Slots /\ Slot(Prev1(front.pos)) \in Slots
      /\ Slot(back.pos) \in Slots /\ Slot(Prev1(back.pos)) \in Slots
  BY SlotType DEF IInv, TypeOK, Word
<1>h. s \in HeldAt(pc'[p], front'.pos, back'.pos)
  BY DEF Held
<1>r. \A x \in Slots : state[x] = "Ready" => work[x] \in Works
  BY DEF Stored
<1>b. pc[p] \in Bearing => hand[p] \in Works
  BY DEF Hands
<1>1. CASE Call(p)
  <2>1. PICK op \in Uses[p] : pc' = [pc EXCEPT ![p] = op]
    BY <1>1 DEF Call, Goto
  <2>2. op \in FrontOps \cup BackOps
    BY UsesAssumption
  <2>3. pc'[p] = op
    BY <1>t, <2>1
  <2> QED BY <2>2, <2>3 DEF Filled, FrontOps, BackOps
<1>2. CASE PushFront(p)
  <2>c. MoveIn(p, "pushf_move", Slot(Prev1(front.pos)), "pushf_publish")
    BY <1>2, <1>t DEF PushFront, Load, Claim, StoreFront, Publish, Goto, Filled
  <2>1. /\ pc[p] = "pushf_move" /\ pc'[p] = "pushf_publish" /\ front' = front /\ back' = back
        /\ work'[Slot(Prev1(front.pos))] = hand[p]
    BY <1>t, <1>s, <2>c DEF MoveIn, Goto
  <2>2. s = Slot(Prev1(front.pos))
    BY <1>h, <2>1 DEF HeldAt
  <2> QED BY <1>b, <2>1, <2>2 DEF Bearing, Pushing
<1>3. CASE PopFront(p)
  <2>c. Claim(p, "popf_claim", Slot(Prev1(front.pos)), "Ready", "popf_move", "return")
    BY <1>3, <1>t DEF PopFront, Load, StoreFront, MoveOut, Release, Goto, Filled
  <2>1. /\ pc'[p] = "popf_move" /\ front' = front /\ back' = back /\ work' = work
        /\ state[Slot(Prev1(front.pos))] = "Ready"
    BY <1>t, <2>c DEF Claim, Goto, Filled
  <2>2. s = Slot(Prev1(front.pos))
    BY <1>h, <2>1 DEF HeldAt
  <2> QED BY <1>s, <1>r, <2>1, <2>2
<1>4. CASE PushBack(p)
  <2>c. MoveIn(p, "pushb_move", Slot(back.pos), "pushb_publish")
    BY <1>4, <1>t DEF PushBack, Lock, Load, Claim, StoreBack, Publish, Goto, Filled
  <2>1. /\ pc[p] = "pushb_move" /\ pc'[p] = "pushb_publish" /\ front' = front /\ back' = back
        /\ work'[Slot(back.pos)] = hand[p]
    BY <1>t, <1>s, <2>c DEF MoveIn, Goto
  <2>2. s = Slot(back.pos)
    BY <1>h, <2>1 DEF HeldAt
  <2> QED BY <1>b, <2>1, <2>2 DEF Bearing, BackPushing
<1>5. CASE PopBack(p)
  <2>c. Claim(p, "popb_claim", Slot(back.pos), "Ready", "popb_move", "unlock")
    BY <1>5, <1>t DEF PopBack, Lock, Load, StoreBack, MoveOut, Release, Goto, Filled
  <2>1. /\ pc'[p] = "popb_move" /\ front' = front /\ back' = back /\ work' = work
        /\ state[Slot(back.pos)] = "Ready"
    BY <1>t, <2>c DEF Claim, Goto, Filled
  <2>2. s = Slot(back.pos)
    BY <1>h, <2>1 DEF HeldAt
  <2> QED BY <1>s, <1>r, <2>1, <2>2
<1>6. CASE LoadFront(p) \/ LoadBack(p) \/ ReloadFront(p) \/ Unlock(p) \/ Return(p)
  BY <1>6, <1>t DEF LoadFront, LoadBack, ReloadFront, Unlock, Return, Goto, Filled
<1> QED BY <1>1, <1>2, <1>3, <1>4, <1>5, <1>6 DEF Step

LEMMA StoredStep ==
  ASSUME IInv, Hands, Stored, NEW p \in Procs, Call(p) \/ Step(p)
  PROVE  Stored'
<1>h. Held \in [Procs -> SUBSET Slots]
  BY HeldType DEF IInv
<1>1. ASSUME NEW s \in Slots, state'[s] = "Ready" PROVE work'[s] \in Works
  <2>1. CASE state[s] = "Ready"
    <3>1. s \notin Held[p]
      BY <2>1 DEF IInv, SlotExclusion, Owned
    <3>2. work'[s] = work[s]
      BY <3>1, TouchesOwn
    <3> QED BY <2>1, <3>2 DEF Stored
  <2>2. CASE state[s] # "Ready"
    <3>1. s \in Held[p] /\ work' = work /\ pc[p] \in {"pushf_publish", "pushb_publish"}
      BY <1>1, <2>2, TouchesOwn
    <3> QED BY <3>1 DEF Stored, Filled
  <2> QED BY <2>1, <2>2
<1>2. ASSUME NEW q \in Procs, pc'[q] \in Filled, NEW s \in Held'[q] PROVE work'[s] \in Works
  <2>1. CASE q = p
    BY <1>2, <2>1, ComesFilled
  <2>2. CASE q # p
    <3>1. pc'[q] = pc[q] /\ Held'[q] = Held[q]
      BY <2>2, OthersKeep, OthersHold
    <3>2. s \notin Held[p] /\ s \in Slots
      BY <1>2, <1>h, <2>2, <3>1 DEF IInv, SlotExclusion, Owned
    <3>3. work'[s] = work[s]
      BY <3>2, TouchesOwn
    <3> QED BY <1>2, <3>1, <3>3 DEF Stored
  <2> QED BY <2>1, <2>2
<1> QED BY <1>1, <1>2 DEF Stored

\* A thread that is popping found a work in the slot that it claimed.
PopInv == IInv /\ Calls /\ Hands /\ Stored

LEMMA PopInvInit == Init => PopInv
<1> SUFFICES ASSUME Init PROVE PopInv
  OBVIOUS
<1>1. IInv
  BY InvInit
<1>2. Calls
  BY DEF Init, Calls, CallsAt, Pushing, Popping, BackPushing, BackPopping
<1>3. Hands
  BY DEF Init, Hands, Bearing, EmptyHanded, Pushing, BackPushing
<1>4. Stored
  BY DEF Init, Stored, Filled
<1> QED BY <1>1, <1>2, <1>3, <1>4 DEF PopInv

LEMMA PopInvStep == PopInv /\ [Next]_vars => PopInv'
<1> SUFFICES ASSUME PopInv, [Next]_vars PROVE PopInv'
  OBVIOUS
<1>1. IInv'
  BY InvStep DEF PopInv
<1>2. CASE UNCHANGED vars
  <2>1. Held' = Held
    BY <1>2 DEF Held, vars, queue
  <2> QED BY <1>1, <1>2, <2>1 DEF vars, queue, PopInv, Calls, Hands, Stored
<1>3. CASE Next
  BY <1>1, <1>3, CallsStep, HandsStep, StoredStep DEF Next, PopInv
<1> QED BY <1>2, <1>3

LEMMA PopInvariance == Spec => []PopInv
BY PopInvInit, PopInvStep, PTL DEF Spec

-----------------------------------------------------------------------------
(* Nobody reports an empty queue that was not empty during the call.       *)

\* When the slot at an end is not published, nothing is.
LEMMA NothingBelow ==
  ASSUME NEW st, NEW b \in Positions, NEW f \in Positions, Region(st, b, f)
  PROVE  /\ st[Slot(Prev1(f))] # "Ready" => Dist(b, f) = 0
         /\ st[Slot(b)] # "Ready" => Dist(b, f) = 0
         /\ Dist(b, f) = 0 => \A s \in Slots : st[s] # "Ready"
<1>1. Slot(Prev1(f)) \in Slots /\ Slot(b) \in Slots
  BY SlotType
<1>2. Dist(b, f) \in Nat /\ Dist(b, f) <= K
  BY KAssumption DEF Region, Dist, Positions
<1>3. Dist(b, f) # 0 => Offset(Slot(Prev1(f)), Slot(b)) < Dist(b, f)
  BY <1>2, KAssumption DEF Positions, Slot, Offset, Dist, Prev1
<1>4. Dist(b, f) # 0 => Offset(Slot(b), Slot(b)) < Dist(b, f)
  BY <1>2, KAssumption DEF Positions, Slot, Offset
<1>5. \A s \in Slots : Offset(s, Slot(b)) \in 0 .. K - 1
  BY <1>1, OffsetType
<1>6. Dist(b, f) = 0 => \A s \in Slots : ~(Offset(s, Slot(b)) < Dist(b, f))
  BY <1>5, KAssumption
<1> QED BY <1>1, <1>3, <1>4, <1>6 DEF Region

LEMMA NoneReady == IInv /\ Length = 0 => ReadySlots = {}
<1> SUFFICES ASSUME IInv, Length = 0 PROVE ReadySlots = {}
  OBVIOUS
<1>1. TrueFront \in Positions /\ TrueBack \in Positions
  BY TrueEnds DEF IInv
<1>2. Region(state, TrueBack, TrueFront) /\ Dist(TrueBack, TrueFront) = 0
  BY DEF IInv, Contiguous, Length
<1> QED BY <1>1, <1>2, NothingBelow DEF ReadySlots

LEMMA FrontEmpty ==
  ASSUME IInv, pc[Owner] \in {"PopFront", "popf_claim"},
         state[Slot(Prev1(front.pos))] # "Ready"
  PROVE  ReadySlots = {}
<1>1. TrueFront = front.pos
  BY DEF FrontMoving, TrueFront, Popping, Pushing
<1>2. TrueFront \in Positions /\ TrueBack \in Positions
  BY TrueEnds DEF IInv
<1>3. Region(state, TrueBack, TrueFront)
  BY DEF IInv, Contiguous
<1>4. Length = 0
  BY <1>1, <1>2, <1>3, NothingBelow DEF Length
<1> QED BY <1>4, NoneReady

LEMMA BackEmpty ==
  ASSUME IInv, NEW p \in Procs, pc[p] \in {"popb_load", "popb_claim"},
         state[Slot(back.pos)] # "Ready"
  PROVE  ReadySlots = {}
<1>1. TrueBack = back.pos
  <2>0. mutex = p
    BY DEF IInv, Control, InMutex
  <2>1. ASSUME NEW r \in Procs, pc[r] \in BackPopping \cup BackPushing PROVE FALSE
    <3>1. mutex = r
      BY <2>1 DEF IInv, Control, InMutex
    <3> QED BY <2>0, <2>1, <3>1 DEF BackPopping, BackPushing
  <2>2. ~BackMoving
    BY <2>1 DEF BackMoving
  <2> QED BY <2>2 DEF TrueBack
<1>2. TrueFront \in Positions /\ TrueBack \in Positions
  BY TrueEnds DEF IInv
<1>3. Region(state, TrueBack, TrueFront)
  BY DEF IInv, Contiguous
<1>4. Length = 0
  BY <1>1, <1>2, <1>3, NothingBelow DEF Length
<1> QED BY <1>4, NoneReady

LEMMA GapEmpty == IInv /\ front.pos = back.pos => ReadySlots = {}
<1> SUFFICES ASSUME IInv, front.pos = back.pos PROVE ReadySlots = {}
  OBVIOUS
<1>0. back.pos \in Positions
  BY DEF IInv, TypeOK, Word
<1>1. Dist(back.pos, front.pos) = 0
  BY <1>0, KAssumption DEF Positions, Dist
<1>2. PICK n : n = Length
  OBVIOUS
<1>3. PICK x : x = (IF FrontMoving THEN 1 ELSE 0) + (IF BackMoving THEN 1 ELSE 0)
  OBVIOUS
<1>4. x \in Nat
  BY <1>3
<1>5. n \in Nat /\ 0 = n + x
  BY <1>1, <1>2, <1>3, RawDistance
<1>6. n = 0
  BY ONLY <1>4, <1>5
<1> QED BY <1>2, <1>6, NoneReady

\* How the pool uses a queue (it never pushes at the back), and a counter
\* that is wide enough for the pushes there are.
PoolUse == /\ \A p \in Procs : "PushBack" \notin Uses[p]
           /\ MaxCount \in Nat /\ MaxCount + 1 < M

FrontCount == /\ front.cnt <= MaxCount + 1
              /\ pc[Owner] \in {"PushFront", "pushf_claim", "pushf_store"} => front.cnt < MaxCount

LEMMA UpCount ==
  ASSUME PoolUse, NEW w \in Word, w.cnt < MaxCount
  PROVE  Up(w).cnt > w.cnt /\ Up(w).cnt <= MaxCount + 1
BY MAssumption DEF PoolUse, Word, Up, WrapCount

LEMMA NoPushBack ==
  ASSUME PoolUse, IInv, Calls, NEW p \in Procs
  PROVE  ~PushBack(p)
<1>1. call[p] # "PushBack"
  BY DEF Calls, PoolUse
<1>2. pc[p] \notin {"PushBack", "pushb_load", "pushb_claim", "pushb_store"} \cup BackPushing
  BY <1>1 DEF Calls, CallsAt, Pushing, Popping, BackPushing, BackPopping
<1> QED BY <1>2 DEF PushBack, Lock, Load, Claim, StoreBack, MoveIn, Publish, Goto, BackPushing

\* How the two ends may move in one step.
LEMMA EndsStep ==
  ASSUME PoolUse, IInv, Calls, FrontCount, NEW p \in Procs, Call(p) \/ Step(p)
  PROVE  \/ front' = front /\ back' = back
         \/ front' = Up(front) /\ back' = back /\ front.cnt < MaxCount
            /\ p = Owner /\ pc[p] = "pushf_store"
         \/ front' = Down(front) /\ back' = back /\ Dist(back.pos, front.pos) # 0
         \/ front' = front /\ back' = Up(back) /\ Dist(back.pos, front.pos) # 0
<1>n. ASSUME FrontMoving \/ BackMoving PROVE Dist(back.pos, front.pos) # 0
  <2>1. PICK n, x : n = Length /\ x = (IF FrontMoving THEN 1 ELSE 0) + (IF BackMoving THEN 1 ELSE 0)
    OBVIOUS
  <2>2. n \in Nat /\ x \in {1, 2} /\ Dist(back.pos, front.pos) = n + x
    BY <1>n, <2>1, RawDistance
  <2>3. n + x # 0
    BY ONLY <2>2
  <2> QED BY <2>2, <2>3
<1>f. pc[p] \in FrontLabels => p = Owner
  BY DEF IInv, Control
<1>1. CASE Call(p)
  BY <1>1 DEF Call, queue
<1>2. CASE PushFront(p)
  BY <1>2, <1>f DEF PushFront, Load, Claim, StoreFront, MoveIn, Publish, Goto, queue,
     FrontLabels, FrontCount
<1>3. CASE PopFront(p)
  <2>1. CASE pc[p] # "popf_store"
    BY <1>3, <2>1 DEF PopFront, Load, Claim, StoreFront, MoveOut, Release, Goto, queue
  <2>2. CASE pc[p] = "popf_store"
    <3>1. FrontMoving
      BY <1>f, <2>2 DEF FrontMoving, FrontLabels, Popping
    <3>2. front' = Down(front) /\ back' = back
      BY <1>3, <2>2 DEF PopFront, Load, Claim, StoreFront, MoveOut, Release, Goto
    <3> QED BY <1>n, <3>1, <3>2
  <2> QED BY <2>1, <2>2
<1>4. CASE PushBack(p)
  BY <1>4, NoPushBack
<1>5. CASE PopBack(p)
  <2>1. CASE pc[p] # "popb_store"
    BY <1>5, <2>1 DEF PopBack, Lock, Load, Claim, StoreBack, MoveOut, Release, Goto, queue
  <2>2. CASE pc[p] = "popb_store"
    <3>1. BackMoving
      BY <2>2 DEF BackMoving, BackPopping
    <3>2. front' = front /\ back' = Up(back)
      BY <1>5, <2>2 DEF PopBack, Lock, Load, Claim, StoreBack, MoveOut, Release, Goto
    <3> QED BY <1>n, <3>1, <3>2
  <2> QED BY <2>1, <2>2
<1>6. CASE LoadFront(p) \/ LoadBack(p) \/ ReloadFront(p) \/ Unlock(p) \/ Return(p)
  BY <1>6 DEF LoadFront, LoadBack, ReloadFront, Unlock, Return, queue
<1> QED BY <1>1, <1>2, <1>3, <1>4, <1>5, <1>6 DEF Step

\* What an earlier value of front_ says later: as long as no push has raised
\* the counter, the front can only have come down, by no more than the queue
\* was long, and so has not come round to where it was.
Since(f, b, s) == /\ s.cnt <= f.cnt
                  /\ s.cnt = f.cnt => Dist(b.pos, f.pos) + Dist(f.pos, s.pos) <= K + 1

LEMMA SincePush ==
  ASSUME PoolUse, NEW f \in Word, NEW b, NEW s \in Word, Since(f, b, s), f.cnt < MaxCount
  PROVE  Since(Up(f), b, s) /\ Up(f) # s
<1>1. f.cnt \in Nat /\ s.cnt \in Nat /\ Up(f).cnt \in Nat
  BY Moves, MAssumption DEF Word
<1>2. Up(f).cnt > f.cnt
  BY UpCount
<1>3. s.cnt < Up(f).cnt
  BY <1>1, <1>2 DEF Since
<1> QED BY <1>1, <1>3 DEF Since

LEMMA SincePop ==
  ASSUME NEW f \in Word, NEW b \in Word, NEW s \in Word, Since(f, b, s), Dist(b.pos, f.pos) # 0
  PROVE  Since(Down(f), b, s) /\ Down(f) # s
<1>1. f.pos \in Positions /\ b.pos \in Positions /\ s.pos \in Positions
  BY DEF Word
<1>2. Down(f).pos = Prev1(f.pos) /\ Down(f).cnt = f.cnt
  BY DEF Down
<1>3. ASSUME s.cnt = f.cnt
      PROVE  /\ Dist(b.pos, Prev1(f.pos)) + Dist(Prev1(f.pos), s.pos) <= K + 1
             /\ Prev1(f.pos) # s.pos
  <2>1. Dist(b.pos, f.pos) + Dist(f.pos, s.pos) <= K + 1
    BY <1>3 DEF Since
  <2>2. PICK x \in Positions, y \in Positions, z \in Positions : x = f.pos /\ y = b.pos /\ z = s.pos
    BY <1>1
  <2>3. Dist(y, x) # 0 /\ Dist(y, x) + Dist(x, z) <= K + 1
    BY <2>1, <2>2
  <2>4. Dist(y, Prev1(x)) + Dist(Prev1(x), z) <= K + 1 /\ Prev1(x) # z
    BY ONLY <2>3, KAssumption, x \in Positions, y \in Positions, z \in Positions
       DEF Dist, Prev1, Positions
  <2> QED BY <2>2, <2>4
<1> QED BY <1>2, <1>3 DEF Since

LEMMA SinceTake ==
  ASSUME NEW f \in Word, NEW b \in Word, NEW s \in Word, Since(f, b, s), Dist(b.pos, f.pos) # 0
  PROVE  Since(f, Up(b), s)
<1>1. f.pos \in Positions /\ b.pos \in Positions /\ s.pos \in Positions
  BY DEF Word
<1>2. Up(b).pos = Next1(b.pos)
  BY DEF Up
<1>3. ASSUME s.cnt = f.cnt
      PROVE  Dist(Next1(b.pos), f.pos) + Dist(f.pos, s.pos) <= K + 1
  <2>1. Dist(b.pos, f.pos) + Dist(f.pos, s.pos) <= K + 1
    BY <1>3 DEF Since
  <2>2. PICK x \in Positions, y \in Positions, z \in Positions : x = f.pos /\ y = b.pos /\ z = s.pos
    BY <1>1
  <2>3. Dist(y, x) # 0 /\ Dist(y, x) + Dist(x, z) <= K + 1
    BY <2>1, <2>2
  <2>4. Dist(Next1(y), x) + Dist(x, z) <= K + 1
    BY ONLY <2>3, KAssumption, x \in Positions, y \in Positions, z \in Positions
       DEF Dist, Next1, Positions
  <2> QED BY <2>2, <2>4
<1> QED BY <1>2, <1>3 DEF Since

LEMMA SinceNow ==
  ASSUME IInv PROVE Since(front, back, front)
<1>0. front \in Word /\ back \in Word
  BY DEF IInv, TypeOK
<1>1. front.pos \in Positions /\ back.pos \in Positions /\ front.cnt \in Nat
  BY <1>0, MAssumption DEF Word
<1>2. PICK d : d = Dist(back.pos, front.pos)
  OBVIOUS
<1>3. d <= K + 1 /\ d \in Nat
  <2>1. d \in Nat
    BY <1>1, <1>2, KAssumption DEF Positions, Dist
  <2> QED BY <1>2, <2>1, RawDistance
<1>4. Dist(front.pos, front.pos) = 0
  BY <1>1, KAssumption DEF Positions, Dist
<1>5. d + 0 <= K + 1
  BY <1>3
<1> QED BY <1>1, <1>2, <1>4, <1>5 DEF Since

\* The front does not come back to an earlier value.
LEMMA SinceStep ==
  ASSUME PoolUse, IInv, Calls, FrontCount, NEW p \in Procs, Call(p) \/ Step(p),
         NEW s \in Word, Since(front, back, s)
  PROVE  Since(front', back', s) /\ (front' = s => front' = front)
<1>1. front \in Word /\ back \in Word
  BY DEF IInv, TypeOK
<1>2. CASE front' = front /\ back' = back
  BY <1>2
<1>3. CASE front' = Up(front) /\ back' = back /\ front.cnt < MaxCount
  BY <1>1, <1>3, SincePush
<1>4. CASE front' = Down(front) /\ back' = back /\ Dist(back.pos, front.pos) # 0
  BY <1>1, <1>4, SincePop
<1>5. CASE front' = front /\ back' = Up(back) /\ Dist(back.pos, front.pos) # 0
  BY <1>1, <1>5, SinceTake
<1> QED BY <1>2, <1>3, <1>4, <1>5, EndsStep

LEMMA FrontCountStep ==
  ASSUME PoolUse, IInv, Calls, FrontCount, NEW p \in Procs, Call(p) \/ Step(p)
  PROVE  FrontCount'
<1>t. pc \in [Procs -> Labels] /\ front \in Word /\ Owner \in Procs
  BY DEF IInv, TypeOK, Labels, Procs
<1>c. front.cnt \in Nat
  BY <1>t, MAssumption DEF Word
<1>l. pc'[Owner] \in {"PushFront", "pushf_claim", "pushf_store"} =>
        \/ pc[Owner] \in {"PushFront", "pushf_claim", "pushf_store"}
        \/ front.cnt < MaxCount
  <2>1. CASE p # Owner
    BY <1>t, <2>1, OthersKeep
  <2>2. CASE p = Owner
    <3> USE <2>2
    <3>1. CASE Call(p)
      <4>1. PICK op \in Uses[p] : /\ pc' = [pc EXCEPT ![p] = op]
                                  /\ op = "PushFront" => front.cnt < MaxCount
        BY <3>1 DEF Call, Goto, Pushes
      <4>2. op \in FrontOps \cup BackOps
        BY UsesAssumption
      <4> QED BY <1>t, <4>1, <4>2 DEF FrontOps, BackOps
    <3>2. CASE PushFront(p)
      BY <1>t, <3>2 DEF PushFront, Load, Claim, StoreFront, MoveIn, Publish, Goto
    <3>3. CASE PopFront(p)
      BY <1>t, <3>3 DEF PopFront, Load, Claim, StoreFront, MoveOut, Release, Goto
    <3>4. CASE PushBack(p)
      BY <3>4, NoPushBack
    <3>5. CASE PopBack(p)
      BY <1>t, <3>5 DEF PopBack, Lock, Load, Claim, StoreBack, MoveOut, Release, Goto
    <3>6. CASE LoadFront(p) \/ LoadBack(p) \/ ReloadFront(p) \/ Unlock(p) \/ Return(p)
      BY <1>t, <3>6 DEF LoadFront, LoadBack, ReloadFront, Unlock, Return, Goto
    <3> QED BY <3>1, <3>2, <3>3, <3>4, <3>5, <3>6 DEF Step
  <2> QED BY <2>1, <2>2
<1>1. CASE front' = front
  BY <1>l, <1>1 DEF FrontCount
<1>2. CASE front' = Down(front)
  BY <1>l, <1>2 DEF FrontCount, Down
<1>3. CASE front' = Up(front) /\ front.cnt < MaxCount /\ p = Owner /\ pc[p] = "pushf_store"
  <2>1. front'.cnt <= MaxCount + 1
    BY <1>t, <1>3, UpCount
  <2>2. pc'[Owner] = "pushf_move"
    <3>1. CASE Call(p)
      BY <1>3, <3>1 DEF Call, Goto
    <3>2. CASE PushFront(p)
      BY <1>t, <1>3, <3>2 DEF PushFront, Load, Claim, StoreFront, MoveIn, Publish, Goto
    <3>3. CASE PopFront(p)
      BY <1>3, <3>3 DEF PopFront, Load, Claim, StoreFront, MoveOut, Release, Goto
    <3>4. CASE PushBack(p)
      BY <3>4, NoPushBack
    <3>5. CASE PopBack(p)
      BY <1>3, <3>5 DEF PopBack, Lock, Load, Claim, StoreBack, MoveOut, Release, Goto
    <3>6. CASE LoadFront(p) \/ LoadBack(p) \/ ReloadFront(p) \/ Unlock(p) \/ Return(p)
      BY <1>3, <3>6 DEF LoadFront, LoadBack, ReloadFront, Unlock, Return, Goto
    <3> QED BY <3>1, <3>2, <3>3, <3>4, <3>5, <3>6 DEF Step
  <2> QED BY <2>1, <2>2 DEF FrontCount
<1> QED BY <1>1, <1>2, <1>3, EndsStep

\* What a thread has read of the two ends, and what it tells its caller.
Snaps == \A p \in Procs :
  /\ pc[p] \in {"load_back", "reload_front"} => Since(front, back, snapFront[p])
  /\ pc[p] = "reload_front" /\ front = snapFront[p] /\ front.pos = snapBack[p].pos => p \in seen
Told == \A p \in Procs :
  /\ pc[p] \in {"return", "unlock"} /\ call[p] \in {"PopFront", "PopBack"} /\ hand[p] = NoWork
       => p \in seen
  /\ pc[p] = "return" /\ call[p] = "Empty" /\ snapFront[p].pos = snapBack[p].pos => p \in seen

LEMMA SnapsStep ==
  ASSUME PoolUse, PopInv, FrontCount, Snaps, NEW p \in Procs, Call(p) \/ Step(p), Watch,
         Calls'
  PROVE  Snaps'
<1> USE DEF PopInv
<1>t. /\ pc \in [Procs -> Labels] /\ snapFront \in [Procs -> Word] /\ snapBack \in [Procs -> Word]
      /\ front \in Word /\ back \in Word
  BY DEF IInv, TypeOK, Labels
<1>w. ASSUME NEW q \in Procs, pc'[q] \in {"load_back", "reload_front"}, q \in seen \/ ReadySlots' = {}
      PROVE  q \in seen'
  <2>1. call'[q] # "idle"
    BY <1>w DEF Calls, CallsAt, Pushing, Popping, BackPushing, BackPopping
  <2> QED BY <1>w, <2>1 DEF Watch
<1>1. ASSUME NEW q \in Procs, q # p
      PROVE  /\ pc'[q] \in {"load_back", "reload_front"} => Since(front', back', snapFront'[q])
             /\ pc'[q] = "reload_front" /\ front' = snapFront'[q] /\ front'.pos = snapBack'[q].pos
                  => q \in seen'
  <2>1. pc'[q] = pc[q] /\ snapFront'[q] = snapFront[q] /\ snapBack'[q] = snapBack[q]
    BY <1>1, OthersKeep
  <2>2. CASE pc[q] \in {"load_back", "reload_front"}
    <3>1. snapFront[q] \in Word /\ Since(front, back, snapFront[q])
      BY <1>t, <2>2 DEF Snaps
    <3>2. Since(front', back', snapFront[q]) /\ (front' = snapFront[q] => front' = front)
      BY <3>1, SinceStep
    <3>3. ASSUME pc[q] = "reload_front", front' = snapFront[q], front'.pos = snapBack[q].pos
          PROVE  q \in seen'
      <4>1. q \in seen
        BY <3>2, <3>3 DEF Snaps
      <4> QED BY <1>w, <2>1, <3>3, <4>1
    <3> QED BY <2>1, <3>2, <3>3
  <2>3. CASE pc[q] \notin {"load_back", "reload_front"}
    BY <2>1, <2>3
  <2> QED BY <2>2, <2>3
<1>2. /\ pc'[p] \in {"load_back", "reload_front"} => Since(front', back', snapFront'[p])
      /\ pc'[p] = "reload_front" /\ front' = snapFront'[p] /\ front'.pos = snapBack'[p].pos
           => p \in seen'
  <2>1. CASE LoadFront(p) \/ ReloadFront(p)
    <3>1. UNCHANGED queue /\ snapFront'[p] = front /\ pc'[p] # "reload_front"
      BY <1>t, <2>1 DEF LoadFront, ReloadFront, Goto
    <3>2. front' = front /\ back' = back
      BY <3>1 DEF queue
    <3> QED BY <3>1, <3>2, SinceNow
  <2>2. CASE LoadBack(p)
    <3>1. /\ UNCHANGED queue /\ snapFront' = snapFront /\ snapBack'[p] = back
          /\ pc[p] = "load_back" /\ pc'[p] = "reload_front"
      BY <1>t, <2>2 DEF LoadBack, Goto
    <3>2. front' = front /\ back' = back /\ ReadySlots' = ReadySlots
      BY <3>1 DEF queue, ReadySlots
    <3>3. front.pos = back.pos => ReadySlots = {}
      BY GapEmpty
    <3>4. front.pos = back.pos => p \in seen'
      BY <1>w, <3>1, <3>2, <3>3
    <3>5. Since(front, back, snapFront[p])
      BY <3>1 DEF Snaps
    <3> QED BY <3>1, <3>2, <3>4, <3>5
  <2>3. CASE ~(LoadFront(p) \/ LoadBack(p) \/ ReloadFront(p))
    <3>1. pc'[p] \notin {"load_back", "reload_front"}
      <4>1. CASE Call(p)
        <5>1. PICK op \in Uses[p] : pc' = [pc EXCEPT ![p] = op]
          BY <4>1 DEF Call, Goto
        <5>2. op \in FrontOps \cup BackOps
          BY UsesAssumption
        <5> QED BY <1>t, <5>1, <5>2 DEF FrontOps, BackOps
      <4>2. CASE PushFront(p)
        BY <1>t, <4>2 DEF PushFront, Load, Claim, StoreFront, MoveIn, Publish, Goto
      <4>3. CASE PopFront(p)
        BY <1>t, <4>3 DEF PopFront, Load, Claim, StoreFront, MoveOut, Release, Goto
      <4>4. CASE PushBack(p)
        BY <4>4, NoPushBack
      <4>5. CASE PopBack(p)
        BY <1>t, <4>5 DEF PopBack, Lock, Load, Claim, StoreBack, MoveOut, Release, Goto
      <4>6. CASE Unlock(p) \/ Return(p)
        BY <1>t, <4>6 DEF Unlock, Return, Goto
      <4> QED BY <2>3, <4>1, <4>2, <4>3, <4>4, <4>5, <4>6 DEF Step
    <3> QED BY <3>1
  <2> QED BY <2>1, <2>2, <2>3
<1> QED BY <1>1, <1>2 DEF Snaps

\* Who comes out of an operation without a work has seen the queue empty.
LEMMA TellsTruth ==
  ASSUME PoolUse, PopInv, Snaps, Told, NEW p \in Procs, Call(p) \/ Step(p)
  PROVE  /\ (/\ pc'[p] \in {"return", "unlock"} /\ call[p] \in {"PopFront", "PopBack"}
             /\ hand'[p] = NoWork) => p \in seen \/ ReadySlots' = {}
         /\ (/\ pc'[p] = "return" /\ call[p] = "Empty"
             /\ snapFront'[p].pos = snapBack'[p].pos) => p \in seen
<1> USE DEF PopInv
<1>t. /\ pc \in [Procs -> Labels] /\ hand \in [Procs -> Works \cup {NoWork}]
      /\ snapFront \in [Procs -> Word] /\ snapBack \in [Procs -> Word]
      /\ front \in Word /\ back \in Word
  BY DEF IInv, TypeOK, Labels
<1>c. call[p] \in CallsAt(pc[p])
  BY DEF Calls
<1>1. CASE Call(p)
  <2>1. PICK op \in Uses[p] : pc' = [pc EXCEPT ![p] = op]
    BY <1>1 DEF Call, Goto
  <2>2. op \in FrontOps \cup BackOps
    BY UsesAssumption
  <2>3. pc'[p] \notin {"return", "unlock"}
    BY <1>t, <2>1, <2>2 DEF FrontOps, BackOps
  <2> QED BY <2>3
<1>2. CASE PushFront(p)
  <2>1. pc[p] \in {"PushFront", "pushf_claim", "pushf_store"} \cup Pushing
    <3>1. pc[p] \in {"PushFront", "pushf_claim", "pushf_store", "pushf_move", "pushf_publish"}
      BY <1>2 DEF PushFront, Load, Claim, StoreFront, MoveIn, Publish, Goto
    <3> QED BY <3>1 DEF Pushing
  <2>2. call[p] = "PushFront"
    <3>1. CASE pc[p] = "PushFront"
      BY <1>c, <3>1 DEF CallsAt, Pushing, Popping, BackPushing, BackPopping
    <3>2. CASE pc[p] \in {"pushf_claim", "pushf_store"} \cup Pushing
      BY <1>c, <3>2 DEF CallsAt
    <3> QED BY <2>1, <3>1, <3>2
  <2> QED BY <2>2
<1>3. CASE PopFront(p)
  <2>1. pc[p] \in {"PopFront", "popf_claim"} \cup Popping
    BY <1>3 DEF PopFront, Load, Claim, StoreFront, MoveOut, Release, Goto, Popping
  <2>2. call[p] = "PopFront" /\ p = Owner
    <3>1. call[p] = "PopFront"
      BY <1>c, <2>1 DEF CallsAt, Pushing, Popping, BackPushing, BackPopping
    <3> QED BY <2>1, <3>1 DEF IInv, Control, FrontLabels, FrontOps
  <2>3. CASE pc[p] = "popf_store"
    <3>1. hand'[p] = hand[p] /\ hand[p] \in Works
      <4>1. hand' = hand
        BY <1>3, <2>3 DEF PopFront, Load, Claim, StoreFront, MoveOut, Release, Goto
      <4> QED BY <2>3, <4>1 DEF Hands, Bearing
    <3> QED BY <2>2, <3>1, WorksAssumption
  <2>4. CASE pc[p] \in {"PopFront", "popf_claim"} /\ state[Slot(Prev1(front.pos))] # "Ready"
    <3>1. ReadySlots = {}
      BY <2>2, <2>4, FrontEmpty
    <3>2. UNCHANGED state
      BY <1>3, <2>4 DEF PopFront, Load, Claim, StoreFront, MoveOut, Release, Goto, queue
    <3>3. ReadySlots' = {}
      BY <3>1, <3>2 DEF ReadySlots
    <3> QED BY <2>2, <3>3
  <2>5. CASE \/ pc[p] \in {"popf_move", "popf_release"}
             \/ pc[p] \in {"PopFront", "popf_claim"} /\ state[Slot(Prev1(front.pos))] = "Ready"
    <3>1. pc'[p] \notin {"return", "unlock"}
      BY <1>t, <1>3, <2>5 DEF PopFront, Load, Claim, StoreFront, MoveOut, Release, Goto
    <3> QED BY <3>1
  <2> QED BY <2>1, <2>3, <2>4, <2>5 DEF Popping
<1>4. CASE PushBack(p)
  BY <1>4, NoPushBack
<1>5. CASE PopBack(p)
  <2>1. pc[p] \in {"popb_lock", "popb_load", "popb_claim"} \cup BackPopping
    BY <1>5 DEF PopBack, Lock, Load, Claim, StoreBack, MoveOut, Release, Goto, BackPopping
  <2>2. call[p] = "PopBack"
    BY <1>c, <2>1 DEF CallsAt, Pushing, Popping, BackPushing, BackPopping
  <2>3. CASE pc[p] = "popb_store"
    <3>1. hand'[p] = hand[p] /\ hand[p] \in Works
      <4>1. hand' = hand
        BY <1>5, <2>3 DEF PopBack, Lock, Load, Claim, StoreBack, MoveOut, Release, Goto
      <4> QED BY <2>3, <4>1 DEF Hands, Bearing
    <3> QED BY <2>2, <3>1, WorksAssumption
  <2>4. CASE pc[p] \in {"popb_load", "popb_claim"} /\ state[Slot(back.pos)] # "Ready"
    <3>1. ReadySlots = {}
      BY <2>4, BackEmpty
    <3>2. UNCHANGED state
      BY <1>5, <2>4 DEF PopBack, Lock, Load, Claim, StoreBack, MoveOut, Release, Goto, queue
    <3>3. ReadySlots' = {}
      BY <3>1, <3>2 DEF ReadySlots
    <3> QED BY <2>2, <3>3
  <2>5. CASE \/ pc[p] \in {"popb_lock", "popb_move", "popb_release"}
             \/ pc[p] \in {"popb_load", "popb_claim"} /\ state[Slot(back.pos)] = "Ready"
    <3>1. pc'[p] \notin {"return", "unlock"}
      BY <1>t, <1>5, <2>5 DEF PopBack, Lock, Load, Claim, StoreBack, MoveOut, Release, Goto
    <3> QED BY <3>1
  <2> QED BY <2>1, <2>3, <2>4, <2>5 DEF BackPopping
<1>6. CASE LoadFront(p) \/ LoadBack(p) \/ Return(p)
  BY <1>t, <1>6 DEF LoadFront, LoadBack, Return, Goto
<1>7. CASE ReloadFront(p)
  <2>1. /\ pc[p] = "reload_front" /\ snapFront'[p] = front /\ snapBack' = snapBack
    BY <1>t, <1>7 DEF ReloadFront, Goto
  <2>2. pc'[p] # "unlock" /\ (pc'[p] = "return" => front = snapFront[p]
           /\ (call[p] = "PopBack" => front.pos = snapBack[p].pos))
    BY <1>t, <1>7 DEF ReloadFront, Goto
  <2>3. front = snapFront[p] /\ front.pos = snapBack[p].pos => p \in seen
    BY <2>1 DEF Snaps
  <2>4. call[p] # "PopFront"
    BY <1>c, <2>1 DEF CallsAt, Pushing, Popping, BackPushing, BackPopping
  <2> QED BY <2>1, <2>2, <2>3, <2>4
<1>8. CASE Unlock(p)
  <2>1. hand' = hand /\ pc[p] = "unlock"
    BY <1>8 DEF Unlock, Goto
  <2>2. call[p] # "Empty"
    BY <1>c, <2>1 DEF CallsAt, Pushing, Popping, BackPushing, BackPopping
  <2> QED BY <2>1, <2>2 DEF Told
<1> QED BY <1>1, <1>2, <1>3, <1>4, <1>5, <1>6, <1>7, <1>8 DEF Step

LEMMA CallOrSame ==
  ASSUME PopInv, NEW p \in Procs, Call(p) \/ Step(p), pc'[p] \in {"return", "unlock"}
  PROVE  call' = call
<1>t. pc \in [Procs -> Labels]
  BY DEF PopInv, IInv, TypeOK, Labels
<1>1. CASE Call(p)
  <2>1. PICK op \in Uses[p] : pc' = [pc EXCEPT ![p] = op]
    BY <1>1 DEF Call, Goto
  <2>2. op \in FrontOps \cup BackOps
    BY UsesAssumption
  <2> QED BY <1>t, <2>1, <2>2 DEF FrontOps, BackOps
<1>2. CASE PushFront(p)
  BY <1>2 DEF PushFront, Load, Claim, StoreFront, MoveIn, Publish
<1>3. CASE PopFront(p)
  BY <1>3 DEF PopFront, Load, Claim, StoreFront, MoveOut, Release
<1>4. CASE PushBack(p)
  BY <1>4 DEF PushBack, Lock, Load, Claim, StoreBack, MoveIn, Publish
<1>5. CASE PopBack(p)
  BY <1>5 DEF PopBack, Lock, Load, Claim, StoreBack, MoveOut, Release
<1>6. CASE LoadFront(p) \/ LoadBack(p) \/ ReloadFront(p) \/ Unlock(p)
  BY <1>6 DEF LoadFront, LoadBack, ReloadFront, Unlock
<1>7. CASE Return(p)
  BY <1>t, <1>7 DEF Return, Goto
<1> QED BY <1>1, <1>2, <1>3, <1>4, <1>5, <1>6, <1>7 DEF Step

LEMMA ToldStep ==
  ASSUME PoolUse, PopInv, Snaps, Told, NEW p \in Procs, Call(p) \/ Step(p), Watch, Calls'
  PROVE  Told'
<1>w. ASSUME NEW q \in Procs, pc'[q] \in {"return", "unlock"}, q \in seen \/ ReadySlots' = {}
      PROVE  q \in seen'
  <2>1. call'[q] # "idle"
    BY <1>w DEF Calls, CallsAt, Pushing, Popping, BackPushing, BackPopping, FrontOps, BackOps
  <2> QED BY <1>w, <2>1 DEF Watch
<1>1. ASSUME NEW q \in Procs
      PROVE  /\ (/\ pc'[q] \in {"return", "unlock"} /\ call'[q] \in {"PopFront", "PopBack"}
                 /\ hand'[q] = NoWork) => q \in seen'
             /\ (/\ pc'[q] = "return" /\ call'[q] = "Empty"
                 /\ snapFront'[q].pos = snapBack'[q].pos) => q \in seen'
  <2>1. CASE q # p
    <3>1. /\ pc'[q] = pc[q] /\ call'[q] = call[q] /\ hand'[q] = hand[q]
          /\ snapFront'[q] = snapFront[q] /\ snapBack'[q] = snapBack[q]
      BY <2>1, OthersKeep DEF PopInv
    <3> QED BY <1>w, <3>1 DEF Told
  <2>2. CASE q = p
    <3>1. pc'[p] \in {"return", "unlock"} => call'[p] = call[p]
      BY CallOrSame
    <3> QED BY <1>w, <2>2, <3>1, TellsTruth
  <2> QED BY <2>1, <2>2
<1> QED BY <1>1 DEF Told

TellInv == PopInv /\ FrontCount /\ Snaps /\ Told

LEMMA TellInvInit == PoolUse /\ Init => TellInv
<1> SUFFICES ASSUME PoolUse, Init PROVE TellInv
  OBVIOUS
<1>1. PopInv
  BY PopInvInit
<1>2. \A p \in Procs : pc[p] = "idle"
  BY DEF Init
<1>3. FrontCount
  BY <1>2 DEF Init, FrontCount, PoolUse, Procs
<1>4. Snaps /\ Told
  BY <1>2 DEF Snaps, Told
<1> QED BY <1>1, <1>3, <1>4 DEF TellInv

LEMMA TellInvStep == PoolUse /\ TellInv /\ [Next]_vars => TellInv'
<1> SUFFICES ASSUME PoolUse, TellInv, [Next]_vars PROVE TellInv'
  OBVIOUS
<1>1. PopInv'
  BY PopInvStep DEF TellInv
<1>2. CASE UNCHANGED vars
  BY <1>1, <1>2 DEF vars, queue, snap, TellInv, FrontCount, Snaps, Told
<1>3. CASE Next
  <2>1. PICK p \in Procs : Call(p) \/ Step(p)
    BY <1>3 DEF Next
  <2>2. Watch /\ Calls'
    BY <1>1, <1>3 DEF Next, PopInv
  <2>3. FrontCount'
    BY <2>1, FrontCountStep DEF TellInv, PopInv
  <2>4. Snaps'
    BY <2>1, <2>2, SnapsStep DEF TellInv
  <2>5. Told'
    BY <2>1, <2>2, ToldStep DEF TellInv
  <2> QED BY <1>1, <2>3, <2>4, <2>5 DEF TellInv
<1> QED BY <1>2, <1>3

LEMMA Telling == PoolUse => (Spec => []TellInv)
<1> SUFFICES ASSUME PoolUse PROVE Spec => []TellInv
  OBVIOUS
<1>1. Init => TellInv
  BY TellInvInit
<1>2. TellInv /\ [Next]_vars => TellInv'
  BY TellInvStep
<1> QED BY <1>1, <1>2, PTL DEF Spec

\* A queue that the pool uses is not called empty, and a pop does not come
\* back with nothing, unless the queue was empty at some instant of the call,
\* although front_ and back_ are read one after the other (comment at lines
\* 199-200).
THEOREM EmptyOnlyIfEmpty == PoolUse => (Spec => []EmptyIsTrue)
<1> SUFFICES ASSUME PoolUse PROVE Spec => []EmptyIsTrue
  OBVIOUS
<1>1. TellInv => EmptyIsTrue
  BY DEF TellInv, Told, EmptyIsTrue
<1>2. Spec => []TellInv
  BY Telling
<1> QED BY <1>1, <1>2, PTL

-----------------------------------------------------------------------------
(* The published works as a sequence.                                      *)

\* The i-th position from b on, and the works of n positions.
Around(b, i) == IF b + i - 1 >= 2 * K THEN b + i - 1 - 2 * K ELSE b + i - 1
Line(w, b, n) == [i \in 1 .. n |-> w[Slot(Around(b, i))]]

LEMMA AroundIn ==
  ASSUME NEW b \in Positions, NEW n \in Nat, n <= K, NEW i \in 1 .. n
  PROVE  /\ Around(b, i) \in Positions /\ Slot(Around(b, i)) \in Slots
         /\ Offset(Slot(Around(b, i)), Slot(b)) = i - 1
<1>1. Around(b, i) \in Positions
  BY KAssumption DEF Around, Positions
<1>2. Offset(Slot(Around(b, i)), Slot(b)) = i - 1
  BY KAssumption DEF Around, Positions, Slot, Offset
<1> QED BY <1>1, <1>2, SlotType

LEMMA LineInSeq ==
  ASSUME NEW S, NEW w \in [Slots -> S], NEW b \in Positions, NEW n \in Nat, n <= K
  PROVE  Line(w, b, n) \in Seq(S) /\ Len(Line(w, b, n)) = n
<1>1. \A i \in 1 .. n : w[Slot(Around(b, i))] \in S
  BY AroundIn
<1>2. Line(w, b, n) \in [1 .. n -> S]
  BY <1>1 DEF Line
<1> QED BY <1>2

\* A published work that is not touched stays where it is.
LEMMA LineSame ==
  ASSUME NEW st, NEW b \in Positions, NEW f \in Positions, Region(st, b, f),
         NEW v, NEW w, \A s \in Slots : st[s] = "Ready" => v[s] = w[s]
  PROVE  Line(v, b, Dist(b, f)) = Line(w, b, Dist(b, f))
<1>1. PICK n : n = Dist(b, f)
  OBVIOUS
<1>2. n \in Nat /\ n <= K
  BY <1>1, KAssumption DEF Region, Dist, Positions
<1>3. ASSUME NEW i \in 1 .. n PROVE v[Slot(Around(b, i))] = w[Slot(Around(b, i))]
  <2>1. Slot(Around(b, i)) \in Slots /\ Offset(Slot(Around(b, i)), Slot(b)) = i - 1
    BY <1>2, AroundIn
  <2>2. i - 1 < n
    BY <1>2
  <2>3. st[Slot(Around(b, i))] = "Ready"
    BY <1>1, <2>1, <2>2 DEF Region
  <2> QED BY <2>1, <2>3
<1>4. Line(v, b, n) = Line(w, b, n)
  BY <1>3 DEF Line
<1> QED BY <1>1, <1>4

LEMMA LineElements ==
  ASSUME NEW st, NEW b \in Positions, NEW f \in Positions, Region(st, b, f), NEW w,
         NEW i \in 1 .. Dist(b, f)
  PROVE  \E s \in Slots : st[s] = "Ready" /\ Line(w, b, Dist(b, f))[i] = w[s]
<1>1. PICK n : n = Dist(b, f)
  OBVIOUS
<1>2. n \in Nat /\ n <= K
  BY <1>1, KAssumption DEF Region, Dist, Positions
<1>3. i \in 1 .. n
  BY <1>1
<1>4. Slot(Around(b, i)) \in Slots /\ Offset(Slot(Around(b, i)), Slot(b)) = i - 1
  BY <1>2, <1>3, AroundIn
<1>5. i - 1 < n
  BY <1>2, <1>3
<1>6. st[Slot(Around(b, i))] = "Ready"
  BY <1>1, <1>4, <1>5 DEF Region
<1>7. Line(w, b, n)[i] = w[Slot(Around(b, i))]
  BY <1>3 DEF Line
<1> QED BY <1>1, <1>4, <1>6, <1>7

\* A push at the front appends.
LEMMA LineAppend ==
  ASSUME NEW S, NEW w \in [Slots -> S], NEW b \in Positions, NEW f \in Positions, Dist(b, f) < K
  PROVE  /\ Dist(b, Next1(f)) = Dist(b, f) + 1
         /\ Line(w, b, Dist(b, Next1(f))) = Append(Line(w, b, Dist(b, f)), w[Slot(f)])
<1>1. PICK n : n = Dist(b, f)
  OBVIOUS
<1>2. n \in Nat /\ n < K
  BY <1>1, KAssumption DEF Dist, Positions
<1>3. Dist(b, Next1(f)) = n + 1
  BY <1>1, <1>2, KAssumption DEF Dist, Positions, Next1
<1>4. Around(b, n + 1) = f
  BY <1>1, <1>2, KAssumption DEF Dist, Positions, Around
<1>5. Line(w, b, n) \in Seq(S) /\ Len(Line(w, b, n)) = n
  <2>1. n <= K
    BY <1>2, KAssumption
  <2> QED BY <1>2, <2>1, LineInSeq
<1>6. w[Slot(f)] \in S
  BY SlotType
<1>7. Line(w, b, n + 1) = Append(Line(w, b, n), w[Slot(f)])
  <2>1. Line(w, b, n + 1) \in Seq(S) /\ Len(Line(w, b, n + 1)) = n + 1
    <3>1. n + 1 \in Nat /\ n + 1 <= K
      BY <1>2, KAssumption
    <3> QED BY <3>1, LineInSeq
  <2>2. PICK u \in Seq(S), x \in S : u = Line(w, b, n) /\ x = w[Slot(f)]
    BY <1>5, <1>6
  <2>3. PICK t \in Seq(S) : t = Line(w, b, n + 1)
    BY <2>1
  <2>4. Len(t) = Len(Append(u, x)) /\ Append(u, x) \in Seq(S)
    BY <1>2, <1>5, <2>1, <2>2, <2>3
  <2>5. ASSUME NEW i \in 1 .. Len(t) PROVE t[i] = Append(u, x)[i]
    <3>1. i \in 1 .. n + 1 /\ Len(u) = n
      BY <1>5, <2>1, <2>2, <2>3, <2>5
    <3>2. t[i] = w[Slot(Around(b, i))]
      BY <2>3, <3>1 DEF Line
    <3>3. CASE i = n + 1
      BY <1>2, <1>4, <2>2, <3>1, <3>2, <3>3
    <3>4. CASE i # n + 1
      <4>1. i \in 1 .. n
        BY <1>2, <3>1, <3>4
      <4>2. u[i] = w[Slot(Around(b, i))]
        BY <2>2, <4>1 DEF Line
      <4> QED BY <3>1, <3>2, <4>1, <4>2
    <3> QED BY <3>3, <3>4
  <2>6. t = Append(u, x)
    BY <2>4, <2>5
  <2> QED BY <2>2, <2>3, <2>6
<1> QED BY <1>1, <1>3, <1>7

\* A pop at the front drops the last work.
LEMMA LineDropLast ==
  ASSUME NEW S, NEW w \in [Slots -> S], NEW b \in Positions, NEW f \in Positions,
         Dist(b, f) <= K, Dist(b, f) # 0
  PROVE  LET t == Line(w, b, Dist(b, f))
         IN  /\ Len(t) = Dist(b, f) /\ t # <<>>
             /\ t[Len(t)] = w[Slot(Prev1(f))]
             /\ Line(w, b, Dist(b, Prev1(f))) = SubSeq(t, 1, Len(t) - 1)
<1>1. PICK g \in Positions : g = Prev1(f)
  BY SlotType
<1>2. PICK n : n = Dist(b, g)
  OBVIOUS
<1>3. Dist(b, f) = n + 1 /\ n \in Nat /\ n < K /\ Next1(g) = f
  BY <1>1, <1>2, KAssumption DEF Dist, Positions, Prev1, Next1
<1>4. PICK u \in Seq(S) : u = Line(w, b, n) /\ Len(u) = n
  <2>1. n <= K
    BY <1>3, KAssumption
  <2>2. /\ Line(w, b, n) \in Seq(S) /\ Len(Line(w, b, n)) = n
    BY <1>3, <2>1, LineInSeq
  <2> QED BY <2>2
<1>5. PICK x : x = w[Slot(g)] /\ x \in S
  <2>1. Slot(g) \in Slots
    BY <1>1, SlotType
  <2>2. w[Slot(g)] \in S
    BY ONLY <2>1, w \in [Slots -> S]
  <2> QED BY ONLY <2>2
<1>6. Line(w, b, n + 1) = Append(u, x)
  BY <1>2, <1>3, <1>4, <1>5, LineAppend
<1>7. /\ Len(Append(u, x)) = n + 1 /\ Append(u, x) # <<>>
      /\ Append(u, x)[n + 1] = x /\ SubSeq(Append(u, x), 1, n) = u
  BY <1>3, <1>4
<1>8. n + 1 - 1 = n
  BY <1>3
<1> QED BY <1>1, <1>2, <1>3, <1>4, <1>5, <1>6, <1>7, <1>8

\* A pop at the back drops the first.
LEMMA LineTail ==
  ASSUME NEW S, NEW w \in [Slots -> S], NEW b \in Positions, NEW f \in Positions,
         Dist(b, f) <= K, Dist(b, f) # 0
  PROVE  LET t == Line(w, b, Dist(b, f))
         IN  /\ t # <<>> /\ Head(t) = w[Slot(b)]
             /\ Line(w, Next1(b), Dist(Next1(b), f)) = Tail(t)
<1>1. PICK c \in Positions : c = Next1(b)
  BY SlotType
<1>2. PICK n : n = Dist(c, f)
  OBVIOUS
<1>3. Dist(b, f) = n + 1 /\ n \in Nat /\ n < K
  BY <1>1, <1>2, KAssumption DEF Dist, Positions, Next1
<1>4. PICK u \in Seq(S) : u = Line(w, c, n) /\ Len(u) = n
  <2>1. n <= K
    BY <1>3, KAssumption
  <2>2. /\ Line(w, c, n) \in Seq(S) /\ Len(Line(w, c, n)) = n
    BY <1>3, <2>1, LineInSeq
  <2> QED BY <2>2
<1>5. PICK t \in Seq(S) : t = Line(w, b, n + 1) /\ Len(t) = n + 1
  <2>1. n + 1 \in Nat /\ n + 1 <= K
    BY <1>3, KAssumption
  <2> QED BY <2>1, LineInSeq
<1>6. t # <<>> /\ Head(t) = t[1] /\ Tail(t) \in Seq(S) /\ Len(Tail(t)) = n
  BY <1>3, <1>5
<1>7. t[1] = w[Slot(b)]
  <2>1. 1 \in 1 .. n + 1 /\ Around(b, 1) = b
    BY <1>3, KAssumption DEF Around, Positions
  <2> QED BY <1>5, <2>1 DEF Line
<1>8. ASSUME NEW i \in 1 .. n PROVE u[i] = Tail(t)[i]
  <2>1. Tail(t)[i] = t[i + 1]
    BY <1>3, <1>5, <1>6
  <2>2. i + 1 \in 1 .. n + 1
    BY <1>3
  <2>3. t[i + 1] = w[Slot(Around(b, i + 1))]
    BY <1>5, <2>2 DEF Line
  <2>4. u[i] = w[Slot(Around(c, i))]
    BY <1>4 DEF Line
  <2>5. Around(b, i + 1) = Around(c, i)
    BY <1>1, <1>3, KAssumption DEF Around, Positions, Next1
  <2> QED BY <2>1, <2>3, <2>4, <2>5
<1>9. u = Tail(t)
  BY <1>4, <1>6, <1>8
<1> QED BY <1>1, <1>2, <1>3, <1>4, <1>5, <1>6, <1>7, <1>9

-----------------------------------------------------------------------------
(* Where a step takes effect.                                              *)

LEMMA NotFrom ==
  ASSUME NEW p \in Procs, NEW l, Call(p) \/ Step(p), pc[p] = l
  PROVE  /\ l = "pushf_publish" => Publish(p, "pushf_publish", Slot(Prev1(front.pos)), "return")
         /\ l = "pushf_store" => StoreFront(p, "pushf_store", Up(front), "pushf_move")
         /\ l = "popf_store" => StoreFront(p, "popf_store", Down(front), "return")
         /\ l = "popb_store" => StoreBack(p, "popb_store", Up(back), "unlock")
<1>1. CASE Call(p)
  BY <1>1 DEF Call, Goto
<1>2. CASE PushFront(p)
  BY <1>2 DEF PushFront, Load, Claim, StoreFront, MoveIn, Publish, Goto
<1>3. CASE PopFront(p)
  BY <1>3 DEF PopFront, Load, Claim, StoreFront, MoveOut, Release, Goto
<1>4. CASE PushBack(p)
  BY <1>4 DEF PushBack, Lock, Load, Claim, StoreBack, MoveIn, Publish, Goto
<1>5. CASE PopBack(p)
  BY <1>5 DEF PopBack, Lock, Load, Claim, StoreBack, MoveOut, Release, Goto
<1>6. CASE LoadFront(p) \/ LoadBack(p) \/ ReloadFront(p) \/ Unlock(p) \/ Return(p)
  BY <1>6 DEF LoadFront, LoadBack, ReloadFront, Unlock, Return, Goto
<1> QED BY <1>1, <1>2, <1>3, <1>4, <1>5, <1>6 DEF Step

\* A pop claims a published work.
LEMMA ClaimsFrom ==
  ASSUME IInv, NEW p \in Procs, Call(p) \/ Step(p), pc'[p] \in {"popf_move", "popb_move"}
  PROVE  /\ UNCHANGED <<front, back, work, mutex, call, hand>>
         /\ pc'[p] = "popf_move" => pc[p] = "popf_claim" /\ state[Slot(Prev1(front.pos))] = "Ready"
         /\ pc'[p] = "popb_move" => pc[p] = "popb_claim" /\ state[Slot(back.pos)] = "Ready"
<1>t. pc \in [Procs -> Labels]
  BY DEF IInv, TypeOK, Labels
<1>1. CASE Call(p)
  <2>1. PICK op \in Uses[p] : pc' = [pc EXCEPT ![p] = op]
    BY <1>1 DEF Call, Goto
  <2>2. op \in FrontOps \cup BackOps
    BY UsesAssumption
  <2> QED BY <1>t, <2>1, <2>2 DEF FrontOps, BackOps
<1>2. CASE PushFront(p)
  BY <1>t, <1>2 DEF PushFront, Load, Claim, StoreFront, MoveIn, Publish, Goto
<1>3. CASE PopFront(p)
  <2>c. Claim(p, "popf_claim", Slot(Prev1(front.pos)), "Ready", "popf_move", "return")
    BY <1>3, <1>t DEF PopFront, Load, StoreFront, MoveOut, Release, Goto
  <2> QED BY <1>t, <2>c DEF Claim, Goto
<1>4. CASE PushBack(p)
  BY <1>t, <1>4 DEF PushBack, Lock, Load, Claim, StoreBack, MoveIn, Publish, Goto
<1>5. CASE PopBack(p)
  <2>c. Claim(p, "popb_claim", Slot(back.pos), "Ready", "popb_move", "unlock")
    BY <1>5, <1>t DEF PopBack, Lock, Load, StoreBack, MoveOut, Release, Goto
  <2> QED BY <1>t, <2>c DEF Claim, Goto
<1>6. CASE LoadFront(p) \/ LoadBack(p) \/ ReloadFront(p) \/ Unlock(p) \/ Return(p)
  BY <1>t, <1>6 DEF LoadFront, LoadBack, ReloadFront, Unlock, Return, Goto
<1> QED BY <1>1, <1>2, <1>3, <1>4, <1>5, <1>6 DEF Step

\* Only three steps start or stop moving an end without storing it: a push
\* that publishes and a pop that claims.
LEMMA MovingKeeps ==
  ASSUME PoolUse, IInv, Calls, NEW p \in Procs, Call(p) \/ Step(p),
         pc[p] \notin {"pushf_publish", "pushf_store", "popf_store", "popb_store"},
         pc'[p] \notin {"popf_move", "popb_move"}
  PROVE  /\ pc'[p] \in Popping \cup Pushing <=> pc[p] \in Popping \cup Pushing
         /\ pc'[p] \in BackPopping \cup BackPushing <=> pc[p] \in BackPopping \cup BackPushing
         /\ front' = front /\ back' = back
<1>t. pc \in [Procs -> Labels]
  BY DEF IInv, TypeOK, Labels
<1> USE DEF Popping, Pushing, BackPopping, BackPushing
<1>1. CASE Call(p)
  <2>1. PICK op \in Uses[p] : pc' = [pc EXCEPT ![p] = op] /\ pc[p] = "idle"
    BY <1>1 DEF Call, Goto
  <2>2. op \in FrontOps \cup BackOps
    BY UsesAssumption
  <2>3. front' = front /\ back' = back
    BY <1>1 DEF Call, queue
  <2> QED BY <1>t, <2>1, <2>2, <2>3 DEF FrontOps, BackOps
<1>2. CASE PushFront(p)
  BY <1>t, <1>2 DEF PushFront, Load, Claim, StoreFront, MoveIn, Publish, Goto, queue
<1>3. CASE PopFront(p)
  BY <1>t, <1>3 DEF PopFront, Load, Claim, StoreFront, MoveOut, Release, Goto, queue
<1>4. CASE PushBack(p)
  BY <1>4, NoPushBack
<1>5. CASE PopBack(p)
  BY <1>t, <1>5 DEF PopBack, Lock, Load, Claim, StoreBack, MoveOut, Release, Goto, queue
<1>6. CASE LoadFront(p) \/ LoadBack(p) \/ ReloadFront(p) \/ Unlock(p) \/ Return(p)
  BY <1>t, <1>6 DEF LoadFront, LoadBack, ReloadFront, Unlock, Return, Goto, queue
<1> QED BY <1>1, <1>2, <1>3, <1>4, <1>5, <1>6 DEF Step

LEMMA EndsOfStep ==
  ASSUME PoolUse, IInv, Calls, NEW p \in Procs, Call(p) \/ Step(p)
  PROVE  /\ pc[p] = "pushf_publish" =>
              TrueBack' = TrueBack /\ TrueFront = Prev1(front.pos) /\ TrueFront' = front.pos
         /\ pc'[p] = "popf_move" =>
              TrueBack' = TrueBack /\ TrueFront = front.pos /\ TrueFront' = Prev1(front.pos)
         /\ pc'[p] = "popb_move" =>
              TrueFront' = TrueFront /\ TrueBack = back.pos /\ TrueBack' = Next1(back.pos)
         /\ pc[p] # "pushf_publish" /\ pc'[p] \notin {"popf_move", "popb_move"} =>
              TrueFront' = TrueFront /\ TrueBack' = TrueBack
<1>t. pc \in [Procs -> Labels] /\ front.pos \in Positions /\ back.pos \in Positions
  BY DEF IInv, TypeOK, Labels, Word
<1>l. PICK l : pc' = [pc EXCEPT ![p] = l] /\ pc'[p] = l
  <2>1. PICK l : pc' = [pc EXCEPT ![p] = l]
    BY StepMovesOne
  <2> QED BY <1>t, <2>1
<1>f. pc[p] \in FrontLabels => p = Owner
  BY DEF IInv, Control
<1>m. pc[p] \in InMutex => mutex = p
  BY DEF IInv, Control
<1>fs. l \in Popping \cup Pushing <=> pc[p] \in Popping \cup Pushing => (FrontMoving' <=> FrontMoving)
  BY <1>l, FrontSame DEF IInv
<1>bs. l \in BackPopping \cup BackPushing <=> pc[p] \in BackPopping \cup BackPushing
         => (BackMoving' <=> BackMoving)
  BY <1>l, BackSame DEF IInv
<1>ff. p = Owner => (FrontMoving' <=> l \in Popping \cup Pushing)
  BY <1>l, FrontSet DEF IInv
<1>bb. mutex = p => /\ BackMoving <=> pc[p] \in BackPopping \cup BackPushing
                    /\ BackMoving' <=> l \in BackPopping \cup BackPushing
  BY <1>l, BackSet DEF IInv
<1>fm. p = Owner => (FrontMoving <=> pc[p] \in Popping \cup Pushing)
  BY DEF FrontMoving
<1> USE DEF FrontLabels, FrontOps, InMutex, Popping, Pushing, BackPopping, BackPushing
<1>1. CASE pc[p] = "pushf_publish"
  <2>1. Publish(p, "pushf_publish", Slot(Prev1(front.pos)), "return")
    BY <1>1, NotFrom
  <2>2. pc'[p] = "return" /\ front' = front /\ back' = back
    BY <1>t, <2>1 DEF Publish, Goto
  <2>3. FrontMoving /\ ~FrontMoving' /\ (BackMoving' <=> BackMoving)
    BY <1>1, <1>l, <1>f, <1>ff, <1>fm, <1>bs, <2>2
  <2> QED BY <1>1, <2>2, <2>3 DEF TrueFront, TrueBack
<1>2. CASE pc'[p] = "popf_move"
  <2>1. front' = front /\ back' = back /\ pc[p] = "popf_claim"
    BY <1>2, ClaimsFrom
  <2>3. ~FrontMoving /\ FrontMoving' /\ (BackMoving' <=> BackMoving)
    BY <1>2, <1>l, <1>f, <1>ff, <1>fm, <1>bs, <2>1
  <2> QED BY <1>2, <2>1, <2>3 DEF TrueFront, TrueBack
<1>3. CASE pc'[p] = "popb_move"
  <2>1. front' = front /\ back' = back /\ pc[p] = "popb_claim"
    BY <1>3, ClaimsFrom
  <2>3. ~BackMoving /\ BackMoving' /\ (FrontMoving' <=> FrontMoving)
    BY <1>3, <1>l, <1>m, <1>bb, <1>fs, <2>1
  <2> QED BY <1>3, <2>1, <2>3 DEF TrueFront, TrueBack
<1>4. CASE pc[p] = "pushf_store"
  <2>1. StoreFront(p, "pushf_store", Up(front), "pushf_move")
    BY <1>4, NotFrom
  <2>2. pc'[p] = "pushf_move" /\ front'.pos = Next1(front.pos) /\ back' = back
    BY <1>t, <2>1 DEF StoreFront, Goto, Up
  <2>3. ~FrontMoving /\ FrontMoving' /\ (BackMoving' <=> BackMoving)
    BY <1>4, <1>l, <1>f, <1>ff, <1>fm, <1>bs, <2>2
  <2>4. Prev1(Next1(front.pos)) = front.pos
    BY <1>t, NextPrev
  <2> QED BY <1>4, <2>2, <2>3, <2>4 DEF TrueFront, TrueBack
<1>5. CASE pc[p] = "popf_store"
  <2>1. StoreFront(p, "popf_store", Down(front), "return")
    BY <1>5, NotFrom
  <2>2. pc'[p] = "return" /\ front'.pos = Prev1(front.pos) /\ back' = back
    BY <1>t, <2>1 DEF StoreFront, Goto, Down
  <2>3. FrontMoving /\ ~FrontMoving' /\ (BackMoving' <=> BackMoving)
    BY <1>5, <1>l, <1>f, <1>ff, <1>fm, <1>bs, <2>2
  <2> QED BY <1>5, <2>2, <2>3 DEF TrueFront, TrueBack
<1>6. CASE pc[p] = "popb_store"
  <2>1. StoreBack(p, "popb_store", Up(back), "unlock")
    BY <1>6, NotFrom
  <2>2. pc'[p] = "unlock" /\ back'.pos = Next1(back.pos) /\ front' = front
    BY <1>t, <2>1 DEF StoreBack, Goto, Up
  <2>3. BackMoving /\ ~BackMoving' /\ (FrontMoving' <=> FrontMoving)
    BY <1>6, <1>l, <1>m, <1>bb, <1>fs, <2>2
  <2> QED BY <1>6, <2>2, <2>3 DEF TrueFront, TrueBack
<1>7. CASE /\ pc[p] \notin {"pushf_publish", "pushf_store", "popf_store", "popb_store"}
           /\ pc'[p] \notin {"popf_move", "popb_move"}
  <2>1. front' = front /\ back' = back /\ (FrontMoving' <=> FrontMoving) /\ (BackMoving' <=> BackMoving)
    BY <1>7, <1>l, <1>fs, <1>bs, MovingKeeps
  <2> QED BY <1>7, <2>1 DEF TrueFront, TrueBack
<1> QED BY <1>1, <1>2, <1>3, <1>4, <1>5, <1>6, <1>7

-----------------------------------------------------------------------------
(* The queue implements Deque.                                             *)

\* What a thread has, in the sense of Deque.
TakenAt(l, w, f, b, h) == IF l = "popf_move" THEN w[Slot(Prev1(f))]
                          ELSE IF l = "popb_move" THEN w[Slot(b)] ELSE h

LEMMA TakenIs ==
  Taken = [p \in Procs |-> TakenAt(pc[p], work, front.pos, back.pos, hand[p])]
BY DEF Taken, TakenAt

LEMMA OthersTaken ==
  ASSUME IInv, NEW p \in Procs, Call(p) \/ Step(p), NEW q \in Procs, q # p
  PROVE  Taken'[q] = Taken[q]
<1>t. front.pos \in Positions /\ back.pos \in Positions
  BY DEF IInv, TypeOK, Word
<1>1. pc'[q] = pc[q] /\ hand'[q] = hand[q]
  BY OthersKeep
<1>2. Taken[q] = TakenAt(pc[q], work, front.pos, back.pos, hand[q])
  BY TakenIs
<1>3. Taken'[q] = TakenAt(pc[q], work', front'.pos, back'.pos, hand[q])
  BY <1>1 DEF Taken, TakenAt
<1>h. Held[q] = HeldAt(pc[q], front.pos, back.pos)
  BY DEF Held
<1>x. \A s \in Held[q] : s \in Slots => work'[s] = work[s]
  <2>1. Held[q] \cap Held[p] = {}
    BY DEF IInv, SlotExclusion, Owned
  <2> QED BY <2>1, TouchesOwn
<1>4. CASE pc[q] = "popf_move"
  <2>1. q = Owner
    BY <1>4 DEF IInv, Control, FrontLabels, Popping
  <2>2. front' = front
    BY <2>1, EndsMove
  <2>3. Slot(Prev1(front.pos)) \in Slots /\ Slot(Prev1(front.pos)) \in Held[q]
    BY <1>t, <1>4, <1>h, SlotType DEF HeldAt
  <2> QED BY <1>2, <1>3, <1>4, <1>x, <2>2, <2>3 DEF TakenAt
<1>5. CASE pc[q] = "popb_move"
  <2>1. mutex = q
    BY <1>5 DEF IInv, Control, InMutex, BackPopping
  <2>2. back' = back
    BY <2>1, EndsMove
  <2>3. Slot(back.pos) \in Slots /\ Slot(back.pos) \in Held[q]
    BY <1>t, <1>5, <1>h, SlotType DEF HeldAt
  <2> QED BY <1>2, <1>3, <1>5, <1>x, <2>2, <2>3 DEF TakenAt
<1>6. CASE pc[q] \notin {"popf_move", "popb_move"}
  BY <1>2, <1>3, <1>6 DEF TakenAt
<1> QED BY <1>4, <1>5, <1>6

\* Only the step of the thread itself changes what it has.
LEMMA TakenMoves ==
  ASSUME IInv, NEW p \in Procs, Call(p) \/ Step(p), NEW t, Taken'[p] = t
  PROVE  Taken' = [Taken EXCEPT ![p] = t]
<1>1. \A q \in Procs : Taken'[q] = IF q = p THEN t ELSE Taken[q]
  BY OthersTaken
<1>2. Taken' = [q \in Procs |-> Taken'[q]]
  BY DEF Taken
<1>3. Taken = [q \in Procs |-> Taken[q]]
  BY DEF Taken
<1> DEFINE old == Taken  new == Taken'
<1>4. /\ \A q \in Procs : new[q] = IF q = p THEN t ELSE old[q]
      /\ new = [q \in Procs |-> new[q]] /\ old = [q \in Procs |-> old[q]]
  BY <1>1, <1>2, <1>3
<1> HIDE DEF old, new
<1>5. new = [old EXCEPT ![p] = t]
  BY <1>4
<1> QED BY <1>5 DEF old, new

\* A push publishes the work that was in its hand.
Laid == \A p \in Procs : pc[p] = "pushf_publish" => work[Slot(Prev1(front.pos))] = hand[p]

LEMMA LaidStep ==
  ASSUME IInv, Laid, NEW p \in Procs, Call(p) \/ Step(p)
  PROVE  Laid'
<1>t. /\ pc \in [Procs -> Labels] /\ work \in [Slots -> Works \cup {NoWork}]
      /\ front.pos \in Positions
  BY DEF IInv, TypeOK, Labels, Word
<1>s. Slot(Prev1(front.pos)) \in Slots
  BY <1>t, SlotType
<1>1. ASSUME NEW q \in Procs, q # p, pc'[q] = "pushf_publish"
      PROVE  work'[Slot(Prev1(front'.pos))] = hand'[q]
  <2>1. pc[q] = "pushf_publish" /\ hand'[q] = hand[q]
    BY <1>1, OthersKeep
  <2>2. q = Owner
    BY <2>1 DEF IInv, Control, FrontLabels, Pushing
  <2>3. front' = front
    BY <1>1, <2>2, EndsMove
  <2>4. Slot(Prev1(front.pos)) \in Held[q]
    BY <2>1 DEF Held, HeldAt
  <2>5. Slot(Prev1(front.pos)) \notin Held[p]
    BY <1>1, <2>4 DEF IInv, SlotExclusion, Owned
  <2> QED BY <1>s, <2>1, <2>3, <2>5, TouchesOwn DEF Laid
<1>2. ASSUME pc'[p] = "pushf_publish"
      PROVE  work'[Slot(Prev1(front'.pos))] = hand'[p]
  <2>1. CASE Call(p)
    <3>1. PICK op \in Uses[p] : pc' = [pc EXCEPT ![p] = op]
      BY <2>1 DEF Call, Goto
    <3>2. op \in FrontOps \cup BackOps
      BY UsesAssumption
    <3> QED BY <1>2, <1>t, <3>1, <3>2 DEF FrontOps, BackOps
  <2>2. CASE PushFront(p)
    <3>c. MoveIn(p, "pushf_move", Slot(Prev1(front.pos)), "pushf_publish")
      BY <1>2, <2>2, <1>t DEF PushFront, Load, Claim, StoreFront, Publish, Goto
    <3> QED BY <1>t, <1>s, <3>c DEF MoveIn
  <2>3. CASE PopFront(p)
    BY <1>2, <2>3, <1>t DEF PopFront, Load, Claim, StoreFront, MoveOut, Release, Goto
  <2>4. CASE PushBack(p)
    BY <1>2, <2>4, <1>t DEF PushBack, Lock, Load, Claim, StoreBack, MoveIn, Publish, Goto
  <2>5. CASE PopBack(p)
    BY <1>2, <2>5, <1>t DEF PopBack, Lock, Load, Claim, StoreBack, MoveOut, Release, Goto
  <2>6. CASE LoadFront(p) \/ LoadBack(p) \/ ReloadFront(p) \/ Unlock(p) \/ Return(p)
    BY <1>2, <2>6, <1>t DEF LoadFront, LoadBack, ReloadFront, Unlock, Return, Goto
  <2> QED BY <2>1, <2>2, <2>3, <2>4, <2>5, <2>6 DEF Step
<1> QED BY <1>1, <1>2 DEF Laid

\* Who is in a call has watched: after an instant with no work published,
\* everybody who is in a call has seen it.
Watching == seen = {p \in Procs : call[p] # "idle" /\ (p \in seen \/ ReadySlots = {})}

DequeInv == TellInv /\ Laid /\ Watching

LEMMA DequeInvInit == PoolUse /\ Init => DequeInv
<1> SUFFICES ASSUME PoolUse, Init PROVE DequeInv
  OBVIOUS
<1>1. TellInv
  BY TellInvInit
<1>2. \A p \in Procs : pc[p] = "idle" /\ call[p] = "idle"
  BY DEF Init
<1>3. Laid /\ Watching
  BY <1>2 DEF Init, Laid, Watching
<1> QED BY <1>1, <1>3 DEF DequeInv

LEMMA DequeInvStep == PoolUse /\ DequeInv /\ [Next]_vars => DequeInv'
<1> SUFFICES ASSUME PoolUse, DequeInv, [Next]_vars PROVE DequeInv'
  OBVIOUS
<1>1. TellInv'
  BY TellInvStep DEF DequeInv
<1>2. CASE UNCHANGED vars
  BY <1>1, <1>2 DEF vars, queue, snap, DequeInv, Laid, Watching, ReadySlots
<1>3. CASE Next
  <2>1. PICK p \in Procs : Call(p) \/ Step(p)
    BY <1>3 DEF Next
  <2>2. Laid'
    BY <2>1, LaidStep DEF DequeInv, TellInv, PopInv
  <2>3. Watching'
    BY <1>3 DEF Next, Watch, Watching
  <2> QED BY <1>1, <2>2, <2>3 DEF DequeInv
<1> QED BY <1>2, <1>3

\* The sequence is empty exactly when no slot is published.
LEMMA EmptyLine ==
  ASSUME NEW st, NEW b \in Positions, NEW f \in Positions, Region(st, b, f),
         NEW S, NEW w \in [Slots -> S]
  PROVE  Line(w, b, Dist(b, f)) = <<>> <=> \A s \in Slots : st[s] # "Ready"
<1>1. PICK n : n = Dist(b, f)
  OBVIOUS
<1>2. n \in Nat /\ n <= K
  BY <1>1, KAssumption DEF Region, Dist, Positions
<1>3. Line(w, b, n) \in Seq(S) /\ Len(Line(w, b, n)) = n
  BY <1>2, LineInSeq
<1>4. Line(w, b, n) = <<>> <=> n = 0
  BY <1>3
<1>5. n = 0 <=> \A s \in Slots : st[s] # "Ready"
  <2>1. Slot(b) \in Slots
    BY SlotType
  <2> QED BY <1>1, <2>1, NothingBelow
<1> QED BY <1>1, <1>4, <1>5

LEMMA EmptyContents ==
  ASSUME IInv PROVE Contents = <<>> <=> ReadySlots = {}
<1>1. TrueFront \in Positions /\ TrueBack \in Positions /\ Region(state, TrueBack, TrueFront)
  BY TrueEnds DEF IInv, Contiguous
<1>2. work \in [Slots -> Works \cup {NoWork}]
  BY DEF IInv, TypeOK
<1>3. Contents = Line(work, TrueBack, Dist(TrueBack, TrueFront))
  BY DEF Contents, Length, Line, Around
<1>4. Line(work, TrueBack, Dist(TrueBack, TrueFront)) = <<>>
        <=> \A s \in Slots : state[s] # "Ready"
  BY <1>1, <1>2, EmptyLine
<1> QED BY <1>3, <1>4 DEF ReadySlots

LEMMA ContentsIs ==
  ASSUME IInv
  PROVE  /\ Contents = Line(work, TrueBack, Dist(TrueBack, TrueFront))
         /\ TrueFront \in Positions /\ TrueBack \in Positions
         /\ Region(state, TrueBack, TrueFront) /\ Dist(TrueBack, TrueFront) <= K
         /\ work \in [Slots -> Works \cup {NoWork}]
         /\ front.pos \in Positions /\ back.pos \in Positions
BY TrueEnds DEF IInv, Contiguous, Region, TypeOK, Word, Contents, Length, Line, Around

\* A step that leaves the true ends alone leaves the sequence alone.
LEMMA ContentsKeep ==
  ASSUME IInv, NEW p \in Procs, Call(p) \/ Step(p),
         TrueFront' = TrueFront, TrueBack' = TrueBack
  PROVE  Contents' = Contents
<1>1. Contents' = Line(work', TrueBack, Dist(TrueBack, TrueFront))
  <2>1. Contents' = Line(work', TrueBack', Dist(TrueBack', TrueFront'))
    BY DEF Contents, Length, Line, Around
  <2> QED BY <2>1
<1>2. \A s \in Slots : state[s] = "Ready" => work[s] = work'[s]
  <2>1. ASSUME NEW s \in Slots, state[s] = "Ready" PROVE work[s] = work'[s]
    <3>1. s \notin Held[p]
      BY <2>1 DEF IInv, SlotExclusion, Owned
    <3> QED BY <3>1, TouchesOwn
  <2> QED BY <2>1
<1>3. Line(work, TrueBack, Dist(TrueBack, TrueFront)) = Line(work', TrueBack, Dist(TrueBack, TrueFront))
  BY <1>2, ContentsIs, LineSame
<1> QED BY <1>1, <1>3, ContentsIs

LEMMA EmptyAfter == ASSUME IInv' PROVE Contents' = <<>> <=> ReadySlots' = {}
<1>1. front'.pos \in Positions /\ back'.pos \in Positions
  BY DEF IInv, TypeOK, Word
<1>2. TrueFront' \in Positions /\ TrueBack' \in Positions
  BY <1>1, SlotType DEF TrueFront, TrueBack
<1>3. Region(state', TrueBack', TrueFront') /\ work' \in [Slots -> Works \cup {NoWork}]
  BY DEF IInv, TypeOK, Contiguous
<1>4. Contents' = Line(work', TrueBack', Dist(TrueBack', TrueFront'))
  BY DEF Contents, Length, Line, Around
<1>5. Line(work', TrueBack', Dist(TrueBack', TrueFront')) = <<>>
        <=> \A s \in Slots : state'[s] # "Ready"
  BY <1>2, <1>3, EmptyLine
<1> QED BY <1>4, <1>5 DEF ReadySlots

LEMMA WatchMaps == ASSUME IInv', Watch PROVE D!Watch
BY EmptyAfter DEF Watch, D!Watch

\* A step without effect is none of the deque's, for nobody sees anything new.
LEMMA StutterMaps ==
  ASSUME DequeInv, IInv', Watch, Contents' = Contents, Taken' = Taken, call' = call
  PROVE  UNCHANGED D!dvars
<1>1. ReadySlots' = {} <=> ReadySlots = {}
  BY EmptyAfter, EmptyContents DEF DequeInv, TellInv, PopInv
<1>2. seen' = seen
  BY <1>1 DEF Watch, DequeInv, Watching
<1> QED BY <1>2 DEF D!dvars

\* A call begins with a work that is neither in the queue nor in a hand.
LEMMA CallMaps ==
  ASSUME PoolUse, DequeInv, NEW p \in Procs, Call(p)
  PROVE  D!DCall(p)
<1> USE DEF DequeInv, TellInv, PopInv
<1>t. /\ pc \in [Procs -> Labels] /\ hand \in [Procs -> Works \cup {NoWork}]
      /\ call \in [Procs -> FrontOps \cup BackOps \cup {"idle"}]
  BY DEF IInv, TypeOK, Labels
<1>1. PICK op \in Uses[p] : /\ pc[p] = "idle" /\ pc' = [pc EXCEPT ![p] = op]
                            /\ call' = [call EXCEPT ![p] = op]
                            /\ IF op \in Pushes THEN \E w \in Works \ InUse : hand' = [hand EXCEPT ![p] = w]
                               ELSE UNCHANGED hand
  BY DEF Call, Goto
<1>2. op \in FrontOps \cup BackOps /\ op # "PushBack"
  BY UsesAssumption DEF PoolUse
<1>3. call[p] = "idle"
  BY <1>1 DEF Calls, CallsAt, Pushing, Popping, BackPushing, BackPopping
<1>4. Contents' = Contents
  <2>1. pc'[p] = op
    BY <1>1, <1>t
  <2>2. pc[p] # "pushf_publish" /\ pc'[p] \notin {"popf_move", "popb_move"}
    BY <1>1, <1>2, <2>1 DEF FrontOps, BackOps
  <2>3. TrueFront' = TrueFront /\ TrueBack' = TrueBack
    BY <2>2, EndsOfStep
  <2> QED BY <2>3, ContentsKeep
<1>5. Taken'[p] = hand'[p] /\ Taken[p] = hand[p]
  <2>1. pc'[p] = op
    BY <1>1, <1>t
  <2> QED BY <1>1, <1>2, <2>1 DEF Taken, FrontOps, BackOps
<1>6. CASE op \in Pushes
  <2>1. PICK w \in Works \ InUse : hand' = [hand EXCEPT ![p] = w]
    BY <1>1, <1>6
  <2>2. Taken' = [Taken EXCEPT ![p] = w]
    BY <1>t, <1>5, <2>1, TakenMoves
  <2>3. w \notin D!Elements(Contents)
    <3>1. ASSUME NEW i \in DOMAIN Contents PROVE Contents[i] # w
      <4>1. i \in 1 .. Dist(TrueBack, TrueFront)
        BY <3>1 DEF Contents, Length
      <4>2. PICK s \in Slots : state[s] = "Ready" /\ Contents[i] = work[s]
        BY <4>1, ContentsIs, LineElements
      <4>3. work[s] \in InUse
        BY <4>2 DEF InUse, ReadySlots
      <4> QED BY <2>1, <4>2, <4>3
    <3> QED BY <3>1 DEF D!Elements
  <2>4. w \notin D!InHands
    BY <2>1 DEF D!InHands, InUse
  <2>5. op = "PushFront"
    BY <1>2, <1>6 DEF Pushes
  <2> QED BY <1>1, <1>3, <1>4, <2>1, <2>2, <2>3, <2>4, <2>5 DEF D!DCall
<1>7. CASE op \notin Pushes
  <2>1. Taken' = Taken
    <3>1. Taken' = [Taken EXCEPT ![p] = Taken[p]]
      BY <1>1, <1>5, <1>7, TakenMoves
    <3>2. Taken = [q \in Procs |-> Taken[q]]
      BY DEF Taken
    <3>3. \A f : f = [q \in Procs |-> f[q]] => [f EXCEPT ![p] = f[p]] = f
      OBVIOUS
    <3> QED BY <3>1, <3>2, <3>3
  <2>2. op \in {"PopFront", "PopBack", "Empty", "Size"}
    BY <1>2, <1>7 DEF Pushes, FrontOps, BackOps
  <2> QED BY <1>1, <1>3, <1>4, <2>1, <2>2 DEF D!DCall
<1> QED BY <1>6, <1>7

\* The publication of a work is the push.
LEMMA PushMaps ==
  ASSUME PoolUse, DequeInv, IInv', NEW p \in Procs, Call(p) \/ Step(p), pc[p] = "pushf_publish"
  PROVE  D!DPush(p)
<1> USE DEF DequeInv, TellInv, PopInv
<1>t. /\ pc \in [Procs -> Labels] /\ hand \in [Procs -> Works \cup {NoWork}]
  BY DEF IInv, TypeOK, Labels
<1>1. Publish(p, "pushf_publish", Slot(Prev1(front.pos)), "return")
  BY NotFrom
<1>2. /\ hand' = [hand EXCEPT ![p] = NoWork] /\ pc'[p] = "return" /\ UNCHANGED <<call, work>>
      /\ hand'[p] = NoWork
  BY <1>1, <1>t DEF Publish, Goto
<1>3. call[p] = "PushFront"
  BY DEF Calls, CallsAt, Pushing
<1>4. Taken[p] = hand[p] /\ Taken'[p] = NoWork
  BY <1>2 DEF Taken
<1>5. hand[p] \in Works /\ work[Slot(Prev1(front.pos))] = hand[p]
  BY DEF Hands, Bearing, Pushing, Laid
<1>6. /\ TrueBack' = TrueBack /\ TrueFront = Prev1(front.pos) /\ TrueFront' = front.pos
  BY EndsOfStep
<1>7. TrueFront' = Next1(TrueFront)
  BY <1>6, ContentsIs, NextPrev
<1>8. Dist(TrueBack, Next1(TrueFront)) <= K
  <2>1. Dist(TrueBack', TrueFront') <= K
    BY DEF IInv, Contiguous, Region
  <2> QED BY <1>6, <1>7, <2>1
<1>9. Dist(TrueBack, TrueFront) < K
  <2>1. PICK b \in Positions, f \in Positions : b = TrueBack /\ f = TrueFront
    BY ContentsIs
  <2>2. Dist(b, f) <= K /\ Dist(b, Next1(f)) <= K
    BY <1>8, <2>1, ContentsIs
  <2>3. Dist(b, f) < K
    BY ONLY <2>2, KAssumption, b \in Positions, f \in Positions DEF Dist, Next1, Positions
  <2> QED BY <2>1, <2>3
<1>10. Contents' = Append(Contents, hand[p])
  <2>1. Contents' = Line(work, TrueBack, Dist(TrueBack, Next1(TrueFront)))
    BY <1>2, <1>6, <1>7 DEF Contents, Length, Line, Around
  <2>2. Line(work, TrueBack, Dist(TrueBack, Next1(TrueFront)))
          = Append(Line(work, TrueBack, Dist(TrueBack, TrueFront)), work[Slot(TrueFront)])
    BY <1>9, ContentsIs, LineAppend
  <2> QED BY <1>5, <1>6, <2>1, <2>2, ContentsIs
<1>11. Len(Contents) < K
  <2>1. PICK n : n = Dist(TrueBack, TrueFront)
    OBVIOUS
  <2>2. n \in Nat /\ n <= K
    BY <2>1, RawDistance DEF Length
  <2>3. Len(Line(work, TrueBack, n)) = n
    <3>1. PICK b \in Positions, w \in [Slots -> Works \cup {NoWork}] : b = TrueBack /\ w = work
      BY ContentsIs
    <3>2. Len(Line(w, b, n)) = n
      BY ONLY <2>2, LineInSeq, b \in Positions, w \in [Slots -> Works \cup {NoWork}]
    <3> QED BY <3>1, <3>2
  <2>4. Contents = Line(work, TrueBack, n)
    BY <2>1, ContentsIs
  <2> QED BY ONLY <1>9, <2>1, <2>3, <2>4
<1>12. Taken' = [Taken EXCEPT ![p] = NoWork]
  BY <1>4, TakenMoves
<1> QED BY <1>2, <1>3, <1>4, <1>5, <1>10, <1>11, <1>12, WorksAssumption DEF D!DPush

\* The claim of a published slot is the pop.
LEMMA PopFrontMaps ==
  ASSUME PoolUse, DequeInv, NEW p \in Procs, Call(p) \/ Step(p), pc'[p] = "popf_move"
  PROVE  D!DTake(p)
<1> USE DEF DequeInv, TellInv, PopInv
<1>1. /\ UNCHANGED <<front, back, work, call, hand>>
      /\ pc[p] = "popf_claim" /\ state[Slot(Prev1(front.pos))] = "Ready"
  BY ClaimsFrom
<1>2. call[p] = "PopFront"
  BY <1>1 DEF Calls, CallsAt, Pushing, Popping, BackPushing, BackPopping
<1>3. Taken[p] = NoWork
  BY <1>1 DEF Taken, Hands, EmptyHanded
<1>4. Taken'[p] = work[Slot(Prev1(front.pos))]
  BY <1>1 DEF Taken
<1>5. TrueBack' = TrueBack /\ TrueFront = front.pos /\ TrueFront' = Prev1(front.pos)
  BY EndsOfStep
<1>6. Dist(TrueBack, TrueFront) # 0
  <2>1. Slot(Prev1(TrueFront)) \in Slots
    BY ContentsIs, SlotType
  <2> QED BY <1>1, <1>5, <2>1, ContentsIs, NothingBelow
<1>7. /\ Contents # <<>> /\ Contents[Len(Contents)] = work[Slot(Prev1(TrueFront))]
      /\ Line(work, TrueBack, Dist(TrueBack, Prev1(TrueFront))) = SubSeq(Contents, 1, Len(Contents) - 1)
  <2>1. PICK t : t = Line(work, TrueBack, Dist(TrueBack, TrueFront))
    OBVIOUS
  <2>2. /\ t # <<>> /\ t[Len(t)] = work[Slot(Prev1(TrueFront))]
        /\ Line(work, TrueBack, Dist(TrueBack, Prev1(TrueFront))) = SubSeq(t, 1, Len(t) - 1)
    BY <1>6, <2>1, ContentsIs, LineDropLast
  <2> QED BY <2>1, <2>2, ContentsIs
<1>8. Contents' = SubSeq(Contents, 1, Len(Contents) - 1)
  <2>1. Contents' = Line(work, TrueBack, Dist(TrueBack, Prev1(TrueFront)))
    BY <1>1, <1>5 DEF Contents, Length, Line, Around
  <2> QED BY <1>7, <2>1
<1>9. Taken' = [Taken EXCEPT ![p] = Contents[Len(Contents)]]
  BY <1>4, <1>5, <1>7, TakenMoves
<1> QED BY <1>1, <1>2, <1>3, <1>7, <1>8, <1>9 DEF D!DTake

LEMMA PopBackMaps ==
  ASSUME PoolUse, DequeInv, NEW p \in Procs, Call(p) \/ Step(p), pc'[p] = "popb_move"
  PROVE  D!DTake(p)
<1> USE DEF DequeInv, TellInv, PopInv
<1>1. /\ UNCHANGED <<front, back, work, call, hand>>
      /\ pc[p] = "popb_claim" /\ state[Slot(back.pos)] = "Ready"
  BY ClaimsFrom
<1>2. call[p] = "PopBack"
  BY <1>1 DEF Calls, CallsAt, Pushing, Popping, BackPushing, BackPopping
<1>3. Taken[p] = NoWork
  BY <1>1 DEF Taken, Hands, EmptyHanded
<1>4. Taken'[p] = work[Slot(back.pos)]
  BY <1>1 DEF Taken
<1>5. TrueFront' = TrueFront /\ TrueBack = back.pos /\ TrueBack' = Next1(back.pos)
  BY EndsOfStep
<1>6. Dist(TrueBack, TrueFront) # 0
  <2>1. Slot(TrueBack) \in Slots
    BY ContentsIs, SlotType
  <2> QED BY <1>1, <1>5, <2>1, ContentsIs, NothingBelow
<1>7. /\ Contents # <<>> /\ Head(Contents) = work[Slot(TrueBack)]
      /\ Line(work, Next1(TrueBack), Dist(Next1(TrueBack), TrueFront)) = Tail(Contents)
  <2>1. PICK b \in Positions, f \in Positions, w \in [Slots -> Works \cup {NoWork}] :
          b = TrueBack /\ f = TrueFront /\ w = work
    BY ContentsIs
  <2>2. Dist(b, f) <= K /\ Dist(b, f) # 0 /\ Contents = Line(w, b, Dist(b, f))
    BY <1>6, <2>1, ContentsIs
  <2>3. LET t == Line(w, b, Dist(b, f))
        IN  /\ t # <<>> /\ Head(t) = w[Slot(b)]
            /\ Line(w, Next1(b), Dist(Next1(b), f)) = Tail(t)
    BY ONLY <2>2, LineTail, b \in Positions, f \in Positions, w \in [Slots -> Works \cup {NoWork}]
  <2> QED BY ONLY <2>1, <2>2, <2>3
<1>8. Contents' = Tail(Contents)
  <2>1. Contents' = Line(work, Next1(TrueBack), Dist(Next1(TrueBack), TrueFront))
    BY <1>1, <1>5 DEF Contents, Length, Line, Around
  <2> QED BY <1>7, <2>1
<1>9. Taken' = [Taken EXCEPT ![p] = Head(Contents)]
  BY <1>4, <1>5, <1>7, TakenMoves
<1> QED BY <1>1, <1>2, <1>3, <1>7, <1>8, <1>9 DEF D!DTake

\* A pop that comes back with nothing has seen the queue empty.
LEMMA ReturnMaps ==
  ASSUME PoolUse, DequeInv, NEW p \in Procs, Return(p)
  PROVE  D!DReturn(p)
<1> USE DEF DequeInv, TellInv, PopInv
<1>t. /\ pc \in [Procs -> Labels] /\ hand \in [Procs -> Works \cup {NoWork}]
  BY DEF IInv, TypeOK, Labels
<1>0. Step(p)
  BY DEF Step
<1>1. /\ pc[p] = "return" /\ pc'[p] = "idle" /\ hand'[p] = NoWork
      /\ call' = [call EXCEPT ![p] = "idle"]
  BY <1>t DEF Return, Goto
<1>2. call[p] # "idle"
  BY <1>1 DEF Calls, CallsAt, Pushing, Popping, BackPushing, BackPopping, FrontOps, BackOps
<1>3. Taken[p] = hand[p] /\ Taken'[p] = NoWork
  BY <1>1 DEF Taken
<1>4. call[p] \in {"PopFront", "PopBack"} /\ Taken[p] = NoWork => p \in seen
  BY <1>1, <1>3 DEF Told
<1>5. Taken' = [Taken EXCEPT ![p] = NoWork]
  BY <1>0, <1>3, TakenMoves
<1>6. Contents' = Contents
  <2>1. TrueFront' = TrueFront /\ TrueBack' = TrueBack
    BY <1>0, <1>1, EndsOfStep
  <2> QED BY <1>0, <2>1, ContentsKeep
<1> QED BY <1>1, <1>2, <1>4, <1>5, <1>6 DEF D!DReturn

\* Every other step moves a word, or looks, and takes no effect.
LEMMA HandKeeps ==
  ASSUME PoolUse, PopInv, NEW p \in Procs, Step(p), ~Return(p),
         pc[p] # "pushf_publish", pc'[p] \notin {"popf_move", "popb_move"}
  PROVE  call' = call /\ Taken'[p] = Taken[p]
<1> USE DEF PopInv
<1>t. /\ pc \in [Procs -> Labels] /\ hand \in [Procs -> Works \cup {NoWork}]
  BY DEF IInv, TypeOK, Labels
<1>1. Taken'[p] = hand'[p]
  BY DEF Taken
<1>2. pc[p] \notin {"popf_move", "popb_move"} => Taken[p] = hand[p]
  BY DEF Taken
<1>3. /\ pc[p] = "popf_move" => Taken[p] = work[Slot(Prev1(front.pos))]
      /\ pc[p] = "popb_move" => Taken[p] = work[Slot(back.pos)]
  BY DEF Taken
<1>4. CASE PushFront(p)
  BY <1>1, <1>2, <1>4 DEF PushFront, Load, Claim, StoreFront, MoveIn, Publish, Goto
<1>5. CASE PopFront(p)
  <2>1. CASE pc[p] = "popf_move"
    <3>1. call' = call /\ hand' = [hand EXCEPT ![p] = work[Slot(Prev1(front.pos))]]
      BY <1>5, <2>1 DEF PopFront, Load, Claim, StoreFront, MoveOut, Release, Goto
    <3> QED BY <1>t, <1>1, <1>3, <2>1, <3>1
  <2>2. CASE pc[p] # "popf_move"
    BY <1>1, <1>2, <1>5, <2>2 DEF PopFront, Load, Claim, StoreFront, MoveOut, Release, Goto
  <2> QED BY <2>1, <2>2
<1>6. CASE PushBack(p)
  BY <1>6, NoPushBack
<1>7. CASE PopBack(p)
  <2>1. CASE pc[p] = "popb_move"
    <3>1. call' = call /\ hand' = [hand EXCEPT ![p] = work[Slot(back.pos)]]
      BY <1>7, <2>1 DEF PopBack, Lock, Load, Claim, StoreBack, MoveOut, Release, Goto
    <3> QED BY <1>t, <1>1, <1>3, <2>1, <3>1
  <2>2. CASE pc[p] # "popb_move"
    BY <1>1, <1>2, <1>7, <2>2 DEF PopBack, Lock, Load, Claim, StoreBack, MoveOut, Release, Goto
  <2> QED BY <2>1, <2>2
<1>8. CASE LoadFront(p) \/ LoadBack(p) \/ ReloadFront(p) \/ Unlock(p)
  BY <1>1, <1>2, <1>8 DEF LoadFront, LoadBack, ReloadFront, Unlock, Goto
<1> QED BY <1>4, <1>5, <1>6, <1>7, <1>8 DEF Step

LEMMA SilentMaps ==
  ASSUME PoolUse, DequeInv, IInv', Watch, NEW p \in Procs, Step(p), ~Return(p),
         pc[p] # "pushf_publish", pc'[p] \notin {"popf_move", "popb_move"}
  PROVE  UNCHANGED D!dvars
<1> USE DEF DequeInv, TellInv, PopInv
<1>1. call' = call /\ Taken'[p] = Taken[p]
  BY HandKeeps
<1>2. Taken' = Taken
  <2>1. Taken' = [Taken EXCEPT ![p] = Taken[p]]
    BY <1>1, TakenMoves
  <2>2. Taken = [q \in Procs |-> Taken[q]]
    BY DEF Taken
  <2>3. \A f : f = [q \in Procs |-> f[q]] => [f EXCEPT ![p] = f[p]] = f
    OBVIOUS
  <2> QED BY <2>1, <2>2, <2>3
<1>3. Contents' = Contents
  <2>1. TrueFront' = TrueFront /\ TrueBack' = TrueBack
    BY EndsOfStep
  <2> QED BY <2>1, ContentsKeep
<1> QED BY <1>1, <1>2, <1>3, StutterMaps

LEMMA InitMaps == PoolUse /\ Init => D!DInit
<1> SUFFICES ASSUME PoolUse, Init PROVE D!DInit
  OBVIOUS
<1>1. IInv
  BY InvInit
<1>2. ReadySlots = {}
  BY DEF Init, ReadySlots
<1>3. Contents = <<>>
  BY <1>1, <1>2, EmptyContents
<1>4. Taken = [p \in Procs |-> NoWork]
  BY DEF Init, Taken
<1> QED BY <1>3, <1>4 DEF Init, D!DInit

LEMMA StepMaps == PoolUse /\ DequeInv /\ DequeInv' /\ [Next]_vars => [D!DNext]_(D!dvars)
<1> SUFFICES ASSUME PoolUse, DequeInv, DequeInv', [Next]_vars PROVE [D!DNext]_(D!dvars)
  OBVIOUS
<1>i. IInv'
  BY DEF DequeInv, TellInv, PopInv
<1>1. CASE UNCHANGED vars
  BY <1>1 DEF vars, queue, D!dvars, Contents, Length, TrueBack, TrueFront, FrontMoving, BackMoving, Taken
<1>2. CASE Next
  <2>1. Watch /\ D!Watch
    BY <1>i, <1>2, WatchMaps DEF Next
  <2>2. PICK p \in Procs : Call(p) \/ Step(p)
    BY <1>2 DEF Next
  <2>3. CASE Call(p)
    BY <2>1, <2>3, CallMaps DEF D!DNext
  <2>4. CASE Step(p) /\ pc[p] = "pushf_publish"
    BY <1>i, <2>1, <2>4, PushMaps DEF D!DNext
  <2>5. CASE Step(p) /\ pc'[p] = "popf_move"
    BY <2>1, <2>5, PopFrontMaps DEF D!DNext
  <2>6. CASE Step(p) /\ pc'[p] = "popb_move"
    BY <2>1, <2>6, PopBackMaps DEF D!DNext
  <2>7. CASE Return(p)
    BY <2>1, <2>7, ReturnMaps DEF D!DNext
  <2>8. CASE Step(p) /\ ~Return(p) /\ pc[p] # "pushf_publish" /\ pc'[p] \notin {"popf_move", "popb_move"}
    BY <1>i, <2>1, <2>8, SilentMaps
  <2> QED BY <2>2, <2>3, <2>4, <2>5, <2>6, <2>7, <2>8
<1> QED BY <1>1, <1>2

\* The queue, as the pool uses it, is a deque: however owner and thieves
\* interleave, every operation takes effect in one step between its call and
\* its return, on one sequence of works.
THEOREM Implements == PoolUse => (Spec => ImplementsDeque)
<1> SUFFICES ASSUME PoolUse PROVE Spec => ImplementsDeque
  OBVIOUS
<1>1. Init => D!DInit /\ DequeInv
  BY InitMaps, DequeInvInit
<1>2. DequeInv /\ [Next]_vars => DequeInv'
  BY DequeInvStep
<1>3. DequeInv /\ DequeInv' /\ [Next]_vars => [D!DNext]_(D!dvars)
  BY StepMaps
<1> QED BY <1>1, <1>2, <1>3, PTL DEF Spec, ImplementsDeque, D!DSpec
=============================================================================
