------------------------------ MODULE RunQueue ------------------------------
(***************************************************************************)
(* include/eigen/run_queue.h: the deque of one worker.  Its owner pushes   *)
(* and pops at the front without a lock; any thread pops or pushes at the  *)
(* back under mutex_.  The two ends meet only in the per-slot state word.  *)
(*                                                                         *)
(* One step is one access to shared memory (an atomic load, store or CAS,  *)
(* the move of a Work, the lock or the unlock); a load of a word that only *)
(* the caller may write is merged with the access that follows it.         *)
(***************************************************************************)
EXTENDS Integers, Sequences

CONSTANTS K,          \* kSize
          M,          \* number of values of a modification counter
          MaxCount,   \* BOUND: the owner stops pushing at this counter value
          Owner,      \* the worker the queue belongs to
          Thieves,    \* the other threads
          Uses,       \* the operations each thread uses
          Works, NoWork, Nobody

Procs == {Owner} \cup Thieves
FrontOps == {"PushFront", "PopFront"}
BackOps  == {"PushBack", "PopBack", "Empty", "Size"}
Pushes   == {"PushFront", "PushBack"}

ASSUME KAssumption == K \in Nat /\ K > 2
ASSUME MAssumption == M \in Nat /\ M > 1
ASSUME ProcsAssumption == Owner \notin Thieves /\ Nobody \notin Procs
ASSUME UsesAssumption == /\ Uses \in [Procs -> SUBSET (FrontOps \cup BackOps)]
                         /\ \A p \in Thieves : Uses[p] \subseteq BackOps
ASSUME WorksAssumption == NoWork \notin Works

VARIABLES front, back,   \* front_, back_: a rolling index and a counter
          state, work,   \* array_[i].state and array_[i].w
          mutex,         \* holder of mutex_, or Nobody
          pc,            \* the next access of each thread
          call, hand,    \* the operation it is in; its Work argument or result
          snapFront, snapBack,   \* the locals front and back of SizeOrNotEmpty
          seen           \* history: threads whose call saw the queue empty
queue == <<front, back, state, work>>
snap == <<snapFront, snapBack>>
vars == <<queue, mutex, pc, call, hand, snap, seen>>

Slots == 0 .. K - 1
Positions == 0 .. 2 * K - 1
Word == [pos : Positions, cnt : 0 .. M - 1]

Slot(i) == IF i >= K THEN i - K ELSE i                     \* word & kMask
\* Mutant: the rolling index is not masked.
Next1NotMasked(i) == i + 1
Next1(i) == IF i = 2 * K - 1 THEN 0 ELSE i + 1
Prev1(i) == IF i = 0 THEN 2 * K - 1 ELSE i - 1
WrapCount(c) == IF c >= M THEN c - M ELSE c
\* word + 1 + (kSize << 1): the index may carry into the counter.
Up(word) == [pos |-> Next1(word.pos),
             cnt |-> WrapCount(word.cnt + (IF word.pos = 2 * K - 1 THEN 2 ELSE 1))]
\* ((word - 1) & kMask2) | (word & ~kMask2): the counter stays.
Down(word) == [pos |-> Prev1(word.pos), cnt |-> word.cnt]
\* The index distance from b up to f, modulo 2 * kSize.
Dist(b, f) == IF f >= b THEN f - b ELSE f - b + 2 * K
\* Mutant: a negative difference is not fixed.
CalculateSizeNotFixed(f, b) == IF f.pos - b.pos > K THEN K ELSE f.pos - b.pos
CalculateSize(f, b) == IF Dist(b.pos, f.pos) > K THEN K ELSE Dist(b.pos, f.pos)

ReadySlots == {s \in Slots : state[s] = "Ready"}
\* The work of a thread; a pop has its work from the claim on.
Taken == [p \in Procs |-> CASE pc[p] = "popf_move" -> work[Slot(Prev1(front.pos))]
                            [] pc[p] = "popb_move" -> work[Slot(back.pos)]
                            [] OTHER -> hand[p]]
InUse == {work[s] : s \in ReadySlots} \cup {Taken[p] : p \in Procs}

Init ==
  /\ front = [pos |-> 0, cnt |-> 0] /\ back = [pos |-> 0, cnt |-> 0]
  /\ state = [s \in Slots |-> "Empty"]
  /\ work = [s \in Slots |-> NoWork]
  /\ mutex = Nobody
  /\ pc = [p \in Procs |-> "idle"]
  /\ call = [p \in Procs |-> "idle"]
  /\ hand = [p \in Procs |-> NoWork]
  /\ snapFront = [p \in Procs |-> front] /\ snapBack = [p \in Procs |-> back]
  /\ seen = {}

Goto(p, from, to) == pc[p] = from /\ pc' = [pc EXCEPT ![p] = to]

\* A thread enters an operation it may use.
Call(p) == \E op \in Uses[p] :
  /\ Goto(p, "idle", op)
  /\ call' = [call EXCEPT ![p] = op]
  /\ IF op \in Pushes
     THEN /\ op = "PushFront" => front.cnt < MaxCount
          /\ \E w \in Works \ InUse : hand' = [hand EXCEPT ![p] = w]
     ELSE UNCHANGED hand
  /\ UNCHANGED <<queue, mutex, snap>>

\* The operation returns to its caller.
Return(p) ==
  /\ Goto(p, "return", "idle")
  /\ call' = [call EXCEPT ![p] = "idle"]
  /\ hand' = [hand EXCEPT ![p] = NoWork]
  /\ snapFront' = [snapFront EXCEPT ![p] = [pos |-> 0, cnt |-> 0]]
  /\ snapBack' = [snapBack EXCEPT ![p] = [pos |-> 0, cnt |-> 0]]
  /\ UNCHANGED <<queue, mutex>>

\* s = e->state.load(); the CAS is tried only on the expected state.
Load(p, from, s, expected, then, else) ==
  /\ Goto(p, from, IF state[s] = expected THEN then ELSE else)
  /\ UNCHANGED <<queue, mutex, call, hand, snap>>

\* Mutant: the state is stored without looking at it again.
ClaimBlindly(p, from, s, expected, then, else) ==
  /\ Goto(p, from, then) /\ state' = [state EXCEPT ![s] = "Busy"]
  /\ UNCHANGED <<front, back, work, mutex, call, hand, snap>>

\* e->state.compare_exchange_strong(s, kBusy)
Claim(p, from, s, expected, then, else) ==
  /\ IF state[s] = expected
     THEN Goto(p, from, then) /\ state' = [state EXCEPT ![s] = "Busy"]
     ELSE Goto(p, from, else) /\ UNCHANGED state
  /\ UNCHANGED <<front, back, work, mutex, call, hand, snap>>

MoveIn(p, from, s, to) ==
  /\ Goto(p, from, to)
  /\ work' = [work EXCEPT ![s] = hand[p]]
  /\ UNCHANGED <<front, back, state, mutex, call, hand, snap>>

\* Whoever read a moved-from Work again would get no work.
MoveOut(p, from, s, to) ==
  /\ Goto(p, from, to)
  /\ hand' = [hand EXCEPT ![p] = work[s]]
  /\ work' = [work EXCEPT ![s] = NoWork]
  /\ UNCHANGED <<front, back, state, mutex, call, snap>>

Publish(p, from, s, to) ==
  /\ Goto(p, from, to)
  /\ state' = [state EXCEPT ![s] = "Ready"]
  /\ hand' = [hand EXCEPT ![p] = NoWork]
  /\ UNCHANGED <<front, back, work, mutex, call, snap>>

\* Mutant: a popped slot stays busy.
ReleaseForgotten(p, from, s, to) ==
  /\ Goto(p, from, to)
  /\ UNCHANGED <<queue, mutex, call, hand, snap>>

Release(p, from, s, to) ==
  /\ Goto(p, from, to)
  /\ state' = [state EXCEPT ![s] = "Empty"]
  /\ UNCHANGED <<front, back, work, mutex, call, hand, snap>>

StoreFront(p, from, word, to) ==
  /\ Goto(p, from, to) /\ front' = word
  /\ UNCHANGED <<back, state, work, mutex, call, hand, snap>>

StoreBack(p, from, word, to) ==
  /\ Goto(p, from, to) /\ back' = word
  /\ UNCHANGED <<front, state, work, mutex, call, hand, snap>>

Lock(p, from, to) ==
  /\ mutex = Nobody /\ mutex' = p
  /\ Goto(p, from, to)
  /\ UNCHANGED <<queue, call, hand, snap>>

Unlock(p) ==
  /\ Goto(p, "unlock", "return")
  /\ mutex' = Nobody
  /\ UNCHANGED <<queue, call, hand, snap>>

PushFront(p) ==
  \/ Load(p, "PushFront", Slot(front.pos), "Empty", "pushf_claim", "return")
  \/ Claim(p, "pushf_claim", Slot(front.pos), "Empty", "pushf_store", "return")
  \/ StoreFront(p, "pushf_store", Up(front), "pushf_move")
  \/ MoveIn(p, "pushf_move", Slot(Prev1(front.pos)), "pushf_publish")
  \/ Publish(p, "pushf_publish", Slot(Prev1(front.pos)), "return")

PopFront(p) ==
  \/ Load(p, "PopFront", Slot(Prev1(front.pos)), "Ready", "popf_claim", "return")
  \/ Claim(p, "popf_claim", Slot(Prev1(front.pos)), "Ready", "popf_move", "return")
  \/ MoveOut(p, "popf_move", Slot(Prev1(front.pos)), "popf_release")
  \/ Release(p, "popf_release", Slot(Prev1(front.pos)), "popf_store")
  \/ StoreFront(p, "popf_store", Down(front), "return")

PushBack(p) ==
  \/ Lock(p, "PushBack", "pushb_load")
  \/ Load(p, "pushb_load", Slot(Prev1(back.pos)), "Empty", "pushb_claim", "unlock")
  \/ Claim(p, "pushb_claim", Slot(Prev1(back.pos)), "Empty", "pushb_store", "unlock")
  \/ StoreBack(p, "pushb_store", Down(back), "pushb_move")
  \/ MoveIn(p, "pushb_move", Slot(back.pos), "pushb_publish")
  \/ Publish(p, "pushb_publish", Slot(back.pos), "unlock")

\* Mutant: the pop moves back_ the way a push does.
PopBackDown(p) ==
  \/ Lock(p, "popb_lock", "popb_load")
  \/ Load(p, "popb_load", Slot(back.pos), "Ready", "popb_claim", "unlock")
  \/ Claim(p, "popb_claim", Slot(back.pos), "Ready", "popb_move", "unlock")
  \/ MoveOut(p, "popb_move", Slot(back.pos), "popb_release")
  \/ Release(p, "popb_release", Slot(back.pos), "popb_store")
  \/ StoreBack(p, "popb_store", Down(back), "unlock")

PopBack(p) ==
  \/ Lock(p, "popb_lock", "popb_load")
  \/ Load(p, "popb_load", Slot(back.pos), "Ready", "popb_claim", "unlock")
  \/ Claim(p, "popb_claim", Slot(back.pos), "Ready", "popb_move", "unlock")
  \/ MoveOut(p, "popb_move", Slot(back.pos), "popb_release")
  \/ Release(p, "popb_release", Slot(back.pos), "popb_store")
  \/ StoreBack(p, "popb_store", Up(back), "unlock")

\* SizeOrNotEmpty: the entry of PopBack, Empty and Size.
LoadFront(p) ==
  /\ pc[p] \in {"PopBack", "Empty", "Size"}
  /\ Goto(p, pc[p], "load_back")
  /\ snapFront' = [snapFront EXCEPT ![p] = front]
  /\ UNCHANGED <<queue, mutex, call, hand, snapBack>>

LoadBack(p) ==
  /\ Goto(p, "load_back", "reload_front")
  /\ snapBack' = [snapBack EXCEPT ![p] = back]
  /\ UNCHANGED <<queue, mutex, call, hand, snapFront>>

\* Mutants: the snapshot is used without a second look at front_, or the
\* second look is not kept for the next round.
ReloadFrontNever(p) ==
  /\ Goto(p, "reload_front",
          IF call[p] = "PopBack" /\ snapFront[p].pos # snapBack[p].pos THEN "popb_lock"
          ELSE "return")
  /\ UNCHANGED <<queue, mutex, call, hand, snap>>
ReloadFrontDropped(p) ==
  /\ Goto(p, "reload_front",
          IF front # snapFront[p] THEN "load_back"
          ELSE IF call[p] = "PopBack" /\ front.pos # snapBack[p].pos THEN "popb_lock"
          ELSE "return")
  /\ UNCHANGED <<queue, mutex, call, hand, snap>>

ReloadFront(p) ==
  /\ Goto(p, "reload_front",
          IF front # snapFront[p] THEN "load_back"
          ELSE IF call[p] = "PopBack" /\ front.pos # snapBack[p].pos THEN "popb_lock"
          ELSE "return")
  /\ snapFront' = [snapFront EXCEPT ![p] = front]
  /\ UNCHANGED <<queue, mutex, call, hand, snapBack>>

Step(p) == \/ PushFront(p) \/ PopFront(p) \/ PushBack(p) \/ PopBack(p)
           \/ LoadFront(p) \/ LoadBack(p) \/ ReloadFront(p) \/ Unlock(p)
           \/ Return(p)

\* A thread watches for emptiness from its call to its return.
Watch == seen' = {p \in Procs : call'[p] # "idle" /\ (p \in seen \/ ReadySlots' = {})}

Next == (\E p \in Procs : Call(p) \/ Step(p)) /\ Watch

Spec == Init /\ [][Next]_vars
FairSpec == Spec /\ \A p \in Procs : WF_vars(Step(p) /\ Watch)

-----------------------------------------------------------------------------
(* Who is inside which end.                                                *)

Popping == {"popf_move", "popf_release", "popf_store"}
Pushing == {"pushf_move", "pushf_publish"}
FrontLabels == FrontOps \cup Popping \cup Pushing \cup {"pushf_claim", "pushf_store", "popf_claim"}
BackPopping == {"popb_move", "popb_release", "popb_store"}
BackPushing == {"pushb_move", "pushb_publish"}
InMutex == BackPopping \cup BackPushing \cup
           {"popb_load", "popb_claim", "pushb_load", "pushb_claim", "pushb_store", "unlock"}

\* The slots a thread at label l owns, between its claim and its release or
\* publish, when front_ and back_ have the indices f and b.
HeldAt(l, f, b) ==
  IF l \in {"popf_move", "popf_release", "pushf_move", "pushf_publish"} THEN {Slot(Prev1(f))}
  ELSE IF l = "pushf_store" THEN {Slot(f)}
  ELSE IF l \in {"popb_move", "popb_release", "pushb_move", "pushb_publish"} THEN {Slot(b)}
  ELSE IF l = "pushb_store" THEN {Slot(Prev1(b))} ELSE {}
Held == [p \in Procs |-> HeldAt(pc[p], front.pos, back.pos)]

\* The two ends as the works see them: an end that a claim in progress moves
\* is where the finished pop leaves it, or where it was before the push.
FrontMoving == pc[Owner] \in Popping \cup Pushing
BackMoving == \E p \in Procs : pc[p] \in BackPopping \cup BackPushing
TrueFront == IF FrontMoving THEN Prev1(front.pos) ELSE front.pos
TrueBack == IF BackMoving THEN Next1(back.pos) ELSE back.pos
Length == Dist(TrueBack, TrueFront)
\* How far slot s lies above slot b, around the array.
Offset(s, b) == IF s >= b THEN s - b ELSE s - b + K

TypeOK ==
  /\ front \in Word /\ back \in Word
  /\ state \in [Slots -> {"Empty", "Busy", "Ready"}]
  /\ work \in [Slots -> Works \cup {NoWork}]
  /\ mutex \in Procs \cup {Nobody}
  /\ pc \in [Procs -> {"idle", "return", "load_back", "reload_front", "popb_lock",
                       "pushf_claim", "pushf_store", "popf_claim"}
                      \cup Popping \cup Pushing \cup InMutex \cup FrontOps \cup BackOps]
  /\ call \in [Procs -> FrontOps \cup BackOps \cup {"idle"}]
  /\ hand \in [Procs -> Works \cup {NoWork}]
  /\ snapFront \in [Procs -> Word] /\ snapBack \in [Procs -> Word]
  /\ seen \in SUBSET Procs

\* A claimed slot has one owner: no two threads touch the Work of one slot,
\* although owner and thieves share no lock, and the state word of a slot is
\* Busy exactly while somebody owns it.
Owned(held, st) ==
  /\ \A p, q \in Procs : p # q => held[p] \cap held[q] = {}
  /\ \A s \in Slots : st[s] = "Busy" <=> \E p \in Procs : s \in held[p]
SlotExclusion == Owned(Held, state)

\* The published works are exactly the slots from the true back up to the
\* true front: no hole, and nothing outside, even when both ends wrap.
Region(st, b, f) ==
  /\ Dist(b, f) <= K
  /\ \A s \in Slots : st[s] = "Ready" <=> Offset(s, Slot(b)) < Dist(b, f)
Contiguous == Region(state, TrueBack, TrueFront)

\* Comment at lines 230-233: concurrent modifications make the queue look
\* larger than it is, never smaller, and by at most one above kSize.
LooksLarger ==
  /\ Dist(back.pos, front.pos) <= K + 1
  /\ Length <= CalculateSize(front, back)

\* The inductive invariant behind the three: the front belongs to the owner,
\* the back to the holder of mutex_, and two moving ends leave a slot free.
Control == \A p \in Procs :
  /\ pc[p] \in FrontLabels => p = Owner
  /\ pc[p] \in InMutex <=> mutex = p
Slack == FrontMoving /\ BackMoving => Length < K
IInv == TypeOK /\ Control /\ SlotExclusion /\ Contiguous /\ Slack

\* Comment at lines 199-200: a queue is not claimed empty unless it was empty
\* at some instant of the call; the same for a pop that comes back with nothing.
EmptyIsTrue == \A p \in Procs :
  pc[p] = "return" =>
    CASE call[p] \in {"PopFront", "PopBack"} -> hand[p] = NoWork => p \in seen
      [] call[p] = "Empty" -> snapFront[p].pos = snapBack[p].pos => p \in seen
      [] OTHER -> TRUE

-----------------------------------------------------------------------------
(* The queue implements Deque: the deque is what lies between the true ends. *)

Contents == [i \in 1 .. Length |->
               work[Slot(IF TrueBack + i - 1 >= 2 * K THEN TrueBack + i - 1 - 2 * K
                                                     ELSE TrueBack + i - 1)]]
D == INSTANCE Deque WITH deque <- Contents, hand <- Taken
\* Every operation takes effect in one step between its call and its return.
ImplementsDeque == D!DSpec

\* A failed push means a queue that is full up to one slot, the one a thief
\* still holds: PushFront refuses only then.
RefusesWhenFull == [][\A p \in Procs :
   (/\ pc[p] \in {"PushFront", "pushf_claim", "pushb_load", "pushb_claim"}
    /\ pc'[p] \in {"return", "unlock"}) => Length >= K - 1]_vars

\* Whenever a thread is inside an operation, some operation returns: neither
\* the lock nor the snapshot loop can stop everyone.
Progress == (\E p \in Procs : pc[p] # "idle") ~> (\E p \in Procs : pc[p] = "return")
=============================================================================
