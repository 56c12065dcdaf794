----------------------------- MODULE MpmcQueue -----------------------------
(***************************************************************************)
(* include/eigen/mpmc_queue.h: the bounded queue behind a worker's         *)
(* mailbox.  A ticket drawn from head_ (producers) or tail_ (consumers)    *)
(* names a slot and a lap; slot.turn tells whose move it is:  2 * lap for  *)
(* the producer of that lap, 2 * lap + 1 for its consumer.                 *)
(*                                                                         *)
(* One step is one access to head_, tail_, a turn or a storage.            *)
(***************************************************************************)
EXTENDS Integers, Sequences

CONSTANTS Capacity,       \* capacity_
          Procs,          \* the threads
          Uses,           \* the operations each of them uses
          Values, NoValue, Nobody,
          MaxTicket       \* BOUND: no call starts at a counter value above it

TryOps == {"try_push", "try_pop"}
Ops == TryOps \cup {"push", "pop"}

ASSUME CapacityAssumption == Capacity \in Nat /\ Capacity >= 1
ASSUME UsesAssumption == Uses \in [Procs -> SUBSET Ops]
ASSUME ValuesAssumption == NoValue \notin Values

VARIABLES head_, tail_,    \* the next tickets
          turn, storage,   \* slots_[i].turn and slots_[i].storage
          pc, call,        \* next access and current operation of a thread
          hand,            \* its argument or result
          ticket,          \* the local head or tail of its operation
          sent,            \* history: the value given to each producer ticket
          refused          \* history: threads that met a reason to be refused
slots == <<turn, storage>>
vars == <<head_, tail_, slots, pc, call, hand, ticket, sent, refused>>

Slots == 0 .. Capacity - 1
Idx(t) == t % Capacity
Lap(t) == t \div Capacity

Init ==
  /\ head_ = 0 /\ tail_ = 0
  /\ turn = [i \in Slots |-> 0]
  /\ storage = [i \in Slots |-> NoValue]
  /\ pc = [p \in Procs |-> "idle"]
  /\ call = [p \in Procs |-> "idle"]
  /\ hand = [p \in Procs |-> NoValue]
  /\ ticket = [p \in Procs |-> 0]
  /\ sent = [t \in {} |-> NoValue]
  /\ refused = {}

Goto(p, from, to) == pc[p] = from /\ pc' = [pc EXCEPT ![p] = to]

Call(p) == \E op \in Uses[p] :
  /\ Goto(p, "idle", op)
  /\ call' = [call EXCEPT ![p] = op]
  /\ IF op \in {"try_push", "push"}
     THEN \E v \in Values : head_ < MaxTicket /\ hand' = [hand EXCEPT ![p] = v]
     ELSE (op = "pop" => tail_ < MaxTicket) /\ UNCHANGED hand
  /\ UNCHANGED <<head_, tail_, slots, ticket, sent>>

Return(p) ==
  /\ Goto(p, "return", "idle")
  /\ call' = [call EXCEPT ![p] = "idle"]
  /\ hand' = [hand EXCEPT ![p] = NoValue]
  /\ ticket' = [ticket EXCEPT ![p] = 0]
  /\ UNCHANGED <<head_, tail_, slots, sent>>

\* Load of head_ or tail_ into the local ticket.
LoadTicket(p, from, counter, to) ==
  /\ Goto(p, from, to)
  /\ ticket' = [ticket EXCEPT ![p] = counter]
  /\ UNCHANGED <<head_, tail_, slots, call, hand, sent>>

\* Mutant: an even turn means a free slot, whatever the lap.
CheckParity(p, from, parity, yes, no) ==
  /\ Goto(p, from, IF turn[Idx(ticket[p])] % 2 = parity THEN yes ELSE no)
  /\ UNCHANGED <<head_, tail_, slots, call, hand, ticket, sent>>

\* Is it the turn of the ticket's owner to use the slot?
CheckTurn(p, from, parity, yes, no) ==
  /\ Goto(p, from, IF turn[Idx(ticket[p])] = 2 * Lap(ticket[p]) + parity THEN yes ELSE no)
  /\ UNCHANGED <<head_, tail_, slots, call, hand, ticket, sent>>

\* The producer draws ticket head_: from here on its value has its place.
Draw(p) ==
  /\ head_' = head_ + 1
  /\ sent' = [t \in 0 .. head_ |-> IF t = head_ THEN hand[p] ELSE sent[t]]

Construct(p, from, to) ==
  /\ Goto(p, from, to)
  /\ storage' = [storage EXCEPT ![Idx(ticket[p])] = hand[p]]
  /\ UNCHANGED <<head_, tail_, turn, call, hand, ticket, sent>>

\* Mutant: published for the lap before.
PublishLapBefore(p, from, to) ==
  /\ Goto(p, from, to)
  /\ turn' = [turn EXCEPT ![Idx(ticket[p])] = 2 * (Lap(ticket[p]) - 1) + 1]
  /\ hand' = [hand EXCEPT ![p] = NoValue]
  /\ UNCHANGED <<head_, tail_, storage, call, ticket, sent>>

PublishTurn(p, from, to) ==
  /\ Goto(p, from, to)
  /\ turn' = [turn EXCEPT ![Idx(ticket[p])] = 2 * Lap(ticket[p]) + 1]
  /\ hand' = [hand EXCEPT ![p] = NoValue]
  /\ UNCHANGED <<head_, tail_, storage, call, ticket, sent>>

\* v = slot.move(); slot.destroy()
MoveOut(p, from, to) ==
  /\ Goto(p, from, to)
  /\ hand' = [hand EXCEPT ![p] = storage[Idx(ticket[p])]]
  /\ storage' = [storage EXCEPT ![Idx(ticket[p])] = NoValue]
  /\ UNCHANGED <<head_, tail_, turn, call, ticket, sent>>

\* Mutant: the slot is not given to the next lap.
FreeSameLap(p, from, to) ==
  /\ Goto(p, from, to)
  /\ turn' = [turn EXCEPT ![Idx(ticket[p])] = 2 * Lap(ticket[p])]
  /\ UNCHANGED <<head_, tail_, storage, call, hand, ticket, sent>>

FreeTurn(p, from, to) ==
  /\ Goto(p, from, to)
  /\ turn' = [turn EXCEPT ![Idx(ticket[p])] = 2 * Lap(ticket[p]) + 2]
  /\ UNCHANGED <<head_, tail_, storage, call, hand, ticket, sent>>

\* Mutant: a full queue is asked again and again.
TryEmplaceForEver(p) ==
  \/ LoadTicket(p, "try_push", head_, "enq_turn")
  \/ CheckTurn(p, "enq_turn", 0, "enq_cas", "enq_reload")
  \/ /\ head_ = ticket[p] /\ Goto(p, "enq_cas", "construct") /\ Draw(p)
     /\ UNCHANGED <<tail_, slots, call, hand, ticket>>
  \/ head_ # ticket[p] /\ LoadTicket(p, "enq_cas", head_, "enq_turn")
  \/ LoadTicket(p, "enq_reload", head_, "enq_turn")

TryEmplace(p) ==
  \/ LoadTicket(p, "try_push", head_, "enq_turn")
  \/ CheckTurn(p, "enq_turn", 0, "enq_cas", "enq_reload")
  \/ /\ head_ = ticket[p] /\ Goto(p, "enq_cas", "construct") /\ Draw(p)
     /\ UNCHANGED <<tail_, slots, call, hand, ticket>>
  \/ head_ # ticket[p] /\ LoadTicket(p, "enq_cas", head_, "enq_turn")
  \/ LoadTicket(p, "enq_reload", head_, IF head_ = ticket[p] THEN "return" ELSE "enq_turn")

\* Mutant: tail_ is stored, not exchanged.
TryPopStore(p) ==
  \/ LoadTicket(p, "try_pop", tail_, "deq_turn")
  \/ CheckTurn(p, "deq_turn", 1, "deq_cas", "deq_reload")
  \/ /\ Goto(p, "deq_cas", "move")
     /\ tail_' = ticket[p] + 1
     /\ UNCHANGED <<head_, slots, call, hand, ticket, sent>>
  \/ LoadTicket(p, "deq_reload", tail_, IF tail_ = ticket[p] THEN "return" ELSE "deq_turn")

TryPop(p) ==
  \/ LoadTicket(p, "try_pop", tail_, "deq_turn")
  \/ CheckTurn(p, "deq_turn", 1, "deq_cas", "deq_reload")
  \/ /\ tail_ = ticket[p] /\ Goto(p, "deq_cas", "move")
     /\ tail_' = tail_ + 1
     /\ UNCHANGED <<head_, slots, call, hand, ticket, sent>>
  \/ tail_ # ticket[p] /\ LoadTicket(p, "deq_cas", tail_, "deq_turn")
  \/ LoadTicket(p, "deq_reload", tail_, IF tail_ = ticket[p] THEN "return" ELSE "deq_turn")

\* The ends of both push operations, and of both pop operations.
Fill(p) == Construct(p, "construct", "publish") \/ PublishTurn(p, "publish", "return")
Empty(p) == MoveOut(p, "move", "free") \/ FreeTurn(p, "free", "return")

Emplace(p) ==
  \/ /\ Goto(p, "push", "enq_wait") /\ Draw(p)
     /\ ticket' = [ticket EXCEPT ![p] = head_]
     /\ UNCHANGED <<tail_, slots, call, hand>>
  \/ CheckTurn(p, "enq_wait", 0, "construct", "enq_wait")

Pop(p) ==
  \/ /\ Goto(p, "pop", "deq_wait")
     /\ tail_' = tail_ + 1
     /\ ticket' = [ticket EXCEPT ![p] = tail_]
     /\ UNCHANGED <<head_, slots, call, hand, sent>>
  \/ CheckTurn(p, "deq_wait", 1, "move", "deq_wait")

Step(p) == TryEmplace(p) \/ TryPop(p) \/ Emplace(p) \/ Pop(p) \/ Fill(p) \/ Empty(p) \/ Return(p)

-----------------------------------------------------------------------------
(* What the queue holds, and why a try operation may be refused.           *)

Producing(p) == pc[p] \in {"enq_wait", "construct", "publish"}
Consuming(p) == pc[p] \in {"deq_wait", "move", "free"}
Published(t) == turn[Idx(t)] = 2 * Lap(t) + 1
Leaving == {p \in Procs : pc[p] \in {"move", "free"}}
\* The tickets drawn by producers and not by consumers, oldest first.
Items == [i \in 1 .. head_ - tail_ |->
   [val |-> sent[tail_ + i - 1],
    by |-> IF Published(tail_ + i - 1) THEN Nobody
           ELSE CHOOSE p \in Procs : Producing(p) /\ ticket[p] = tail_ + i - 1]]
NoRoom == head_ - tail_ >= Capacity \/ Leaving # {}
NoItem == head_ <= tail_ \/ ~Published(tail_)
Watch == refused' = {p \in Procs : \/ call'[p] = "try_push" /\ (p \in refused \/ NoRoom')
                                   \/ call'[p] = "try_pop" /\ (p \in refused \/ NoItem')}

Next == (\E p \in Procs : Call(p) \/ Step(p)) /\ Watch

Spec == Init /\ [][Next]_vars
FairSpec == Spec /\ \A p \in Procs : WF_vars(Step(p) /\ Watch)

-----------------------------------------------------------------------------
TypeOK ==
  /\ head_ \in Nat /\ tail_ \in Nat
  /\ turn \in [Slots -> Nat]
  /\ storage \in [Slots -> Values \cup {NoValue}]
  /\ pc \in [Procs -> {"idle", "return", "enq_turn", "enq_cas", "enq_reload", "enq_wait",
                       "construct", "publish", "deq_turn", "deq_cas", "deq_reload", "deq_wait",
                       "move", "free"} \cup Ops]
  /\ call \in [Procs -> Ops \cup {"idle"}]
  /\ hand \in [Procs -> Values \cup {NoValue}]
  /\ ticket \in [Procs -> Nat]
  /\ sent \in [0 .. head_ - 1 -> Values \cup {NoValue}]
  /\ refused \in SUBSET Procs

\* No two threads are inside one slot, although nothing but its turn keeps a
\* producer of one lap from the consumer of the lap before.
InSlot(p) == pc[p] \in {"construct", "publish", "move", "free"}
NoTwoInSlot == \A p, q \in Procs :
  p # q /\ InSlot(p) /\ InSlot(q) => Idx(ticket[p]) # Idx(ticket[q])

\* The consumer of ticket t gets what the producer of ticket t gave: nothing
\* is lost, repeated or overtaken, whoever stalls in between.
Delivery == \A p \in Procs :
  pc[p] = "free" => ticket[p] < head_ /\ hand[p] = sent[ticket[p]]

\* The inductive invariant behind the two: who has drawn which ticket, what
\* the turns say of the slots in use, and what the full slots hold.
Drawing(p) == pc[p] \in {"enq_turn", "enq_cas", "enq_reload"}
Waiting(p) == pc[p] \in {"deq_turn", "deq_cas", "deq_reload"}
Tickets == \A p \in Procs :
  /\ Drawing(p) => ticket[p] <= head_
  /\ Waiting(p) => ticket[p] <= tail_
  /\ Producing(p) => ticket[p] < head_ /\ hand[p] = sent[ticket[p]]
  /\ Consuming(p) => ticket[p] < tail_
  /\ \A q \in Procs \ {p} :
       (Producing(p) /\ Producing(q)) \/ (Consuming(p) /\ Consuming(q)) => ticket[p] # ticket[q]
Turns == \A p \in Procs :
  /\ pc[p] \in {"construct", "publish"} => turn[Idx(ticket[p])] = 2 * Lap(ticket[p])
  /\ pc[p] \in {"move", "free"} => Published(ticket[p])
  /\ pc[p] = "enq_cas" /\ head_ = ticket[p] => turn[Idx(ticket[p])] = 2 * Lap(ticket[p])
  /\ pc[p] = "deq_cas" /\ tail_ = ticket[p] => Published(ticket[p])
\* The slot of a published ticket, among T, that nobody has moved out of yet.
Stored(T) ==
  /\ \A t \in T : Published(t) =>
       /\ t < head_
       /\ (\A p \in Procs : pc[p] = "free" => ticket[p] # t) => storage[Idx(t)] = sent[t]
  /\ \A p \in Procs : pc[p] = "publish" => storage[Idx(ticket[p])] = sent[ticket[p]]
IInv(T) == TypeOK /\ Tickets /\ Turns /\ Stored(T) /\ Delivery

\* The queue implements Mailbox for threads that use the try operations; a
\* consumer has its value from the moment it owns the ticket.
Taken == [p \in Procs |-> IF pc[p] = "move" THEN storage[Idx(ticket[p])] ELSE hand[p]]
M == INSTANCE Mailbox WITH items <- Items, leaving <- Leaving, hand <- Taken
ImplementsMailbox == M!MSpec

\* Once both sides have drawn ticket t the item is handed over, even when
\* consumers came first and however many laps the two counters are apart.
TicketsMeet == \A t \in 0 .. MaxTicket - 1 :
  (head_ > t /\ tail_ > t) ~> (turn[Idx(t)] >= 2 * Lap(t) + 2)

\* Whenever a try operation is under way, some operation returns: a stalled
\* producer or consumer makes the others fail, never spin for ever.
Progress == (\E p \in Procs : call[p] \in TryOps) ~> (\E p \in Procs : pc[p] = "return")
=============================================================================
