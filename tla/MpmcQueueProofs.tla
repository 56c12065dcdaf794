-------------------------- MODULE MpmcQueueProofs --------------------------
(***************************************************************************)
(* Theorems about MpmcQueue for every capacity and every set of threads;   *)
(* and that it implements Mailbox when they use try_push and try_pop only, *)
(* as the pool does.                                                       *)
(***************************************************************************)
EXTENDS MpmcQueue, SequenceTheorems, TLAPS

-----------------------------------------------------------------------------
(* Tickets, slots and laps.                                                *)

LEMMA Split == ASSUME NEW t \in Nat
               PROVE  /\ Idx(t) \in Slots /\ Lap(t) \in Nat
                      /\ t = Capacity * Lap(t) + Idx(t)
BY CapacityAssumption DEF Idx, Lap, Slots

\* A ticket is known by its slot and its lap.
LEMMA OneTicket == ASSUME NEW t \in Nat, NEW u \in Nat, Idx(t) = Idx(u), Lap(t) = Lap(u)
                   PROVE  t = u
BY Split

-----------------------------------------------------------------------------
LEMMA TypeInit == Init => TypeOK
BY DEF Init, TypeOK, Ops, TryOps

Labels == {"idle", "return", "enq_turn", "enq_cas", "enq_reload", "enq_wait", "construct",
           "publish", "deq_turn", "deq_cas", "deq_reload", "deq_wait", "move", "free"} \cup Ops

LEMMA GotoType == ASSUME TypeOK, NEW p, NEW from, NEW to \in Labels, Goto(p, from, to)
                  PROVE  pc' \in [Procs -> Labels]
BY DEF TypeOK, Goto, Labels

LEMMA LoadTicketType == ASSUME TypeOK, refused' \in SUBSET Procs, NEW p \in Procs, NEW from,
                               NEW counter \in Nat, NEW to \in Labels,
                               LoadTicket(p, from, counter, to)
                        PROVE  TypeOK'
BY GotoType DEF TypeOK, LoadTicket, slots, Labels

LEMMA CheckTurnType == ASSUME TypeOK, refused' \in SUBSET Procs, NEW p \in Procs, NEW from,
                              NEW parity, NEW yes \in Labels, NEW no \in Labels,
                              CheckTurn(p, from, parity, yes, no)
                       PROVE  TypeOK'
<1>1. pc' \in [Procs -> Labels]
  BY GotoType DEF CheckTurn
<1> QED BY <1>1 DEF TypeOK, CheckTurn, slots, Labels

\* What drawing a producer's ticket does to the history.
LEMMA DrawType == ASSUME TypeOK, NEW p \in Procs, Draw(p)
                  PROVE  /\ head_' \in Nat
                         /\ sent' \in [0 .. head_' - 1 -> Values \cup {NoValue}]
<1>1. head_ \in Nat /\ (head_ + 1) - 1 = head_
  BY DEF TypeOK
<1>2. hand[p] \in Values \cup {NoValue}
  BY DEF TypeOK
<1>3. \A t \in 0 .. head_ : t # head_ => sent[t] \in Values \cup {NoValue}
  BY DEF TypeOK
<1>4. sent' \in [0 .. head_ -> Values \cup {NoValue}]
  BY <1>2, <1>3 DEF Draw
<1> QED BY <1>1, <1>4 DEF Draw

LEMMA TypeStep == TypeOK /\ [Next]_vars => TypeOK'
<1> SUFFICES ASSUME TypeOK, [Next]_vars PROVE TypeOK'
  OBVIOUS
<1>1. CASE UNCHANGED vars
  BY <1>1 DEF TypeOK, vars, slots
<1>2. CASE Next
  <2>1. refused' \in SUBSET Procs
    BY <1>2 DEF Next, Watch
  <2>2. PICK p \in Procs : Call(p) \/ Step(p)
    BY <1>2 DEF Next
  <2>3. Idx(ticket[p]) \in Slots /\ Lap(ticket[p]) \in Nat
    BY Split DEF TypeOK
  <2>4. head_ \in Nat /\ tail_ \in Nat
    BY DEF TypeOK
  <2>5. CASE Call(p)
    <3>1. PICK op \in Uses[p] : Goto(p, "idle", op) /\ call' = [call EXCEPT ![p] = op]
      BY <2>5 DEF Call
    <3>2. op \in Ops
      BY UsesAssumption
    <3>3. pc' \in [Procs -> Labels]
      BY <3>1, <3>2, GotoType DEF Labels
    <3>4. hand' \in [Procs -> Values \cup {NoValue}]
      BY <2>5 DEF Call, TypeOK
    <3>5. call' \in [Procs -> Ops \cup {"idle"}]
      BY <3>1, <3>2 DEF TypeOK
    <3> QED BY <2>1, <2>5, <3>3, <3>4, <3>5 DEF Call, slots, TypeOK, Labels
  <2>6. CASE TryEmplace(p)
    <3>1. CASE /\ head_ = ticket[p] /\ Goto(p, "enq_cas", "construct") /\ Draw(p)
               /\ UNCHANGED <<tail_, slots, call, hand, ticket>>
      <4>1. pc' \in [Procs -> Labels]
        BY <3>1, GotoType DEF Labels
      <4> QED BY <2>1, <3>1, <4>1, DrawType DEF slots, TypeOK, Labels
    <3> QED BY <2>1, <2>4, <2>6, <3>1, LoadTicketType, CheckTurnType DEF TryEmplace, Labels
  <2>7. CASE TryPop(p)
    <3>1. CASE /\ tail_ = ticket[p] /\ Goto(p, "deq_cas", "move") /\ tail_' = tail_ + 1
               /\ UNCHANGED <<head_, slots, call, hand, ticket, sent>>
      <4>1. pc' \in [Procs -> Labels]
        BY <3>1, GotoType DEF Labels
      <4> QED BY <2>1, <3>1, <4>1 DEF slots, TypeOK, Labels
    <3> QED BY <2>1, <2>4, <2>7, <3>1, LoadTicketType, CheckTurnType DEF TryPop, Labels
  <2>8. CASE Emplace(p)
    <3>1. CASE /\ Goto(p, "push", "enq_wait") /\ Draw(p)
               /\ ticket' = [ticket EXCEPT ![p] = head_]
               /\ UNCHANGED <<tail_, slots, call, hand>>
      <4>1. pc' \in [Procs -> Labels]
        BY <3>1, GotoType DEF Labels
      <4> QED BY <2>1, <2>4, <3>1, <4>1, DrawType DEF slots, TypeOK, Labels
    <3> QED BY <2>1, <2>8, <3>1, CheckTurnType DEF Emplace, Labels
  <2>9. CASE Pop(p)
    <3>1. CASE /\ Goto(p, "pop", "deq_wait") /\ tail_' = tail_ + 1
               /\ ticket' = [ticket EXCEPT ![p] = tail_]
               /\ UNCHANGED <<head_, slots, call, hand, sent>>
      <4>1. pc' \in [Procs -> Labels]
        BY <3>1, GotoType DEF Labels
      <4>2. ticket' \in [Procs -> Nat]
        BY <2>4, <3>1 DEF TypeOK
      <4>3. tail_' \in Nat
        BY <2>4, <3>1
      <4> QED BY <2>1, <3>1, <4>1, <4>2, <4>3 DEF slots, TypeOK, Labels
    <3> QED BY <2>1, <2>9, <3>1, CheckTurnType DEF Pop, Labels
  <2>10. CASE Fill(p)
    <3>1. CASE Construct(p, "construct", "publish")
      <4>1. pc' \in [Procs -> Labels]
        BY <3>1, GotoType DEF Construct, Labels
      <4> QED BY <2>1, <2>3, <3>1, <4>1 DEF Construct, TypeOK, Labels
    <3>2. CASE PublishTurn(p, "publish", "return")
      <4>1. pc' \in [Procs -> Labels]
        BY <3>2, GotoType DEF PublishTurn, Labels
      <4>2. turn' \in [Slots -> Nat]
        BY <2>3, <3>2 DEF PublishTurn, TypeOK
      <4> QED BY <2>1, <3>2, <4>1, <4>2 DEF PublishTurn, TypeOK, Labels
    <3> QED BY <2>10, <3>1, <3>2 DEF Fill
  <2>11. CASE Empty(p)
    <3>1. CASE MoveOut(p, "move", "free")
      <4>1. pc' \in [Procs -> Labels]
        BY <3>1, GotoType DEF MoveOut, Labels
      <4> QED BY <2>1, <2>3, <3>1, <4>1 DEF MoveOut, TypeOK, Labels
    <3>2. CASE FreeTurn(p, "free", "return")
      <4>1. pc' \in [Procs -> Labels]
        BY <3>2, GotoType DEF FreeTurn, Labels
      <4>2. turn' \in [Slots -> Nat]
        BY <2>3, <3>2 DEF FreeTurn, TypeOK
      <4> QED BY <2>1, <3>2, <4>1, <4>2 DEF FreeTurn, TypeOK, Labels
    <3> QED BY <2>11, <3>1, <3>2 DEF Empty
  <2>12. CASE Return(p)
    <3>1. pc' \in [Procs -> Labels]
      BY <2>12, GotoType DEF Return, Labels
    <3> QED BY <2>1, <2>12, <3>1 DEF Return, slots, TypeOK, Labels
  <2> QED BY <2>2, <2>5, <2>6, <2>7, <2>8, <2>9, <2>10, <2>11, <2>12 DEF Step
<1> QED BY <1>1, <1>2

\* THEOREM: every variable of the queue keeps its type, whatever the threads do.
THEOREM TypeCorrect == Spec => []TypeOK
<1> QED BY TypeInit, TypeStep, PTL DEF Spec

-----------------------------------------------------------------------------
(* IInv(Nat), regrouped: what each thread knows, that no two threads have  *)
(* one ticket, and what the published slots hold.                          *)

Own(p) ==
  /\ Drawing(p) => ticket[p] <= head_
  /\ Waiting(p) => ticket[p] <= tail_
  /\ Producing(p) => ticket[p] < head_ /\ hand[p] = sent[ticket[p]]
  /\ Consuming(p) => ticket[p] < tail_
  /\ pc[p] \in {"construct", "publish"} => turn[Idx(ticket[p])] = 2 * Lap(ticket[p])
  /\ pc[p] \in {"move", "free"} => Published(ticket[p])
  /\ pc[p] = "enq_cas" /\ head_ = ticket[p] => turn[Idx(ticket[p])] = 2 * Lap(ticket[p])
  /\ pc[p] = "deq_cas" /\ tail_ = ticket[p] => Published(ticket[p])
  /\ pc[p] = "publish" => storage[Idx(ticket[p])] = sent[ticket[p]]
  /\ pc[p] = "free" => ticket[p] < head_ /\ hand[p] = sent[ticket[p]]
Apart == \A p, q \in Procs :
  p # q /\ ((Producing(p) /\ Producing(q)) \/ (Consuming(p) /\ Consuming(q)))
    => ticket[p] # ticket[q]
Full == \A t \in Nat : Published(t) =>
  t < head_ /\ ((\A p \in Procs : pc[p] = "free" => ticket[p] # t) => storage[Idx(t)] = sent[t])
Inv == TypeOK /\ (\A p \in Procs : Own(p)) /\ Apart /\ Full

LEMMA Regroup == IInv(Nat) <=> Inv
<1>1. IInv(Nat) => Inv
  BY DEF IInv, Inv, Tickets, Turns, Stored, Delivery, Own, Apart, Full
<1>2. Inv => IInv(Nat)
  <2> SUFFICES ASSUME Inv PROVE IInv(Nat)
    OBVIOUS
  <2>1. Tickets
    BY DEF Inv, Tickets, Own, Apart
  <2>2. Turns /\ Delivery
    BY DEF Inv, Turns, Delivery, Own
  <2>3. Stored(Nat)
    BY DEF Inv, Stored, Own, Full
  <2> QED BY <2>1, <2>2, <2>3 DEF IInv, Inv
<1> QED BY <1>1, <1>2

\* What a step of one thread leaves alone in the others.
Others(p) == \A q \in Procs \ {p} :
  pc'[q] = pc[q] /\ ticket'[q] = ticket[q] /\ hand'[q] = hand[q]

\* A step that draws no ticket and touches no slot.
LEMMA Quiet == ASSUME Inv, TypeOK', NEW p \in Procs, Others(p), Own(p)',
                      UNCHANGED <<head_, tail_, turn, storage, sent>>, pc[p] # "free",
                      Producing(p)' => Producing(p) /\ ticket'[p] = ticket[p],
                      Consuming(p)' => Consuming(p) /\ ticket'[p] = ticket[p]
               PROVE  Inv'
<1>1. ASSUME NEW q \in Procs, q # p PROVE Own(q)'
  BY <1>1 DEF Inv, Others, Own, Drawing, Waiting, Producing, Consuming, Published
<1>2. Apart'
  BY DEF Inv, Others, Apart, Producing, Consuming
<1>3. Full'
  BY DEF Inv, Others, Full, Published
<1> QED BY <1>1, <1>2, <1>3 DEF Inv

\* The two threads inside one slot would have one ticket.
LEMMA OneInSlot == ASSUME Inv, NEW p \in Procs, NEW q \in Procs, p # q,
                          InSlot(p), InSlot(q)
                   PROVE  Idx(ticket[p]) # Idx(ticket[q])
<1> SUFFICES ASSUME Idx(ticket[p]) = Idx(ticket[q]) PROVE FALSE
  OBVIOUS
<1>1. ticket[p] \in Nat /\ ticket[q] \in Nat
  BY DEF Inv, TypeOK
<1>2. Lap(ticket[p]) \in Nat /\ Lap(ticket[q]) \in Nat
  BY <1>1, Split
<1>3. \A r \in {p, q} : /\ pc[r] \in {"construct", "publish"} => turn[Idx(ticket[r])] = 2 * Lap(ticket[r])
                        /\ pc[r] \in {"move", "free"} => turn[Idx(ticket[r])] = 2 * Lap(ticket[r]) + 1
  BY DEF Inv, Own, Published
<1>4. Lap(ticket[p]) = Lap(ticket[q]) /\ (pc[p] \in {"move", "free"} <=> pc[q] \in {"move", "free"})
  BY <1>2, <1>3 DEF InSlot
<1>5. ticket[p] = ticket[q]
  BY <1>1, <1>4, OneTicket
<1> QED BY <1>4, <1>5 DEF Inv, Apart, Producing, Consuming, InSlot

-----------------------------------------------------------------------------
(* One lemma for each kind of step.                                        *)

LEMMA LoadStep == ASSUME Inv, TypeOK', NEW p \in Procs, NEW from, NEW to, NEW counter,
                         LoadTicket(p, from, counter, to), from # "free",
                         \/ counter = head_ /\ to \in {"enq_turn", "return"}
                         \/ counter = tail_ /\ to \in {"deq_turn", "return"}
                  PROVE  Inv'
<1>1. Others(p) /\ pc[p] = from /\ pc'[p] = to /\ ticket'[p] = counter
  BY DEF LoadTicket, Goto, Others, Inv, TypeOK
<1>2. UNCHANGED <<head_, tail_, turn, storage, sent>>
  BY DEF LoadTicket, slots
<1>3. head_ \in Nat /\ tail_ \in Nat
  BY DEF Inv, TypeOK
<1>4. Own(p)' /\ ~Producing(p)' /\ ~Consuming(p)'
  BY <1>1, <1>2, <1>3 DEF Own, Drawing, Waiting, Producing, Consuming
<1> QED BY <1>1, <1>2, <1>4, Quiet

LEMMA CheckStep == ASSUME Inv, TypeOK', NEW p \in Procs,
                          \/ CheckTurn(p, "enq_turn", 0, "enq_cas", "enq_reload")
                          \/ CheckTurn(p, "deq_turn", 1, "deq_cas", "deq_reload")
                          \/ CheckTurn(p, "enq_wait", 0, "construct", "enq_wait")
                          \/ CheckTurn(p, "deq_wait", 1, "move", "deq_wait")
                   PROVE  Inv'
<1>1. UNCHANGED <<head_, tail_, turn, storage, sent, hand, ticket>>
  BY DEF CheckTurn, slots
<1>2. Others(p)
  BY <1>1 DEF CheckTurn, Goto, Others, Inv, TypeOK
<1>3. ticket[p] \in Nat /\ Lap(ticket[p]) \in Nat
  BY Split DEF Inv, TypeOK
<1>4. \/ pc[p] = "enq_turn" /\ pc'[p] = "enq_cas" /\ turn[Idx(ticket[p])] = 2 * Lap(ticket[p])
      \/ pc[p] = "enq_turn" /\ pc'[p] = "enq_reload"
      \/ pc[p] = "deq_turn" /\ pc'[p] = "deq_cas" /\ Published(ticket[p])
      \/ pc[p] = "deq_turn" /\ pc'[p] = "deq_reload"
      \/ pc[p] = "enq_wait" /\ pc'[p] = "construct" /\ turn[Idx(ticket[p])] = 2 * Lap(ticket[p])
      \/ pc[p] = "enq_wait" /\ pc'[p] = "enq_wait"
      \/ pc[p] = "deq_wait" /\ pc'[p] = "move" /\ Published(ticket[p])
      \/ pc[p] = "deq_wait" /\ pc'[p] = "deq_wait"
  BY <1>3 DEF CheckTurn, Goto, Published, Inv, TypeOK
<1>5. Own(p)
  BY DEF Inv
<1>6. Own(p)' /\ pc[p] # "free" /\ (Producing(p)' => Producing(p)) /\ (Consuming(p)' => Consuming(p))
  BY <1>1, <1>4, <1>5 DEF Own, Drawing, Waiting, Producing, Consuming, Published
<1> QED BY <1>1, <1>2, <1>6, Quiet

\* A producer gets ticket head_, by compare-and-swap or by fetch_add.
LEMMA DrawStep == ASSUME Inv, TypeOK', NEW p \in Procs, Draw(p), Others(p),
                         UNCHANGED <<tail_, turn, storage, hand>>, ticket'[p] = head_,
                         \/ pc[p] = "enq_cas" /\ pc'[p] = "construct" /\ ticket[p] = head_
                         \/ pc[p] = "push" /\ pc'[p] = "enq_wait"
                  PROVE  Inv'
<1>1. head_ \in Nat /\ head_' = head_ + 1 /\ \A q \in Procs : ticket[q] \in Nat
  BY DEF Draw, Inv, TypeOK
<1>2. sent'[head_] = hand[p] /\ \A t \in Nat : t < head_ => sent'[t] = sent[t]
  BY <1>1 DEF Draw
<1>3. Own(p)
  BY DEF Inv
<1>4. Own(p)'
  BY <1>1, <1>2, <1>3 DEF Own, Drawing, Waiting, Producing, Consuming, Published
<1>5. ASSUME NEW q \in Procs, q # p PROVE Own(q)'
  <2>1. Own(q) /\ pc'[q] = pc[q] /\ ticket'[q] = ticket[q] /\ hand'[q] = hand[q]
    BY <1>5 DEF Inv, Others
  <2>2. ticket[q] < head_ => sent'[ticket[q]] = sent[ticket[q]]
    BY <1>1, <1>2
  <2> QED BY <1>1, <2>1, <2>2 DEF Own, Drawing, Waiting, Producing, Consuming, Published
<1>6. Apart'
  <2>1. \A q \in Procs \ {p} : Producing(q)' => ticket'[q] < head_
    BY DEF Inv, Own, Others, Producing
  <2>2. ~Consuming(p)'
    BY DEF Consuming
  <2> QED BY <1>1, <2>1, <2>2 DEF Inv, Apart, Others, Producing, Consuming
<1>7. Full'
  <2> SUFFICES ASSUME NEW t \in Nat, Published(t)
               PROVE  t < head_' /\ ((\A q \in Procs : pc'[q] = "free" => ticket'[q] # t)
                                       => storage[Idx(t)] = sent'[t])
    BY DEF Full, Published
  <2>1. t < head_ /\ ((\A q \in Procs : pc[q] = "free" => ticket[q] # t) => storage[Idx(t)] = sent[t])
    BY DEF Inv, Full
  <2>2. (\A q \in Procs : pc'[q] = "free" => ticket'[q] # t)
          => (\A q \in Procs : pc[q] = "free" => ticket[q] # t)
    BY DEF Others
  <2> QED BY <1>1, <1>2, <2>1, <2>2
<1> QED BY <1>4, <1>5, <1>6, <1>7 DEF Inv

\* A consumer gets ticket tail_, by compare-and-swap or by fetch_add.
LEMMA TakeStep == ASSUME Inv, TypeOK', NEW p \in Procs, Others(p), tail_' = tail_ + 1,
                         UNCHANGED <<head_, turn, storage, hand, sent>>, ticket'[p] = tail_,
                         \/ pc[p] = "deq_cas" /\ pc'[p] = "move" /\ ticket[p] = tail_
                         \/ pc[p] = "pop" /\ pc'[p] = "deq_wait"
                  PROVE  Inv'
<1>1. tail_ \in Nat /\ \A q \in Procs : ticket[q] \in Nat
  BY DEF Inv, TypeOK
<1>2. Own(p)
  BY DEF Inv
<1>3. Own(p)'
  BY <1>1, <1>2 DEF Own, Drawing, Waiting, Producing, Consuming, Published
<1>4. ASSUME NEW q \in Procs, q # p PROVE Own(q)'
  <2>1. Own(q) /\ pc'[q] = pc[q] /\ ticket'[q] = ticket[q] /\ hand'[q] = hand[q]
    BY <1>4 DEF Inv, Others
  <2> QED BY <1>1, <2>1 DEF Own, Drawing, Waiting, Producing, Consuming, Published
<1>5. Apart'
  <2>1. \A q \in Procs \ {p} : Consuming(q)' => ticket'[q] < tail_
    BY DEF Inv, Own, Others, Consuming
  <2>2. ~Producing(p)'
    BY DEF Producing
  <2> QED BY <1>1, <2>1, <2>2 DEF Inv, Apart, Others, Producing, Consuming
<1>6. Full'
  BY DEF Inv, Others, Full, Published
<1> QED BY <1>3, <1>4, <1>5, <1>6 DEF Inv

LEMMA ConstructStep == ASSUME Inv, TypeOK', NEW p \in Procs, Construct(p, "construct", "publish")
                       PROVE  Inv'
<1> DEFINE k == Idx(ticket[p])
<1>1. UNCHANGED <<head_, tail_, turn, hand, ticket, sent>>
  BY DEF Construct
<1>2. Others(p) /\ pc[p] = "construct" /\ pc'[p] = "publish"
  BY <1>1 DEF Construct, Goto, Others, Inv, TypeOK
<1>3. k \in Slots /\ Lap(ticket[p]) \in Nat /\ ticket[p] \in Nat
  BY Split DEF Inv, TypeOK
<1>4. storage'[k] = hand[p] /\ \A i \in Slots \ {k} : storage'[i] = storage[i]
  BY <1>3 DEF Construct, Inv, TypeOK
<1>5. turn[k] = 2 * Lap(ticket[p]) /\ ticket[p] < head_ /\ hand[p] = sent[ticket[p]]
  BY <1>2 DEF Inv, Own, Producing
<1>6. Own(p)'
  BY <1>1, <1>2, <1>4, <1>5 DEF Own, Drawing, Waiting, Producing, Consuming, Published
<1>7. ASSUME NEW q \in Procs, q # p PROVE Own(q)'
  <2>1. Own(q) /\ pc'[q] = pc[q] /\ ticket'[q] = ticket[q] /\ hand'[q] = hand[q]
    BY <1>2, <1>7 DEF Inv, Others
  <2>2. pc[q] = "publish" => Idx(ticket[q]) \in Slots \ {k}
    BY <1>2, <1>7, OneInSlot, Split DEF InSlot, Inv, TypeOK
  <2> QED BY <1>1, <1>4, <2>1, <2>2 DEF Own, Drawing, Waiting, Producing, Consuming, Published
<1>8. Apart'
  BY <1>1, <1>2 DEF Inv, Apart, Others, Producing, Consuming
<1>9. Full'
  <2> SUFFICES ASSUME NEW t \in Nat, Published(t)
               PROVE  t < head_ /\ ((\A q \in Procs : pc'[q] = "free" => ticket[q] # t)
                                      => storage'[Idx(t)] = sent[t])
    BY <1>1 DEF Full, Published
  <2>1. Idx(t) \in Slots /\ Lap(t) \in Nat
    BY Split
  <2>2. Idx(t) # k
    BY <1>3, <1>5, <2>1 DEF Published
  <2>3. (\A q \in Procs : pc'[q] = "free" => ticket[q] # t)
          => (\A q \in Procs : pc[q] = "free" => ticket[q] # t)
    BY <1>2 DEF Others
  <2> QED BY <1>4, <2>1, <2>2, <2>3 DEF Inv, Full
<1> QED BY <1>6, <1>7, <1>8, <1>9 DEF Inv

LEMMA PublishStep == ASSUME Inv, TypeOK', NEW p \in Procs, PublishTurn(p, "publish", "return")
                     PROVE  Inv'
<1> DEFINE k == Idx(ticket[p])
<1>1. UNCHANGED <<head_, tail_, storage, ticket, sent>>
  BY DEF PublishTurn
<1>2. Others(p) /\ pc[p] = "publish" /\ pc'[p] = "return"
  BY <1>1 DEF PublishTurn, Goto, Others, Inv, TypeOK
<1>3. k \in Slots /\ Lap(ticket[p]) \in Nat /\ ticket[p] \in Nat
  BY Split DEF Inv, TypeOK
<1>4. turn'[k] = 2 * Lap(ticket[p]) + 1 /\ \A i \in Slots \ {k} : turn'[i] = turn[i]
  BY <1>3 DEF PublishTurn, Inv, TypeOK
<1>5. /\ turn[k] = 2 * Lap(ticket[p]) /\ ticket[p] < head_
      /\ storage[k] = sent[ticket[p]]
  BY <1>2 DEF Inv, Own, Producing
<1>6. Own(p)'
  BY <1>2 DEF Own, Drawing, Waiting, Producing, Consuming
<1>7. ASSUME NEW q \in Procs, q # p PROVE Own(q)'
  <2>1. Own(q) /\ pc'[q] = pc[q] /\ ticket'[q] = ticket[q] /\ hand'[q] = hand[q]
    BY <1>2, <1>7 DEF Inv, Others
  <2>2. ticket[q] \in Nat /\ Idx(ticket[q]) \in Slots /\ Lap(ticket[q]) \in Nat
    BY Split DEF Inv, TypeOK
  <2>3. InSlot(q) => Idx(ticket[q]) # k
    BY <1>2, <1>7, OneInSlot DEF InSlot
  <2>4. pc[q] = "enq_cas" /\ head_ = ticket[q] => Idx(ticket[q]) # k
    <3> SUFFICES ASSUME pc[q] = "enq_cas", head_ = ticket[q], Idx(ticket[q]) = k PROVE FALSE
      OBVIOUS
    <3>1. 2 * Lap(ticket[q]) = 2 * Lap(ticket[p])
      BY <1>5, <2>1 DEF Own
    <3>2. ticket[q] = ticket[p]
      BY <1>3, <2>2, <3>1, OneTicket
    <3> QED BY <1>3, <1>5, <3>2
  <2>5. pc[q] = "deq_cas" /\ tail_ = ticket[q] => Idx(ticket[q]) # k
    BY <1>3, <1>5, <2>1, <2>2 DEF Own, Published
  <2> QED BY <1>1, <1>4, <2>1, <2>2, <2>3, <2>4, <2>5
          DEF Own, Drawing, Waiting, Producing, Consuming, Published, InSlot
<1>8. Apart'
  BY <1>1, <1>2 DEF Inv, Apart, Others, Producing, Consuming
<1>9. Full'
  <2> SUFFICES ASSUME NEW t \in Nat, turn'[Idx(t)] = 2 * Lap(t) + 1
               PROVE  t < head_ /\ ((\A q \in Procs : pc'[q] = "free" => ticket[q] # t)
                                      => storage[Idx(t)] = sent[t])
    BY <1>1 DEF Full, Published
  <2>1. Idx(t) \in Slots /\ Lap(t) \in Nat
    BY Split
  <2>2. CASE Idx(t) = k
    <3>1. t = ticket[p]
      BY <1>3, <1>4, <2>1, <2>2, OneTicket
    <3> QED BY <1>5, <2>2, <3>1
  <2>3. CASE Idx(t) # k
    <3>1. Published(t)
      BY <1>4, <2>1, <2>3 DEF Published
    <3>2. (\A q \in Procs : pc'[q] = "free" => ticket[q] # t)
            => (\A q \in Procs : pc[q] = "free" => ticket[q] # t)
      BY <1>2 DEF Others
    <3> QED BY <3>1, <3>2 DEF Inv, Full
  <2> QED BY <2>2, <2>3
<1> QED BY <1>6, <1>7, <1>8, <1>9 DEF Inv

LEMMA MoveStep == ASSUME Inv, TypeOK', NEW p \in Procs, MoveOut(p, "move", "free")
                  PROVE  Inv'
<1> DEFINE k == Idx(ticket[p])
<1>1. UNCHANGED <<head_, tail_, turn, ticket, sent>>
  BY DEF MoveOut
<1>2. Others(p) /\ pc[p] = "move" /\ pc'[p] = "free"
  BY <1>1 DEF MoveOut, Goto, Others, Inv, TypeOK
<1>3. k \in Slots /\ Lap(ticket[p]) \in Nat /\ ticket[p] \in Nat
  BY Split DEF Inv, TypeOK
<1>4. hand'[p] = storage[k] /\ \A i \in Slots \ {k} : storage'[i] = storage[i]
  BY <1>3 DEF MoveOut, Inv, TypeOK
<1>5. Published(ticket[p]) /\ ticket[p] < tail_
  BY <1>2 DEF Inv, Own, Consuming
<1>6. \A q \in Procs : pc[q] = "free" => ticket[q] # ticket[p]
  BY <1>2 DEF Inv, Apart, Consuming
<1>7. ticket[p] < head_ /\ storage[k] = sent[ticket[p]]
  BY <1>3, <1>5, <1>6 DEF Inv, Full
<1>8. Own(p)'
  BY <1>1, <1>2, <1>4, <1>5, <1>7 DEF Own, Drawing, Waiting, Producing, Consuming, Published
<1>9. ASSUME NEW q \in Procs, q # p PROVE Own(q)'
  <2>1. Own(q) /\ pc'[q] = pc[q] /\ ticket'[q] = ticket[q] /\ hand'[q] = hand[q]
    BY <1>2, <1>9 DEF Inv, Others
  <2>2. pc[q] = "publish" => Idx(ticket[q]) \in Slots \ {k}
    BY <1>2, <1>9, OneInSlot, Split DEF InSlot, Inv, TypeOK
  <2> QED BY <1>1, <1>4, <2>1, <2>2 DEF Own, Drawing, Waiting, Producing, Consuming, Published
<1>10. Apart'
  BY <1>1, <1>2 DEF Inv, Apart, Others, Producing, Consuming
<1>11. Full'
  <2> SUFFICES ASSUME NEW t \in Nat, Published(t)
               PROVE  t < head_ /\ ((\A q \in Procs : pc'[q] = "free" => ticket[q] # t)
                                      => storage'[Idx(t)] = sent[t])
    BY <1>1 DEF Full, Published
  <2>1. Idx(t) \in Slots /\ Lap(t) \in Nat
    BY Split
  <2>2. Idx(t) = k => t = ticket[p]
    BY <1>3, <1>5, <2>1, OneTicket DEF Published
  <2>3. (\A q \in Procs : pc'[q] = "free" => ticket[q] # t)
          => (\A q \in Procs : pc[q] = "free" => ticket[q] # t) /\ t # ticket[p]
    BY <1>2 DEF Others
  <2> QED BY <1>4, <2>1, <2>2, <2>3 DEF Inv, Full
<1> QED BY <1>8, <1>9, <1>10, <1>11 DEF Inv

LEMMA FreeStep == ASSUME Inv, TypeOK', NEW p \in Procs, FreeTurn(p, "free", "return")
                  PROVE  Inv'
<1> DEFINE k == Idx(ticket[p])
<1>1. UNCHANGED <<head_, tail_, storage, hand, ticket, sent>>
  BY DEF FreeTurn
<1>2. Others(p) /\ pc[p] = "free" /\ pc'[p] = "return"
  BY <1>1 DEF FreeTurn, Goto, Others, Inv, TypeOK
<1>3. k \in Slots /\ Lap(ticket[p]) \in Nat /\ ticket[p] \in Nat
  BY Split DEF Inv, TypeOK
<1>4. turn'[k] = 2 * Lap(ticket[p]) + 2 /\ \A i \in Slots \ {k} : turn'[i] = turn[i]
  BY <1>3 DEF FreeTurn, Inv, TypeOK
<1>5. turn[k] = 2 * Lap(ticket[p]) + 1 /\ ticket[p] < tail_
  BY <1>2 DEF Inv, Own, Consuming, Published
<1>6. Own(p)'
  BY <1>2 DEF Own, Drawing, Waiting, Producing, Consuming
<1>7. ASSUME NEW q \in Procs, q # p PROVE Own(q)'
  <2>1. Own(q) /\ pc'[q] = pc[q] /\ ticket'[q] = ticket[q] /\ hand'[q] = hand[q]
    BY <1>2, <1>7 DEF Inv, Others
  <2>2. ticket[q] \in Nat /\ Idx(ticket[q]) \in Slots /\ Lap(ticket[q]) \in Nat
    BY Split DEF Inv, TypeOK
  <2>3. InSlot(q) => Idx(ticket[q]) # k
    BY <1>2, <1>7, OneInSlot DEF InSlot
  <2>4. pc[q] = "enq_cas" /\ head_ = ticket[q] => Idx(ticket[q]) # k
    BY <1>3, <1>5, <2>1, <2>2 DEF Own
  <2>5. pc[q] = "deq_cas" /\ tail_ = ticket[q] => Idx(ticket[q]) # k
    <3> SUFFICES ASSUME pc[q] = "deq_cas", tail_ = ticket[q], Idx(ticket[q]) = k PROVE FALSE
      OBVIOUS
    <3>1. 2 * Lap(ticket[q]) = 2 * Lap(ticket[p])
      BY <1>3, <1>5, <2>1, <2>2 DEF Own, Published
    <3>2. ticket[q] = ticket[p]
      BY <1>3, <2>2, <3>1, OneTicket
    <3> QED BY <1>3, <1>5, <3>2
  <2> QED BY <1>1, <1>4, <2>1, <2>2, <2>3, <2>4, <2>5
          DEF Own, Drawing, Waiting, Producing, Consuming, Published, InSlot
<1>8. Apart'
  BY <1>1, <1>2 DEF Inv, Apart, Others, Producing, Consuming
<1>9. Full'
  <2> SUFFICES ASSUME NEW t \in Nat, turn'[Idx(t)] = 2 * Lap(t) + 1
               PROVE  t < head_ /\ ((\A q \in Procs : pc'[q] = "free" => ticket[q] # t)
                                      => storage[Idx(t)] = sent[t])
    BY <1>1 DEF Full, Published
  <2>1. Idx(t) \in Slots /\ Lap(t) \in Nat
    BY Split
  <2>2. Idx(t) # k
    BY <1>3, <1>4, <2>1
  <2>3. Published(t) /\ t # ticket[p]
    BY <1>4, <2>1, <2>2 DEF Published
  <2>4. (\A q \in Procs : pc'[q] = "free" => ticket[q] # t)
          => (\A q \in Procs : pc[q] = "free" => ticket[q] # t)
    BY <1>2, <2>3 DEF Others
  <2> QED BY <2>3, <2>4 DEF Inv, Full
<1> QED BY <1>6, <1>7, <1>8, <1>9 DEF Inv

\* The start and the end of a call.
LEMMA EdgeStep == ASSUME Inv, TypeOK', NEW p \in Procs, Call(p) \/ Return(p)
                  PROVE  Inv'
<1>1. UNCHANGED <<head_, tail_, turn, storage, sent>>
  BY DEF Call, Return, slots
<1>2. Others(p)
  BY DEF Call, Return, Goto, Others, Inv, TypeOK
<1>3. pc[p] \in {"idle", "return"} /\ pc'[p] \in Ops \cup {"idle"}
  BY UsesAssumption DEF Call, Return, Goto, Inv, TypeOK
<1>4. Own(p)' /\ ~Producing(p)' /\ ~Consuming(p)'
  BY <1>3 DEF Own, Drawing, Waiting, Producing, Consuming, Ops, TryOps
<1> QED BY <1>1, <1>2, <1>3, <1>4, Quiet

-----------------------------------------------------------------------------
LEMMA InvInit == Init => Inv
<1> SUFFICES ASSUME Init PROVE Inv
  OBVIOUS
<1>1. \A p \in Procs : pc[p] = "idle"
  BY DEF Init
<1>2. \A p \in Procs : Own(p)
  BY <1>1 DEF Own, Drawing, Waiting, Producing, Consuming
<1>3. Apart
  BY <1>1 DEF Apart, Producing, Consuming
<1>4. Full
  <2> SUFFICES ASSUME NEW t \in Nat, Published(t) PROVE FALSE
    BY DEF Full
  <2>1. turn[Idx(t)] = 0 /\ Lap(t) \in Nat
    BY Split DEF Init
  <2> QED BY <2>1 DEF Published
<1> QED BY TypeInit, <1>2, <1>3, <1>4 DEF Inv

LEMMA InvStep == Inv /\ [Next]_vars => Inv'
<1> SUFFICES ASSUME Inv, [Next]_vars PROVE Inv'
  OBVIOUS
<1>1. TypeOK /\ TypeOK'
  BY TypeStep DEF Inv
<1>2. CASE UNCHANGED vars
  BY <1>1, <1>2 DEF Inv, vars, slots, Own, Apart, Full, Drawing, Waiting, Producing, Consuming,
                    Published
<1>3. CASE Next
  <2>1. PICK p \in Procs : Call(p) \/ Step(p)
    BY <1>3 DEF Next
  <2>2. CASE Call(p) \/ Return(p)
    BY <1>1, <2>2, EdgeStep
  <2>3. CASE TryEmplace(p)
    <3>1. CASE /\ head_ = ticket[p] /\ Goto(p, "enq_cas", "construct") /\ Draw(p)
               /\ UNCHANGED <<tail_, slots, call, hand, ticket>>
      <4>1. Others(p) /\ pc[p] = "enq_cas" /\ pc'[p] = "construct"
        BY <1>1, <3>1 DEF Others, Goto, TypeOK
      <4> QED BY <1>1, <3>1, <4>1, DrawStep DEF slots
    <3> QED BY <1>1, <2>3, <3>1, LoadStep, CheckStep DEF TryEmplace
  <2>4. CASE TryPop(p)
    <3>1. CASE /\ tail_ = ticket[p] /\ Goto(p, "deq_cas", "move") /\ tail_' = tail_ + 1
               /\ UNCHANGED <<head_, slots, call, hand, ticket, sent>>
      <4>1. Others(p) /\ pc[p] = "deq_cas" /\ pc'[p] = "move"
        BY <1>1, <3>1 DEF Others, Goto, TypeOK
      <4> QED BY <1>1, <3>1, <4>1, TakeStep DEF slots
    <3> QED BY <1>1, <2>4, <3>1, LoadStep, CheckStep DEF TryPop
  <2>5. CASE Emplace(p)
    <3>1. CASE /\ Goto(p, "push", "enq_wait") /\ Draw(p)
               /\ ticket' = [ticket EXCEPT ![p] = head_]
               /\ UNCHANGED <<tail_, slots, call, hand>>
      <4>1. Others(p) /\ pc[p] = "push" /\ pc'[p] = "enq_wait" /\ ticket'[p] = head_
        BY <1>1, <3>1 DEF Others, Goto, TypeOK
      <4> QED BY <1>1, <3>1, <4>1, DrawStep DEF slots
    <3> QED BY <1>1, <2>5, <3>1, CheckStep DEF Emplace
  <2>6. CASE Pop(p)
    <3>1. CASE /\ Goto(p, "pop", "deq_wait") /\ tail_' = tail_ + 1
               /\ ticket' = [ticket EXCEPT ![p] = tail_]
               /\ UNCHANGED <<head_, slots, call, hand, sent>>
      <4>1. Others(p) /\ pc[p] = "pop" /\ pc'[p] = "deq_wait" /\ ticket'[p] = tail_
        BY <1>1, <3>1 DEF Others, Goto, TypeOK
      <4> QED BY <1>1, <3>1, <4>1, TakeStep DEF slots
    <3> QED BY <1>1, <2>6, <3>1, CheckStep DEF Pop
  <2>7. CASE Fill(p)
    BY <1>1, <2>7, ConstructStep, PublishStep DEF Fill
  <2>8. CASE Empty(p)
    BY <1>1, <2>8, MoveStep, FreeStep DEF Empty
  <2> QED BY <2>1, <2>2, <2>3, <2>4, <2>5, <2>6, <2>7, <2>8 DEF Step
<1> QED BY <1>2, <1>3

-----------------------------------------------------------------------------
LEMMA Invariance == Spec => []Inv
BY InvInit, InvStep, PTL DEF Spec

\* THEOREM: no slot ever has two threads in it, be they producers and
\* consumers of different laps and whatever their number and the capacity.
THEOREM OneThreadInSlot == Spec => []NoTwoInSlot
<1>1. Inv => NoTwoInSlot
  BY OneInSlot DEF NoTwoInSlot
<1> QED BY <1>1, Invariance, PTL

\* THEOREM: a consumer gets the value of its own ticket: the queue loses,
\* repeats and reorders nothing, for every capacity and number of threads.
THEOREM DeliveredInOrder == Spec => []Delivery
<1>1. Inv => Delivery
  BY DEF Inv, Own, Delivery
<1> QED BY <1>1, Invariance, PTL

-----------------------------------------------------------------------------
(* The refinement of Mailbox.                                              *)

\* The pool's calls; and Nobody is no thread.
TryOnly == \A p \in Procs : Uses[p] \subseteq TryOps
NobodyElse == Nobody \notin Procs

-----------------------------------------------------------------------------
(* What Inv does not say: what the call of a thread is, and of every slot  *)
(* whose move it is.                                                       *)

Enqueuing == {"try_push", "enq_turn", "enq_cas", "enq_reload", "construct", "publish"}
Dequeuing == {"try_pop", "deq_turn", "deq_cas", "deq_reload", "move", "free"}

\* A call that comes back in vain has met its reason, and knows it from the
\* moment it compares the counter for the last time.
Says(p) ==
  /\ pc[p] \in Enqueuing \cup Dequeuing \cup {"idle", "return"}
  /\ pc[p] \in Enqueuing => call[p] = "try_push" /\ hand[p] # NoValue
  /\ pc[p] \in Dequeuing => call[p] = "try_pop" /\ (hand[p] # NoValue <=> pc[p] = "free")
  /\ pc[p] = "idle" => call[p] = "idle" /\ hand[p] = NoValue
  /\ pc[p] = "return" =>
       \/ call[p] = "try_push" /\ (hand[p] = NoValue \/ p \in refused)
       \/ call[p] = "try_pop" /\ (hand[p] # NoValue \/ p \in refused)
  /\ pc[p] = "enq_reload" /\ head_ = ticket[p] => p \in refused
  /\ pc[p] = "deq_reload" /\ tail_ = ticket[p] => p \in refused

Sent == \A t \in Nat : t < head_ => sent[t] # NoValue
Room == tail_ <= head_ /\ head_ <= tail_ + Capacity
Ahead == \A p \in Procs : Producing(p) => tail_ <= ticket[p]
\* A ticket drawn by a producer only is published, or the producer is at it.
Held == \A t \in Nat : tail_ <= t /\ t < head_ =>
  Published(t) \/ \E p \in Procs : Producing(p) /\ ticket[p] = t
\* The slot of a ticket that may be drawn next is free, or about to be freed.
Vacant == \A t \in Nat : head_ <= t /\ t < tail_ + Capacity =>
  turn[Idx(t)] = 2 * Lap(t) \/ \E p \in Procs : p \in Leaving /\ ticket[p] + Capacity = t

Deal == Sent /\ Room /\ Ahead /\ Held /\ Vacant
Trade == Inv /\ (\A p \in Procs : Says(p)) /\ Deal

LEMMA NextLap == ASSUME NEW t \in Nat
                 PROVE  Idx(t + Capacity) = Idx(t) /\ Lap(t + Capacity) = Lap(t) + 1
<1>1. Capacity \in Nat /\ Capacity >= 1
  BY CapacityAssumption
<1>2. (t + Capacity) % Capacity = t % Capacity /\ (t + Capacity) \div Capacity = t \div Capacity + 1
  <2> DEFINE q == t \div Capacity
             m == t % Capacity
  <2>1. q \in Nat /\ m \in 0 .. Capacity - 1 /\ t = Capacity * q + m
    BY <1>1
  <2> HIDE DEF q, m
  <2>2. t + Capacity = Capacity * (q + 1) + m
    BY <1>1, <2>1
  <2>3. (t + Capacity) \div Capacity = q + 1 /\ (t + Capacity) % Capacity = m
    BY <1>1, <2>1, <2>2
  <2> QED BY <2>3 DEF q, m
<1> QED BY <1>2 DEF Idx, Lap

\* While one ticket is drawn only from the side of the producers, the slot of
\* the ticket one lap later is not free.
LEMMA FreeMeansRoom == ASSUME Inv, Deal, turn[Idx(head_)] = 2 * Lap(head_),
                              \A p \in Procs : ~(pc[p] = "enq_wait")
                       PROVE  head_ < tail_ + Capacity
<1> SUFFICES ASSUME tail_ + Capacity <= head_ PROVE FALSE
  BY CapacityAssumption DEF Inv, TypeOK
<1> DEFINE u == head_ - Capacity
<1>1. u \in Nat /\ u + Capacity = head_ /\ tail_ <= u /\ u < head_
  BY CapacityAssumption DEF Inv, TypeOK
<1> HIDE DEF u
<1>2. Idx(head_) = Idx(u) /\ Lap(head_) = Lap(u) + 1 /\ Lap(u) \in Nat
  BY <1>1, NextLap, Split
<1>3. CASE Published(u)
  BY <1>2, <1>3 DEF Published
<1>4. ASSUME NEW p \in Procs, Producing(p), ticket[p] = u PROVE FALSE
  <2>1. pc[p] \in {"construct", "publish"}
    BY <1>4 DEF Producing
  <2>2. turn[Idx(u)] = 2 * Lap(u)
    BY <1>4, <2>1 DEF Inv, Own
  <2> QED BY <1>2, <2>2
<1> QED BY <1>1, <1>3, <1>4 DEF Deal, Held

\* And the other way round: a slot that is not free explains a refusal.
LEMMA NotFreeMeansNoRoom == ASSUME Inv, Deal, turn[Idx(head_)] # 2 * Lap(head_)
                            PROVE  NoRoom
<1>1. head_ \in Nat /\ tail_ \in Nat /\ Capacity \in Nat
  BY CapacityAssumption DEF Inv, TypeOK
<1>2. CASE head_ < tail_ + Capacity
  BY <1>1, <1>2 DEF Deal, Vacant, NoRoom
<1>3. CASE ~(head_ < tail_ + Capacity)
  BY <1>1, <1>3 DEF NoRoom
<1> QED BY <1>2, <1>3

\* Whoever is about to move out of a slot finds its ticket's value there.
LEMMA MovesSent == ASSUME Inv, NEW p \in Procs, pc[p] = "move"
                   PROVE  /\ ticket[p] \in Nat /\ ticket[p] < head_
                          /\ storage[Idx(ticket[p])] = sent[ticket[p]]
<1>1. ticket[p] \in Nat /\ Published(ticket[p])
  BY DEF Inv, Own, TypeOK
<1>2. \A q \in Procs : pc[q] = "free" => ticket[q] # ticket[p]
  BY DEF Inv, Apart, Consuming
<1> QED BY <1>1, <1>2 DEF Inv, Full

-----------------------------------------------------------------------------
(* One lemma for each kind of step: the thread, the others, the deal.      *)

\* A reason once met stays until the call returns.
LEMMA Remember == ASSUME Watch, NEW q \in Procs, q \in refused, call'[q] \in TryOps
                  PROVE  q \in refused'
BY DEF Watch, TryOps

LEMMA OthersSay == ASSUME Trade, Watch, NEW p \in Procs, NEW q \in Procs \ {p}, Others(p),
                          call'[q] = call[q], head_' \in Nat, tail_' \in Nat,
                          head_ <= head_', tail_ <= tail_'
                   PROVE  Says(q)'
<1>1. pc'[q] = pc[q] /\ ticket'[q] = ticket[q] /\ hand'[q] = hand[q] /\ call'[q] = call[q]
  BY DEF Others
<1>2. Says(q) /\ Own(q) /\ head_ \in Nat /\ tail_ \in Nat /\ ticket[q] \in Nat
  BY DEF Trade, Inv, TypeOK
<1>3. call[q] \in TryOps /\ q \in refused => q \in refused'
  BY <1>1, Remember
<1>4. pc[q] = "enq_reload" /\ head_' = ticket[q] => q \in refused'
  <2> SUFFICES ASSUME pc[q] = "enq_reload", head_' = ticket[q] PROVE q \in refused'
    OBVIOUS
  <2>1. head_ = ticket[q]
    BY <1>2 DEF Own, Drawing
  <2> QED BY <1>2, <1>3, <2>1 DEF Says, Enqueuing, TryOps
<1>5. pc[q] = "deq_reload" /\ tail_' = ticket[q] => q \in refused'
  <2> SUFFICES ASSUME pc[q] = "deq_reload", tail_' = ticket[q] PROVE q \in refused'
    OBVIOUS
  <2>1. tail_ = ticket[q]
    BY <1>2 DEF Own, Waiting
  <2> QED BY <1>2, <1>3, <2>1 DEF Says, Dequeuing, TryOps
<1>6. pc[q] = "return" =>
       \/ call[q] = "try_push" /\ (hand[q] = NoValue \/ q \in refused')
       \/ call[q] = "try_pop" /\ (hand[q] # NoValue \/ q \in refused')
  BY <1>2, <1>3 DEF Says, TryOps
<1> QED BY <1>1, <1>2, <1>4, <1>5, <1>6 DEF Says

LEMMA SameDeal == ASSUME Trade, NEW p \in Procs, Others(p),
                         UNCHANGED <<head_, tail_, turn, sent>>,
                         Producing(p)' <=> Producing(p),
                         p \in Leaving' <=> p \in Leaving,
                         Producing(p) \/ p \in Leaving => ticket'[p] = ticket[p]
                  PROVE  Deal'
<1>1. \A q \in Procs : /\ Producing(q)' <=> Producing(q)
                       /\ q \in Leaving' <=> q \in Leaving
                       /\ Producing(q) \/ q \in Leaving => ticket'[q] = ticket[q]
  BY DEF Others, Producing, Leaving
<1>2. Deal
  BY DEF Trade
<1>3. Sent' /\ Room'
  BY <1>2 DEF Deal, Sent, Room
<1>4. Ahead'
  BY <1>1, <1>2 DEF Deal, Ahead
<1>5. Held'
  BY <1>1, <1>2 DEF Deal, Held, Published
<1>6. Vacant'
  BY <1>1, <1>2 DEF Deal, Vacant
<1> QED BY <1>3, <1>4, <1>5, <1>6 DEF Deal

LEMMA CallTrade == ASSUME Trade, TryOnly, Watch, TypeOK', NEW p \in Procs, Call(p)
                   PROVE  (\A q \in Procs : Says(q)') /\ Deal'
<1>1. PICK op \in Uses[p] : /\ Goto(p, "idle", op) /\ call' = [call EXCEPT ![p] = op]
                            /\ IF op \in {"try_push", "push"}
                               THEN \E v \in Values : hand' = [hand EXCEPT ![p] = v]
                               ELSE UNCHANGED hand
  BY DEF Call
<1>2. op \in TryOps
  BY DEF TryOnly
<1>3. UNCHANGED <<head_, tail_, turn, storage, ticket, sent>>
  BY DEF Call, slots
<1>4. Others(p) /\ pc[p] = "idle" /\ pc'[p] = op /\ call'[p] = op
      /\ \A q \in Procs \ {p} : call'[q] = call[q]
  BY <1>1, <1>3 DEF Others, Goto, Trade, Inv, TypeOK
<1>5. op = "try_push" => hand'[p] # NoValue
  BY <1>1, ValuesAssumption DEF Trade, Inv, TypeOK
<1>6. op = "try_pop" => hand'[p] = NoValue
  <2>1. hand[p] = NoValue
    BY <1>4 DEF Trade, Says
  <2> QED BY <1>1, <2>1
<1>7. Says(p)'
  BY <1>2, <1>4, <1>5, <1>6 DEF Says, Enqueuing, Dequeuing, TryOps
<1>8. \A q \in Procs \ {p} : Says(q)'
  BY <1>3, <1>4, OthersSay DEF Trade, Inv, TypeOK
<1>9. Deal'
  BY <1>2, <1>3, <1>4, SameDeal DEF Producing, Leaving, TryOps
<1> QED BY <1>7, <1>8, <1>9

LEMMA ReturnTrade == ASSUME Trade, Watch, TypeOK', NEW p \in Procs, Return(p)
                     PROVE  (\A q \in Procs : Says(q)') /\ Deal'
<1>1. UNCHANGED <<head_, tail_, turn, storage, sent>>
  BY DEF Return, slots
<1>2. Others(p) /\ pc[p] = "return" /\ pc'[p] = "idle" /\ call'[p] = "idle" /\ hand'[p] = NoValue
      /\ \A q \in Procs \ {p} : call'[q] = call[q]
  BY DEF Return, Others, Goto, Trade, Inv, TypeOK
<1>3. Says(p)'
  BY <1>2 DEF Says, Enqueuing, Dequeuing
<1>4. \A q \in Procs \ {p} : Says(q)'
  BY <1>1, <1>2, OthersSay DEF Trade, Inv, TypeOK
<1>5. Deal'
  BY <1>1, <1>2, SameDeal DEF Producing, Leaving
<1> QED BY <1>3, <1>4, <1>5

Loads(p) ==
  \/ LoadTicket(p, "try_push", head_, "enq_turn")
  \/ LoadTicket(p, "enq_cas", head_, "enq_turn")
  \/ LoadTicket(p, "enq_reload", head_, IF head_ = ticket[p] THEN "return" ELSE "enq_turn")
  \/ LoadTicket(p, "try_pop", tail_, "deq_turn")
  \/ LoadTicket(p, "deq_cas", tail_, "deq_turn")
  \/ LoadTicket(p, "deq_reload", tail_, IF tail_ = ticket[p] THEN "return" ELSE "deq_turn")

LEMMA LoadTrade == ASSUME Trade, Watch, TypeOK', NEW p \in Procs, Loads(p)
                   PROVE  (\A q \in Procs : Says(q)') /\ Deal'
<1>1. UNCHANGED <<head_, tail_, turn, storage, call, hand, sent>>
  BY DEF Loads, LoadTicket, slots
<1>2. Others(p)
  BY <1>1 DEF Loads, LoadTicket, Others, Goto, Trade, Inv, TypeOK
<1>3. \/ pc[p] \in {"try_push", "enq_cas", "enq_reload"} /\ pc'[p] = "enq_turn"
      \/ pc[p] \in {"try_pop", "deq_cas", "deq_reload"} /\ pc'[p] = "deq_turn"
      \/ pc[p] = "enq_reload" /\ pc'[p] = "return" /\ head_ = ticket[p]
      \/ pc[p] = "deq_reload" /\ pc'[p] = "return" /\ tail_ = ticket[p]
  BY DEF Loads, LoadTicket, Goto, Trade, Inv, TypeOK
<1>4. Says(p)
  BY DEF Trade
<1>5. pc'[p] = "return" => p \in refused'
  BY <1>1, <1>3, <1>4, Remember DEF Says, Enqueuing, Dequeuing, TryOps
<1>6. Says(p)'
  BY <1>1, <1>3, <1>4, <1>5 DEF Says, Enqueuing, Dequeuing
<1>7. \A q \in Procs \ {p} : Says(q)'
  BY <1>1, <1>2, OthersSay DEF Trade, Inv, TypeOK
<1>8. Deal'
  BY <1>1, <1>2, <1>3, SameDeal DEF Producing, Leaving
<1> QED BY <1>6, <1>7, <1>8

Checks(p) ==
  \/ CheckTurn(p, "enq_turn", 0, "enq_cas", "enq_reload")
  \/ CheckTurn(p, "deq_turn", 1, "deq_cas", "deq_reload")

LEMMA CheckTrade == ASSUME Trade, Watch, TypeOK', NEW p \in Procs, Checks(p)
                    PROVE  (\A q \in Procs : Says(q)') /\ Deal'
<1>1. UNCHANGED <<head_, tail_, turn, storage, call, hand, ticket, sent>>
  BY DEF Checks, CheckTurn, slots
<1>2. Others(p)
  BY <1>1 DEF Checks, CheckTurn, Others, Goto, Trade, Inv, TypeOK
<1>3. ticket[p] \in Nat /\ Lap(ticket[p]) \in Nat
  BY Split DEF Trade, Inv, TypeOK
<1>4. \/ pc[p] = "enq_turn" /\ pc'[p] = "enq_cas"
      \/ pc[p] = "enq_turn" /\ pc'[p] = "enq_reload" /\ turn[Idx(ticket[p])] # 2 * Lap(ticket[p])
      \/ pc[p] = "deq_turn" /\ pc'[p] = "deq_cas"
      \/ pc[p] = "deq_turn" /\ pc'[p] = "deq_reload" /\ ~Published(ticket[p])
  BY <1>3 DEF Checks, CheckTurn, Goto, Published, Trade, Inv, TypeOK
<1>5. Says(p)
  BY DEF Trade
<1>6. NoRoom' = NoRoom /\ NoItem' = NoItem
  <2>1. Leaving' = Leaving
    BY <1>2, <1>4 DEF Leaving, Others
  <2> QED BY <1>1, <2>1 DEF NoRoom, NoItem, Published
<1>7. pc'[p] = "enq_reload" /\ head_ = ticket[p] => p \in refused'
  <2> SUFFICES ASSUME pc'[p] = "enq_reload", head_ = ticket[p] PROVE p \in refused'
    OBVIOUS
  <2>1. NoRoom /\ call[p] = "try_push"
    BY <1>4, <1>5, NotFreeMeansNoRoom DEF Trade, Says, Enqueuing
  <2> QED BY <1>1, <1>6, <2>1 DEF Watch
<1>8. pc'[p] = "deq_reload" /\ tail_ = ticket[p] => p \in refused'
  <2> SUFFICES ASSUME pc'[p] = "deq_reload", tail_ = ticket[p] PROVE p \in refused'
    OBVIOUS
  <2>1. NoItem /\ call[p] = "try_pop"
    BY <1>4, <1>5 DEF Says, Dequeuing, NoItem
  <2> QED BY <1>1, <1>6, <2>1 DEF Watch
<1>9. Says(p)'
  BY <1>1, <1>4, <1>5, <1>7, <1>8 DEF Says, Enqueuing, Dequeuing
<1>10. \A q \in Procs \ {p} : Says(q)'
  BY <1>1, <1>2, OthersSay DEF Trade, Inv, TypeOK
<1>11. Deal'
  BY <1>1, <1>2, <1>4, SameDeal DEF Producing, Leaving
<1> QED BY <1>9, <1>10, <1>11

\* The producer draws its ticket.
DrawTicket(p) == /\ head_ = ticket[p] /\ Goto(p, "enq_cas", "construct") /\ Draw(p)
                 /\ UNCHANGED <<tail_, slots, call, hand, ticket>>

LEMMA DrawTrade == ASSUME Trade, Watch, TypeOK', NEW p \in Procs, DrawTicket(p)
                   PROVE  (\A q \in Procs : Says(q)') /\ Deal'
<1>1. UNCHANGED <<tail_, turn, storage, call, hand, ticket>>
  BY DEF DrawTicket, slots
<1>2. Others(p) /\ pc[p] = "enq_cas" /\ pc'[p] = "construct" /\ head_ = ticket[p]
  BY <1>1 DEF DrawTicket, Others, Goto, Trade, Inv, TypeOK
<1>3. head_ \in Nat /\ tail_ \in Nat /\ head_' = head_ + 1 /\ Capacity \in Nat
  BY CapacityAssumption DEF DrawTicket, Draw, Trade, Inv, TypeOK
<1>4. sent'[head_] = hand[p] /\ \A t \in Nat : t < head_ => sent'[t] = sent[t]
  BY <1>3 DEF DrawTicket, Draw
<1>5. Says(p) /\ Deal
  BY DEF Trade
<1>6. Says(p)'
  BY <1>1, <1>2, <1>5 DEF Says, Enqueuing, Dequeuing
<1>7. \A q \in Procs \ {p} : Says(q)'
  BY <1>1, <1>2, <1>3, OthersSay
<1>8. Sent'
  <2>1. hand[p] # NoValue
    BY <1>2, <1>5 DEF Says, Enqueuing
  <2> QED BY <1>3, <1>4, <1>5, <2>1 DEF Deal, Sent
<1>9. Room'
  <2>1. turn[Idx(head_)] = 2 * Lap(head_)
    BY <1>2 DEF Trade, Inv, Own
  <2>2. \A q \in Procs : pc[q] # "enq_wait"
    BY DEF Trade, Says, Enqueuing, Dequeuing
  <2>3. head_ < tail_ + Capacity
    BY <2>1, <2>2, FreeMeansRoom DEF Trade
  <2> QED BY <1>1, <1>3, <1>5, <2>3 DEF Deal, Room
<1>10. \A q \in Procs : Producing(q) => Producing(q)'
  BY <1>2 DEF Others, Producing
<1>11. Producing(p)'
  BY <1>2 DEF Producing
<1>12. Ahead'
  BY <1>1, <1>2, <1>5 DEF Deal, Ahead, Room, Others, Producing
<1>13. Held'
  <2> SUFFICES ASSUME NEW t \in Nat, tail_ <= t, t < head_'
               PROVE  Published(t)' \/ \E q \in Procs : Producing(q)' /\ ticket'[q] = t
    BY <1>1 DEF Held
  <2>1. CASE t = head_
    BY <1>1, <1>2, <1>11, <2>1
  <2>2. CASE t # head_
    BY <1>1, <1>3, <1>5, <1>10, <2>2 DEF Deal, Held, Published
  <2> QED BY <2>1, <2>2
<1>14. Vacant'
  <2>1. Leaving' = Leaving
    BY <1>2 DEF Leaving, Others
  <2> QED BY <1>1, <1>3, <1>5, <2>1 DEF Deal, Vacant
<1> QED BY <1>6, <1>7, <1>8, <1>9, <1>12, <1>13, <1>14 DEF Deal

\* The consumer draws its ticket.
TakeTicket(p) == /\ tail_ = ticket[p] /\ Goto(p, "deq_cas", "move") /\ tail_' = tail_ + 1
                 /\ UNCHANGED <<head_, slots, call, hand, ticket, sent>>

LEMMA TakeTrade == ASSUME Trade, Watch, TypeOK', NEW p \in Procs, TakeTicket(p)
                   PROVE  (\A q \in Procs : Says(q)') /\ Deal'
<1>1. UNCHANGED <<head_, turn, storage, call, hand, ticket, sent>>
  BY DEF TakeTicket, slots
<1>2. Others(p) /\ pc[p] = "deq_cas" /\ pc'[p] = "move" /\ tail_ = ticket[p]
  BY <1>1 DEF TakeTicket, Others, Goto, Trade, Inv, TypeOK
<1>3. head_ \in Nat /\ tail_ \in Nat /\ tail_' = tail_ + 1 /\ Capacity \in Nat /\ Capacity >= 1
  BY CapacityAssumption DEF TakeTicket, Trade, Inv, TypeOK
<1>4. Says(p) /\ Deal
  BY DEF Trade
<1>5. Published(tail_) /\ tail_ < head_
  <2>1. Published(tail_)
    BY <1>2 DEF Trade, Inv, Own
  <2> QED BY <1>3, <2>1 DEF Trade, Inv, Full
<1>6. Says(p)'
  BY <1>1, <1>2, <1>4 DEF Says, Enqueuing, Dequeuing
<1>7. \A q \in Procs \ {p} : Says(q)'
  BY <1>1, <1>2, <1>3, OthersSay
<1>8. Sent' /\ Room'
  BY <1>1, <1>3, <1>4, <1>5 DEF Deal, Sent, Room
<1>9. \A q \in Procs : Producing(q)' <=> Producing(q)
  BY <1>2 DEF Others, Producing
<1>10. Ahead'
  <2> SUFFICES ASSUME NEW q \in Procs, Producing(q) PROVE tail_ + 1 <= ticket[q]
    BY <1>1, <1>3, <1>9 DEF Ahead
  <2>1. tail_ <= ticket[q] /\ ticket[q] \in Nat
    BY <1>4 DEF Deal, Ahead, Trade, Inv, TypeOK
  <2>2. turn[Idx(ticket[q])] = 2 * Lap(ticket[q]) /\ Lap(ticket[q]) \in Nat
    <3>1. pc[q] \in {"construct", "publish"}
      BY DEF Producing, Trade, Says, Enqueuing, Dequeuing
    <3> QED BY <2>1, <3>1, Split DEF Trade, Inv, Own
  <2>3. tail_ # ticket[q]
    BY <1>5, <2>2 DEF Published
  <2> QED BY <1>3, <2>1, <2>3
<1>11. Held'
  BY <1>1, <1>3, <1>4, <1>9 DEF Deal, Held, Published
<1>12. Vacant'
  <2> SUFFICES ASSUME NEW t \in Nat, head_ <= t, t < tail_ + 1 + Capacity
               PROVE  turn[Idx(t)] = 2 * Lap(t)
                        \/ \E q \in Procs : q \in Leaving' /\ ticket[q] + Capacity = t
    BY <1>1, <1>3 DEF Vacant
  <2>1. Leaving \subseteq Leaving' /\ p \in Leaving'
    BY <1>2 DEF Leaving, Others
  <2>2. CASE t = tail_ + Capacity
    BY <1>2, <2>1, <2>2
  <2>3. CASE t # tail_ + Capacity
    BY <1>3, <1>4, <2>1, <2>3 DEF Deal, Vacant
  <2> QED BY <2>2, <2>3
<1> QED BY <1>6, <1>7, <1>8, <1>10, <1>11, <1>12 DEF Deal

LEMMA ConstructTrade == ASSUME Trade, Watch, TypeOK', NEW p \in Procs,
                               Construct(p, "construct", "publish")
                        PROVE  (\A q \in Procs : Says(q)') /\ Deal'
<1>1. UNCHANGED <<head_, tail_, turn, call, hand, ticket, sent>>
  BY DEF Construct
<1>2. Others(p) /\ pc[p] = "construct" /\ pc'[p] = "publish"
  BY <1>1 DEF Construct, Others, Goto, Trade, Inv, TypeOK
<1>3. Says(p)'
  BY <1>1, <1>2 DEF Trade, Says, Enqueuing, Dequeuing
<1>4. \A q \in Procs \ {p} : Says(q)'
  BY <1>1, <1>2, OthersSay DEF Trade, Inv, TypeOK
<1>5. Deal'
  BY <1>1, <1>2, SameDeal DEF Producing, Leaving
<1> QED BY <1>3, <1>4, <1>5

LEMMA MoveTrade == ASSUME Trade, Watch, TypeOK', NEW p \in Procs, MoveOut(p, "move", "free")
                   PROVE  (\A q \in Procs : Says(q)') /\ Deal'
<1>1. UNCHANGED <<head_, tail_, turn, call, ticket, sent>>
  BY DEF MoveOut
<1>2. Others(p) /\ pc[p] = "move" /\ pc'[p] = "free" /\ hand'[p] = storage[Idx(ticket[p])]
  BY <1>1 DEF MoveOut, Others, Goto, Trade, Inv, TypeOK
<1>3. storage[Idx(ticket[p])] = sent[ticket[p]] /\ ticket[p] < head_ /\ ticket[p] \in Nat
  BY <1>2, MovesSent DEF Trade
<1>4. Says(p)'
  <2>1. hand'[p] # NoValue
    BY <1>2, <1>3 DEF Trade, Deal, Sent
  <2> QED BY <1>1, <1>2, <2>1 DEF Trade, Says, Enqueuing, Dequeuing
<1>5. \A q \in Procs \ {p} : Says(q)'
  BY <1>1, <1>2, OthersSay DEF Trade, Inv, TypeOK
<1>6. Deal'
  BY <1>1, <1>2, SameDeal DEF Producing, Leaving
<1> QED BY <1>4, <1>5, <1>6

LEMMA PublishTrade == ASSUME Trade, Watch, TypeOK', NEW p \in Procs,
                             PublishTurn(p, "publish", "return")
                      PROVE  (\A q \in Procs : Says(q)') /\ Deal'
<1> DEFINE k == Idx(ticket[p])
<1>1. UNCHANGED <<head_, tail_, storage, call, ticket, sent>>
  BY DEF PublishTurn
<1>2. Others(p) /\ pc[p] = "publish" /\ pc'[p] = "return" /\ hand'[p] = NoValue
  BY <1>1 DEF PublishTurn, Others, Goto, Trade, Inv, TypeOK
<1>3. k \in Slots /\ Lap(ticket[p]) \in Nat /\ ticket[p] \in Nat /\ head_ \in Nat
  BY Split DEF Trade, Inv, TypeOK
<1>4. turn'[k] = 2 * Lap(ticket[p]) + 1 /\ \A i \in Slots \ {k} : turn'[i] = turn[i]
  BY <1>3 DEF PublishTurn, Trade, Inv, TypeOK
<1>5. turn[k] = 2 * Lap(ticket[p]) /\ ticket[p] < head_
  BY <1>2 DEF Trade, Inv, Own, Producing
<1>6. Says(p) /\ Deal
  BY DEF Trade
<1>7. Says(p)'
  BY <1>1, <1>2, <1>6 DEF Says, Enqueuing, Dequeuing
<1>8. \A q \in Procs \ {p} : Says(q)'
  BY <1>1, <1>2, OthersSay DEF Trade, Inv, TypeOK
<1>9. \A q \in Procs : /\ Producing(q)' <=> Producing(q) /\ q # p
                       /\ q \in Leaving' <=> q \in Leaving
  BY <1>2 DEF Others, Producing, Leaving
<1>10. Sent' /\ Room' /\ Ahead'
  BY <1>1, <1>6, <1>9 DEF Deal, Sent, Room, Ahead
<1>11. Held'
  <2> SUFFICES ASSUME NEW t \in Nat, tail_ <= t, t < head_
               PROVE  turn'[Idx(t)] = 2 * Lap(t) + 1
                        \/ \E q \in Procs : Producing(q)' /\ ticket[q] = t
    BY <1>1 DEF Held, Published
  <2>1. Idx(t) \in Slots /\ Lap(t) \in Nat
    BY Split
  <2>2. Published(t) \/ \E q \in Procs : Producing(q) /\ ticket[q] = t
    BY <1>6 DEF Deal, Held
  <2>3. CASE Published(t)
    <3>1. Idx(t) # k
      BY <1>3, <1>5, <2>1, <2>3 DEF Published
    <3> QED BY <1>4, <2>1, <2>3, <3>1 DEF Published
  <2>4. CASE ticket[p] = t
    BY <1>4, <2>4
  <2>5. ASSUME NEW q \in Procs, Producing(q), ticket[q] = t, q # p
        PROVE  Producing(q)' /\ ticket[q] = t
    BY <1>9, <2>5
  <2> QED BY <2>2, <2>3, <2>4, <2>5
<1>12. Vacant'
  <2> SUFFICES ASSUME NEW t \in Nat, head_ <= t, t < tail_ + Capacity
               PROVE  turn'[Idx(t)] = 2 * Lap(t)
                        \/ \E q \in Procs : q \in Leaving' /\ ticket[q] + Capacity = t
    BY <1>1 DEF Vacant
  <2>1. Idx(t) \in Slots /\ Lap(t) \in Nat
    BY Split
  <2>2. turn[Idx(t)] = 2 * Lap(t) => Idx(t) # k
    <3> SUFFICES ASSUME turn[Idx(t)] = 2 * Lap(t), Idx(t) = k PROVE FALSE
      OBVIOUS
    <3>1. t = ticket[p]
      BY <1>3, <1>5, <2>1, OneTicket
    <3> QED BY <1>3, <1>5, <3>1
  <2> QED BY <1>4, <1>6, <1>9, <2>1, <2>2 DEF Deal, Vacant
<1> QED BY <1>7, <1>8, <1>10, <1>11, <1>12 DEF Deal

LEMMA FreeTrade == ASSUME Trade, Watch, TypeOK', NEW p \in Procs, FreeTurn(p, "free", "return")
                   PROVE  (\A q \in Procs : Says(q)') /\ Deal'
<1> DEFINE k == Idx(ticket[p])
<1>1. UNCHANGED <<head_, tail_, storage, call, hand, ticket, sent>>
  BY DEF FreeTurn
<1>2. Others(p) /\ pc[p] = "free" /\ pc'[p] = "return"
  BY <1>1 DEF FreeTurn, Others, Goto, Trade, Inv, TypeOK
<1>3. /\ k \in Slots /\ Lap(ticket[p]) \in Nat /\ ticket[p] \in Nat
      /\ tail_ \in Nat /\ head_ \in Nat /\ Capacity \in Nat
  BY Split, CapacityAssumption DEF Trade, Inv, TypeOK
<1>4. turn'[k] = 2 * Lap(ticket[p]) + 2 /\ \A i \in Slots \ {k} : turn'[i] = turn[i]
  BY <1>3 DEF FreeTurn, Trade, Inv, TypeOK
<1>5. turn[k] = 2 * Lap(ticket[p]) + 1 /\ ticket[p] < tail_
  BY <1>2 DEF Trade, Inv, Own, Consuming, Published
<1>6. Says(p) /\ Deal
  BY DEF Trade
<1>7. Says(p)'
  BY <1>1, <1>2, <1>6 DEF Says, Enqueuing, Dequeuing
<1>8. \A q \in Procs \ {p} : Says(q)'
  BY <1>1, <1>2, <1>3, OthersSay
<1>9. \A q \in Procs : /\ Producing(q)' <=> Producing(q)
                       /\ q \in Leaving' <=> q \in Leaving /\ q # p
  BY <1>2 DEF Others, Producing, Leaving
<1>10. Sent' /\ Room' /\ Ahead'
  BY <1>1, <1>6, <1>9 DEF Deal, Sent, Room, Ahead
<1>11. Held'
  <2> SUFFICES ASSUME NEW t \in Nat, tail_ <= t, t < head_
               PROVE  turn'[Idx(t)] = 2 * Lap(t) + 1
                        \/ \E q \in Procs : Producing(q)' /\ ticket[q] = t
    BY <1>1 DEF Held, Published
  <2>1. Idx(t) \in Slots /\ Lap(t) \in Nat
    BY Split
  <2>2. CASE Published(t)
    <3>1. Idx(t) # k
      <4> SUFFICES ASSUME Idx(t) = k PROVE FALSE
        OBVIOUS
      <4>1. t = ticket[p]
        BY <1>3, <1>5, <2>1, <2>2, OneTicket DEF Published
      <4> QED BY <1>3, <1>5, <4>1
    <3> QED BY <1>4, <2>1, <2>2, <3>1 DEF Published
  <2>3. CASE \E q \in Procs : Producing(q) /\ ticket[q] = t
    BY <1>9, <2>3
  <2> QED BY <1>6, <2>2, <2>3 DEF Deal, Held
<1>12. Vacant'
  <2> SUFFICES ASSUME NEW t \in Nat, head_ <= t, t < tail_ + Capacity
               PROVE  turn'[Idx(t)] = 2 * Lap(t)
                        \/ \E q \in Procs : q \in Leaving' /\ ticket[q] + Capacity = t
    BY <1>1 DEF Vacant
  <2>1. Idx(t) \in Slots /\ Lap(t) \in Nat
    BY Split
  <2>2. CASE ticket[p] + Capacity = t
    <3>1. Idx(t) = k /\ Lap(t) = Lap(ticket[p]) + 1
      BY <1>3, <2>2, NextLap
    <3> QED BY <1>3, <1>4, <3>1
  <2>3. CASE turn[Idx(t)] = 2 * Lap(t)
    <3>1. Idx(t) # k
      BY <1>3, <1>5, <2>1, <2>3
    <3> QED BY <1>4, <2>1, <2>3, <3>1
  <2>4. ASSUME NEW q \in Procs, q \in Leaving, ticket[q] + Capacity = t, q # p
        PROVE  q \in Leaving' /\ ticket[q] + Capacity = t
    BY <1>9, <2>4
  <2> QED BY <1>6, <2>2, <2>3, <2>4 DEF Deal, Vacant
<1> QED BY <1>7, <1>8, <1>10, <1>11, <1>12 DEF Deal

\* All there is: nobody waits, for nobody uses push or pop.
LEMMA Kinds == ASSUME Trade, NEW p \in Procs, Step(p)
               PROVE  \/ Loads(p) \/ Checks(p) \/ DrawTicket(p) \/ TakeTicket(p)
                      \/ Construct(p, "construct", "publish") \/ PublishTurn(p, "publish", "return")
                      \/ MoveOut(p, "move", "free") \/ FreeTurn(p, "free", "return") \/ Return(p)
<1>1. pc[p] \notin {"push", "enq_wait", "pop", "deq_wait"}
  BY DEF Trade, Says, Enqueuing, Dequeuing
<1>2. ~Emplace(p) /\ ~Pop(p)
  BY <1>1 DEF Emplace, Pop, CheckTurn, Goto
<1>3. TryEmplace(p) => Loads(p) \/ Checks(p) \/ DrawTicket(p)
  BY DEF TryEmplace, Loads, Checks, DrawTicket
<1>4. TryPop(p) => Loads(p) \/ Checks(p) \/ TakeTicket(p)
  BY DEF TryPop, Loads, Checks, TakeTicket
<1> QED BY <1>2, <1>3, <1>4 DEF Step, Fill, Empty

\* The threads with a reason, as Watch leaves them.
Settled == refused = {p \in Procs : \/ call[p] = "try_push" /\ (p \in refused \/ NoRoom)
                                    \/ call[p] = "try_pop" /\ (p \in refused \/ NoItem)}
Known == TryOnly /\ NobodyElse /\ Trade /\ Settled

LEMMA KnownInit == TryOnly /\ NobodyElse /\ Init => Known
<1> SUFFICES ASSUME TryOnly, NobodyElse, Init PROVE Known
  OBVIOUS
<1>1. /\ head_ = 0 /\ tail_ = 0 /\ refused = {} /\ Capacity \in Nat
      /\ \A p \in Procs : pc[p] = "idle" /\ call[p] = "idle" /\ hand[p] = NoValue
  BY CapacityAssumption DEF Init
<1>2. \A p \in Procs : Says(p)
  BY <1>1 DEF Says, Enqueuing, Dequeuing
<1>3. Sent /\ Room /\ Ahead /\ Held
  BY <1>1 DEF Sent, Room, Ahead, Held, Producing
<1>4. Vacant
  <2> SUFFICES ASSUME NEW t \in Nat, t < Capacity PROVE turn[Idx(t)] = 2 * Lap(t)
    BY <1>1 DEF Vacant
  <2>1. Lap(t) = 0
    BY CapacityAssumption DEF Lap
  <2>2. Idx(t) \in Slots
    BY Split
  <2> QED BY <2>1, <2>2 DEF Init
<1>5. Settled
  BY <1>1 DEF Settled
<1> QED BY <1>2, <1>3, <1>4, <1>5, InvInit DEF Known, Trade, Deal

LEMMA KnownStep == Known /\ [Next]_vars => Known'
<1> SUFFICES ASSUME Known, [Next]_vars PROVE Known'
  OBVIOUS
<1>1. Inv' /\ TypeOK'
  BY InvStep DEF Known, Trade, Inv
<1>2. TryOnly' /\ NobodyElse'
  BY DEF Known, TryOnly, NobodyElse
<1>3. CASE UNCHANGED vars
  <2>1. \A p \in Procs : Says(p)'
    BY <1>3 DEF Known, Trade, Says, vars, slots
  <2>2. Deal'
    BY <1>3 DEF Known, Trade, Deal, Sent, Room, Ahead, Held, Vacant, Producing, Leaving, Published,
                vars, slots
  <2>3. Settled'
    BY <1>3 DEF Known, Settled, NoRoom, NoItem, Leaving, Published, vars, slots
  <2> QED BY <1>1, <1>2, <2>1, <2>2, <2>3 DEF Known, Trade
<1>4. CASE Next
  <2>1. Watch
    BY <1>4 DEF Next
  <2>2. Settled'
    BY <2>1 DEF Watch, Settled
  <2>3. PICK p \in Procs : Call(p) \/ Step(p)
    BY <1>4 DEF Next
  <2>4. (\A q \in Procs : Says(q)') /\ Deal'
    BY <1>1, <2>1, <2>3, Kinds, CallTrade, ReturnTrade, LoadTrade, CheckTrade, DrawTrade, TakeTrade,
       ConstructTrade, PublishTrade, MoveTrade, FreeTrade DEF Known
  <2> QED BY <1>1, <1>2, <2>2, <2>4 DEF Known, Trade
<1> QED BY <1>3, <1>4

-----------------------------------------------------------------------------
(* The abstract state.                                                     *)

By(t) == IF Published(t) THEN Nobody
         ELSE CHOOSE p \in Procs : Producing(p) /\ ticket[p] = t
Item(t) == [val |-> sent[t], by |-> By(t)]

LEMMA ItemsAre == Items = [i \in 1 .. head_ - tail_ |-> Item(tail_ + i - 1)]
BY DEF Items, Item, By

Box == [val : Values \cup {NoValue}, by : Procs \cup {Nobody}]

\* What the abstract state says of each drawn ticket.
Seen == /\ Items \in Seq(Box) /\ Len(Items) = head_ - tail_
        /\ \A t \in Nat : tail_ <= t /\ t < head_ => Items[t - tail_ + 1] = Item(t)
        /\ M!NoRoom <=> NoRoom
        /\ M!NoItem <=> NoItem
        /\ \A t \in Nat : Published(t) => By(t) = Nobody
        /\ \A t \in Nat, p \in Procs :
             Producing(p) /\ ticket[p] = t => ~Published(t) /\ By(t) = p

LEMMA KnownSeen == Known => Seen
<1> SUFFICES ASSUME Known PROVE Seen
  OBVIOUS
<1>1. head_ \in Nat /\ tail_ \in Nat /\ tail_ <= head_ /\ head_ <= tail_ + Capacity /\ Capacity \in Nat
  BY CapacityAssumption DEF Known, Trade, Deal, Room, Inv, TypeOK
<1>2. head_ - tail_ \in Nat
  BY <1>1
<1>3. ASSUME NEW i \in 1 .. head_ - tail_ PROVE Item(tail_ + i - 1) \in Box
  <2> DEFINE t == tail_ + i - 1
  <2>1. t \in Nat /\ tail_ <= t /\ t < head_
    BY <1>1
  <2> HIDE DEF t
  <2>2. sent[t] \in Values \cup {NoValue}
    BY <1>1, <2>1 DEF Known, Trade, Inv, TypeOK
  <2>3. Published(t) \/ \E p \in Procs : Producing(p) /\ ticket[p] = t
    BY <2>1 DEF Known, Trade, Deal, Held
  <2>4. By(t) \in Procs \cup {Nobody}
    BY <2>3 DEF By
  <2>5. Item(t) \in Box
    BY <2>2, <2>4 DEF Item, Box
  <2> QED BY <2>5 DEF t
<1>4. /\ Items \in Seq(Box) /\ Len(Items) = head_ - tail_
      /\ \A i \in 1 .. head_ - tail_ : Items[i] = Item(tail_ + i - 1)
  <2> DEFINE k == head_ - tail_
  <2>1. Items = [i \in 1 .. k |-> Item(tail_ + i - 1)]
    BY ItemsAre
  <2>2. k \in Nat
    BY <1>2
  <2> HIDE DEF k
  <2>3. \A i \in 1 .. k : Item(tail_ + i - 1) \in Box
    BY <1>3 DEF k
  <2>4. Items \in [1 .. k -> Box]
    BY <2>1, <2>3
  <2>5. Items \in Seq(Box) /\ Len(Items) = k
    BY <2>2, <2>4
  <2> QED BY <2>1, <2>5 DEF k
<1>5. ASSUME NEW t \in Nat, tail_ <= t, t < head_ PROVE Items[t - tail_ + 1] = Item(t)
  <2>1. t - tail_ + 1 \in 1 .. head_ - tail_ /\ tail_ + (t - tail_ + 1) - 1 = t
    BY <1>1, <1>5
  <2> QED BY <1>4, <2>1
<1>6. \A t \in Nat : Published(t) => By(t) = Nobody
  BY DEF By
<1>7. ASSUME NEW p \in Procs, Producing(p) PROVE ~Published(ticket[p]) /\ By(ticket[p]) = p
  <2>1. pc[p] \in {"construct", "publish"}
    BY <1>7 DEF Known, Trade, Says, Enqueuing, Dequeuing, Producing
  <2>2. turn[Idx(ticket[p])] = 2 * Lap(ticket[p]) /\ Lap(ticket[p]) \in Nat
    BY <2>1, Split DEF Known, Trade, Inv, Own, TypeOK
  <2>3. ~Published(ticket[p])
    BY <2>2 DEF Published
  <2>4. \A q \in Procs : Producing(q) /\ ticket[q] = ticket[p] => q = p
    BY <1>7 DEF Known, Trade, Inv, Apart
  <2>5. (CHOOSE q \in Procs : Producing(q) /\ ticket[q] = ticket[p]) = p
    BY <1>7, <2>4
  <2> QED BY <2>3, <2>5 DEF By
<1>8. M!NoRoom <=> NoRoom
  BY <1>1, <1>4 DEF M!NoRoom, NoRoom
<1>9. M!NoItem <=> NoItem
  <2>1. CASE head_ = tail_
    <3>1. Items = <<>>
      BY <1>1, <1>4, <2>1, EmptySeq
    <3> QED BY <1>1, <2>1, <3>1 DEF M!NoItem, NoItem
  <2>2. CASE head_ # tail_
    <3>1. Len(Items) # 0 /\ Items[1] = Item(tail_)
      BY <1>1, <1>4, <2>2
    <3>2. Items # <<>>
      BY <3>1
    <3>3. Items[1].by = By(tail_)
      BY <3>1 DEF Item
    <3>4. ~Published(tail_) => By(tail_) # Nobody
      <4> SUFFICES ASSUME ~Published(tail_) PROVE By(tail_) \in Procs
        BY DEF Known, NobodyElse
      <4>1. PICK p \in Procs : Producing(p) /\ ticket[p] = tail_
        BY <1>1, <2>2 DEF Known, Trade, Deal, Held
      <4> QED BY <1>7, <4>1
    <3> QED BY <1>1, <1>6, <2>2, <3>2, <3>3, <3>4 DEF M!NoItem, NoItem
  <2> QED BY <2>1, <2>2
<1> QED BY <1>4, <1>6, <1>7, <1>8, <1>9, <1>5 DEF Seen

LEMMA KnownSeenNext == Known' => Seen'
BY KnownSeen, PTL

-----------------------------------------------------------------------------
(* Every step is one of the mailbox, or none.                              *)

LEMMA SameBy == ASSUME Known, Known', NEW t \in Nat, tail_ <= t, t < head_,
                       Published(t)' <=> Published(t),
                       \A q \in Procs : Producing(q) /\ ticket[q] = t
                                          => Producing(q)' /\ ticket'[q] = t
                PROVE  By(t)' = By(t)
<1>1. Seen /\ Seen'
  BY KnownSeen, KnownSeenNext
<1>2. CASE Published(t)
  BY <1>1, <1>2 DEF Seen
<1>3. CASE ~Published(t)
  <2>1. PICK q \in Procs : Producing(q) /\ ticket[q] = t
    BY <1>3 DEF Known, Trade, Deal, Held
  <2> QED BY <1>1, <2>1 DEF Seen
<1> QED BY <1>2, <1>3

LEMMA ItemsKept == ASSUME Known, Known', UNCHANGED <<head_, tail_, sent>>,
                          \A t \in Nat : tail_ <= t /\ t < head_ => By(t)' = By(t)
                   PROVE  Items' = Items
<1>1. Seen /\ Seen' /\ head_ \in Nat /\ tail_ \in Nat
  BY KnownSeen, KnownSeenNext DEF Known, Trade, Inv, TypeOK
<1>2. Len(Items') = Len(Items) /\ Len(Items) = head_ - tail_
  BY <1>1 DEF Seen
<1>3. ASSUME NEW i \in 1 .. head_ - tail_ PROVE Items'[i] = Items[i]
  <2>1. PICK t \in Nat : t = tail_ + i - 1
    BY <1>1
  <2>2. tail_ <= t /\ t < head_ /\ t - tail_ + 1 = i
    BY <1>1, <2>1
  <2>3. Item(t)' = Item(t)
    BY <2>2 DEF Item
  <2> QED BY <1>1, <2>2, <2>3 DEF Seen
<1>4. Items \in Seq(Box) /\ Items' \in Seq(Box)
  BY <1>1 DEF Seen, Box
<1> QED BY <1>2, <1>3, <1>4, SeqEqual

LEMMA SameRefused == ASSUME Known, Watch, call' = call, NoRoom' <=> NoRoom, NoItem' <=> NoItem
                     PROVE  refused' = refused
BY DEF Known, Settled, Watch

LEMMA WatchMaps == ASSUME Known', Watch PROVE M!Watch
<1>1. (M!NoRoom' <=> NoRoom') /\ (M!NoItem' <=> NoItem')
  BY KnownSeenNext DEF Seen
<1> QED BY <1>1 DEF Watch, M!Watch

LEMMA Hidden == ASSUME Known, Known', Watch, NEW p \in Procs, Others(p),
                       UNCHANGED <<head_, tail_, turn, sent, call>>,
                       Producing(p)' <=> Producing(p),
                       p \in Leaving' <=> p \in Leaving,
                       Producing(p) => ticket'[p] = ticket[p],
                       Taken' = Taken
                PROVE  UNCHANGED M!mvars
<1>1. Leaving' = Leaving
  BY DEF Leaving, Others
<1>2. \A t \in Nat : Published(t)' <=> Published(t)
  BY DEF Published
<1>3. \A q \in Procs : Producing(q) => Producing(q)' /\ ticket'[q] = ticket[q]
  BY DEF Others, Producing
<1>4. \A t \in Nat : tail_ <= t /\ t < head_ => By(t)' = By(t)
  BY <1>2, <1>3, SameBy
<1>5. Items' = Items
  BY <1>4, ItemsKept
<1>6. refused' = refused
  <2>1. NoRoom' <=> NoRoom
    BY <1>1 DEF NoRoom
  <2>2. NoItem' <=> NoItem
    BY DEF NoItem, Published
  <2> QED BY <2>1, <2>2, SameRefused
<1> QED BY <1>1, <1>5, <1>6 DEF M!mvars

\* What the others are seen to have, when their slots are left alone.
LEMMA OthersTaken == ASSUME NEW p \in Procs, Others(p),
                            \A q \in Procs \ {p} : pc[q] = "move"
                              => storage'[Idx(ticket[q])] = storage[Idx(ticket[q])]
                     PROVE  \A q \in Procs \ {p} : Taken'[q] = Taken[q]
BY DEF Taken, Others

LEMMA QuietMaps == ASSUME Known, Known', Watch, NEW p \in Procs, Loads(p) \/ Checks(p)
                   PROVE  UNCHANGED M!mvars
<1>1. UNCHANGED <<head_, tail_, turn, storage, call, hand, sent>>
  BY DEF Loads, LoadTicket, Checks, CheckTurn, slots
<1>2. Others(p)
  BY <1>1 DEF Loads, LoadTicket, Checks, CheckTurn, Others, Goto, Known, Trade, Inv, TypeOK
<1>3. /\ pc[p] \notin {"enq_wait", "construct", "publish", "move", "free"}
      /\ pc'[p] \notin {"enq_wait", "construct", "publish", "move", "free"}
  BY DEF Loads, LoadTicket, Checks, CheckTurn, Goto, Known, Trade, Inv, TypeOK
<1>4. Taken'[p] = Taken[p]
  BY <1>1, <1>3 DEF Taken
<1>5. Taken' = Taken
  <2>1. \A q \in Procs \ {p} : Taken'[q] = Taken[q]
    BY <1>1, <1>2, OthersTaken
  <2>2. \A q \in Procs : Taken'[q] = Taken[q]
    BY <1>4, <2>1
  <2> QED BY <2>2 DEF Taken
<1>6. ~Producing(p) /\ ~Producing(p)' /\ (p \in Leaving' <=> p \in Leaving)
  BY <1>3 DEF Producing, Leaving
<1> QED BY <1>1, <1>2, <1>5, <1>6, Hidden

LEMMA ConstructMaps == ASSUME Known, Known', Watch, NEW p \in Procs,
                              Construct(p, "construct", "publish")
                       PROVE  UNCHANGED M!mvars
<1>1. UNCHANGED <<head_, tail_, turn, call, hand, ticket, sent>>
  BY DEF Construct
<1>2. Others(p) /\ pc[p] = "construct" /\ pc'[p] = "publish"
  BY <1>1 DEF Construct, Others, Goto, Known, Trade, Inv, TypeOK
<1>3. \A i \in Slots : i # Idx(ticket[p]) => storage'[i] = storage[i]
  BY DEF Construct, Known, Trade, Inv, TypeOK
<1>4. \A q \in Procs \ {p} : Taken'[q] = Taken[q]
  <2>1. ASSUME NEW q \in Procs \ {p}, pc[q] = "move"
        PROVE  storage'[Idx(ticket[q])] = storage[Idx(ticket[q])]
    <3>1. Idx(ticket[q]) # Idx(ticket[p])
      BY <1>2, <2>1, OneInSlot DEF InSlot, Known, Trade
    <3>2. Idx(ticket[q]) \in Slots
      BY Split DEF Known, Trade, Inv, TypeOK
    <3> QED BY <1>3, <3>1, <3>2
  <2> QED BY <1>2, <2>1, OthersTaken
<1>5. Taken' = Taken
  <2>1. Taken'[p] = Taken[p]
    BY <1>1, <1>2 DEF Taken
  <2>2. \A q \in Procs : Taken'[q] = Taken[q]
    BY <1>4, <2>1
  <2> QED BY <2>2 DEF Taken
<1>6. Producing(p) /\ Producing(p)' /\ (p \in Leaving' <=> p \in Leaving)
  BY <1>2 DEF Producing, Leaving
<1> QED BY <1>1, <1>2, <1>5, <1>6, Hidden

LEMMA MoveMaps == ASSUME Known, Known', Watch, NEW p \in Procs, MoveOut(p, "move", "free")
                  PROVE  UNCHANGED M!mvars
<1>1. UNCHANGED <<head_, tail_, turn, call, ticket, sent>>
  BY DEF MoveOut
<1>2. Others(p) /\ pc[p] = "move" /\ pc'[p] = "free" /\ hand'[p] = storage[Idx(ticket[p])]
  BY <1>1 DEF MoveOut, Others, Goto, Known, Trade, Inv, TypeOK
<1>3. \A i \in Slots : i # Idx(ticket[p]) => storage'[i] = storage[i]
  BY DEF MoveOut, Known, Trade, Inv, TypeOK
<1>4. \A q \in Procs \ {p} : Taken'[q] = Taken[q]
  <2>1. ASSUME NEW q \in Procs \ {p}, pc[q] = "move"
        PROVE  storage'[Idx(ticket[q])] = storage[Idx(ticket[q])]
    <3>1. Idx(ticket[q]) # Idx(ticket[p])
      BY <1>2, <2>1, OneInSlot DEF InSlot, Known, Trade
    <3>2. Idx(ticket[q]) \in Slots
      BY Split DEF Known, Trade, Inv, TypeOK
    <3> QED BY <1>3, <3>1, <3>2
  <2> QED BY <1>2, <2>1, OthersTaken
<1>5. Taken' = Taken
  <2>1. Taken'[p] = Taken[p]
    BY <1>1, <1>2 DEF Taken
  <2>2. \A q \in Procs : Taken'[q] = Taken[q]
    BY <1>4, <2>1
  <2> QED BY <2>2 DEF Taken
<1>6. ~Producing(p) /\ ~Producing(p)' /\ (p \in Leaving' <=> p \in Leaving)
  BY <1>2 DEF Producing, Leaving
<1> QED BY <1>1, <1>2, <1>5, <1>6, Hidden

LEMMA SameItems == ASSUME Known, Known', NEW p \in Procs, Others(p), ~Producing(p),
                          UNCHANGED <<head_, tail_, turn, sent>>
                   PROVE  Items' = Items
<1>1. \A t \in Nat : Published(t)' <=> Published(t)
  BY DEF Published
<1>2. \A q \in Procs : Producing(q) => Producing(q)' /\ ticket'[q] = ticket[q]
  BY DEF Others, Producing
<1>3. \A t \in Nat : tail_ <= t /\ t < head_ => By(t)' = By(t)
  BY <1>1, <1>2, SameBy
<1> QED BY <1>3, ItemsKept

LEMMA CallMaps == ASSUME Known, Known', Watch, NEW p \in Procs, Call(p) PROVE M!MCall(p)
<1>1. PICK op \in Uses[p] : /\ Goto(p, "idle", op) /\ call' = [call EXCEPT ![p] = op]
                            /\ IF op \in {"try_push", "push"}
                               THEN \E v \in Values : hand' = [hand EXCEPT ![p] = v]
                               ELSE UNCHANGED hand
  BY DEF Call
<1>2. op \in TryOps
  BY DEF Known, TryOnly
<1>3. UNCHANGED <<head_, tail_, turn, storage, ticket, sent>>
  BY DEF Call, slots
<1>4. Others(p) /\ pc[p] = "idle" /\ pc'[p] = op
  BY <1>1, <1>3 DEF Others, Goto, Known, Trade, Inv, TypeOK
<1>5. call[p] = "idle"
  BY <1>4 DEF Known, Trade, Says
<1>6. Items' = Items
  BY <1>3, <1>4, SameItems DEF Producing
<1>7. Leaving' = Leaving
  BY <1>2, <1>4 DEF Leaving, Others, TryOps
<1>8. \A q \in Procs \ {p} : Taken'[q] = Taken[q]
  BY <1>3, <1>4, OthersTaken
<1>9. Taken'[p] = hand'[p] /\ Taken[p] = hand[p]
  BY <1>2, <1>4 DEF Taken, TryOps
<1>10. CASE op = "try_push"
  <2>1. PICK v \in Values : hand' = [hand EXCEPT ![p] = v]
    BY <1>1, <1>10
  <2>2. hand'[p] = v
    BY <2>1 DEF Known, Trade, Inv, TypeOK
  <2>3. Taken' = [Taken EXCEPT ![p] = v]
    <3>1. \A q \in Procs : Taken'[q] = IF q = p THEN v ELSE Taken[q]
      BY <1>8, <1>9, <2>2
    <3> QED BY <3>1 DEF Taken
  <2> QED BY <1>1, <1>5, <1>6, <1>7, <1>10, <2>3 DEF M!MCall
<1>11. CASE op = "try_pop"
  <2>1. Taken'[p] = Taken[p]
    BY <1>1, <1>9, <1>11
  <2>2. Taken' = Taken
    <3>1. \A q \in Procs : Taken'[q] = Taken[q]
      BY <1>8, <2>1
    <3> QED BY <3>1 DEF Taken
  <2> QED BY <1>1, <1>5, <1>6, <1>7, <1>11, <2>2 DEF M!MCall
<1> QED BY <1>2, <1>10, <1>11 DEF TryOps

LEMMA ReturnMaps == ASSUME Known, Known', Watch, NEW p \in Procs, Return(p) PROVE M!MReturn(p)
<1>1. UNCHANGED <<head_, tail_, turn, storage, sent>>
  BY DEF Return, slots
<1>2. Others(p) /\ pc[p] = "return" /\ pc'[p] = "idle" /\ hand'[p] = NoValue
  BY DEF Return, Others, Goto, Known, Trade, Inv, TypeOK
<1>3. call' = [call EXCEPT ![p] = "idle"]
  BY DEF Return
<1>4. Items' = Items
  BY <1>1, <1>2, SameItems DEF Producing
<1>5. Leaving' = Leaving /\ p \notin Leaving
  BY <1>2 DEF Leaving, Others
<1>6. Taken' = [Taken EXCEPT ![p] = NoValue]
  <2>1. \A q \in Procs \ {p} : Taken'[q] = Taken[q]
    BY <1>1, <1>2, OthersTaken
  <2>2. Taken'[p] = NoValue
    BY <1>2 DEF Taken
  <2>3. \A q \in Procs : Taken'[q] = IF q = p THEN NoValue ELSE Taken[q]
    BY <2>1, <2>2
  <2> QED BY <2>3 DEF Taken
<1>7. Taken[p] = hand[p]
  BY <1>2 DEF Taken
<1>8. \/ call[p] = "try_push" /\ (hand[p] = NoValue \/ p \in refused)
      \/ call[p] = "try_pop" /\ (hand[p] # NoValue \/ p \in refused)
  BY <1>2 DEF Known, Trade, Says
<1>9. ASSUME NEW i \in DOMAIN Items PROVE Items[i].by # p
  <2>1. Seen /\ head_ \in Nat /\ tail_ \in Nat
    BY KnownSeen DEF Known, Trade, Inv, TypeOK
  <2>2. i \in 1 .. head_ - tail_
    BY <2>1, LenProperties DEF Seen
  <2>3. PICK t \in Nat : tail_ <= t /\ t < head_ /\ Items[i] = Item(t)
    <3> DEFINE u == tail_ + i - 1
    <3>1. u \in Nat /\ tail_ <= u /\ u < head_ /\ u - tail_ + 1 = i
      BY <2>1, <2>2
    <3> HIDE DEF u
    <3> QED BY <2>1, <3>1 DEF Seen
  <2>4. Published(t) \/ \E q \in Procs : Producing(q) /\ ticket[q] = t
    BY <2>3 DEF Known, Trade, Deal, Held
  <2>5. ~Producing(p)
    BY <1>2 DEF Producing
  <2>6. By(t) # p
    <3>1. CASE Published(t)
      BY <2>1, <2>3, <3>1 DEF Seen, Known, NobodyElse
    <3>2. ASSUME NEW q \in Procs, Producing(q), ticket[q] = t PROVE By(t) # p
      BY <2>1, <2>5, <3>2 DEF Seen
    <3> QED BY <2>4, <3>1, <3>2
  <2> QED BY <2>3, <2>6 DEF Item
<1> QED BY <1>3, <1>4, <1>5, <1>6, <1>7, <1>8, <1>9 DEF M!MReturn

LEMMA DrawMaps == ASSUME Known, Known', Watch, NEW p \in Procs, DrawTicket(p)
                  PROVE  M!MEnter(p)
<1> DEFINE k == head_ - tail_
           e == [val |-> Taken[p], by |-> p]
<1>1. UNCHANGED <<tail_, turn, storage, call, hand, ticket>>
  BY DEF DrawTicket, slots
<1>2. Others(p) /\ pc[p] = "enq_cas" /\ pc'[p] = "construct" /\ head_ = ticket[p]
  BY <1>1 DEF DrawTicket, Others, Goto, Known, Trade, Inv, TypeOK
<1>3. head_ \in Nat /\ tail_ \in Nat /\ head_' = head_ + 1 /\ tail_ <= head_
      /\ tail_ + Capacity >= head_ + 1 /\ Capacity \in Nat
  <2>1. Room /\ Room'
    BY DEF Known, Trade, Deal
  <2> QED BY <1>1, <2>1, CapacityAssumption
          DEF DrawTicket, Draw, Room, Known, Trade, Inv, TypeOK
<1>4. Seen /\ Seen'
  BY KnownSeen, KnownSeenNext
<1>5. call[p] = "try_push" /\ Taken[p] = hand[p] /\ hand[p] \in Values \cup {NoValue}
  BY <1>2 DEF Known, Trade, Says, Enqueuing, Taken, Inv, TypeOK
<1>6. Len(Items) < Capacity
  BY <1>3, <1>4 DEF Seen
<1>7. Items' = Append(Items, e)
  <2>1. Items \in Seq(Box) /\ Items' \in Seq(Box) /\ e \in Box
    BY <1>4, <1>5 DEF Seen, Box
  <2>2. Len(Items) = k /\ Len(Items') = k + 1 /\ k \in Nat
    BY <1>1, <1>3, <1>4 DEF Seen
  <2>3. /\ Append(Items, e) \in Seq(Box) /\ Len(Append(Items, e)) = k + 1
        /\ \A i \in 1 .. k : Append(Items, e)[i] = Items[i]
        /\ Append(Items, e)[k + 1] = e
    <3> HIDE DEF k, e
    <3> QED BY <2>1, <2>2, AppendProperties
  <2>4. Items'[k + 1] = e
    <3>1. PICK t \in Nat : t = head_
      BY <1>3
    <3>2. By(t)' = p /\ sent'[t] = hand[p]
      <4>1. Producing(p)' /\ ticket'[p] = t
        BY <1>1, <1>2, <3>1 DEF Producing
      <4>2. By(t)' = p
        BY <1>4, <4>1 DEF Seen
      <4>3. sent'[t] = hand[p]
        BY <1>3, <3>1 DEF DrawTicket, Draw
      <4> QED BY <4>2, <4>3
    <3>3. Items'[t - tail_ + 1] = Item(t)'
      BY <1>1, <1>3, <1>4, <3>1 DEF Seen
    <3>4. Items'[t - tail_ + 1] = [val |-> hand[p], by |-> p]
      BY <3>2, <3>3 DEF Item
    <3> QED BY <1>3, <1>5, <3>1, <3>4
  <2>5. ASSUME NEW i \in 1 .. k PROVE Items'[i] = Items[i]
    <3>1. PICK t \in Nat : t = tail_ + i - 1
      BY <1>3
    <3>2. tail_ <= t /\ t < head_ /\ t - tail_ + 1 = i
      BY <1>3, <3>1
    <3>3. Published(t)' <=> Published(t)
      BY <1>1 DEF Published
    <3>4. \A q \in Procs : Producing(q) => Producing(q)' /\ ticket'[q] = ticket[q]
      BY <1>2 DEF Others, Producing
    <3>5. By(t)' = By(t) /\ sent'[t] = sent[t]
      BY <1>3, <3>2, <3>3, <3>4, SameBy DEF DrawTicket, Draw
    <3>6. Item(t)' = Item(t)
      BY <3>5 DEF Item
    <3>7. Items[i] = Item(t) /\ Items'[i] = Item(t)'
      BY <1>1, <1>3, <1>4, <3>2 DEF Seen
    <3> QED BY <3>6, <3>7
  <2>6. \A i \in 1 .. Len(Items') : Items'[i] = Append(Items, e)[i]
    <3> HIDE DEF k, e
    <3> QED BY <2>2, <2>3, <2>4, <2>5
  <2> QED BY <2>1, <2>2, <2>3, <2>6, SeqEqual
<1>8. Leaving' = Leaving
  BY <1>2 DEF Leaving, Others
<1>9. Taken' = Taken
  <2>1. \A q \in Procs \ {p} : Taken'[q] = Taken[q]
    BY <1>1, <1>2, OthersTaken
  <2>2. Taken'[p] = Taken[p]
    BY <1>1, <1>2 DEF Taken
  <2>3. \A q \in Procs : Taken'[q] = Taken[q]
    BY <2>1, <2>2
  <2> QED BY <2>3 DEF Taken
<1> QED BY <1>1, <1>5, <1>6, <1>7, <1>8, <1>9 DEF M!MEnter

LEMMA PublishMaps == ASSUME Known, Known', Watch, NEW p \in Procs,
                            PublishTurn(p, "publish", "return")
                     PROVE  M!MFill(p)
<1> DEFINE k == Idx(ticket[p])
           n == ticket[p] - tail_ + 1
<1>1. UNCHANGED <<head_, tail_, storage, call, ticket, sent>>
  BY DEF PublishTurn
<1>2. Others(p) /\ pc[p] = "publish" /\ pc'[p] = "return" /\ hand'[p] = NoValue
  BY <1>1 DEF PublishTurn, Others, Goto, Known, Trade, Inv, TypeOK
<1>3. /\ k \in Slots /\ Lap(ticket[p]) \in Nat /\ ticket[p] \in Nat
      /\ head_ \in Nat /\ tail_ \in Nat
  BY Split DEF Known, Trade, Inv, TypeOK
<1>4. turn'[k] = 2 * Lap(ticket[p]) + 1 /\ \A i \in Slots \ {k} : turn'[i] = turn[i]
  BY <1>3 DEF PublishTurn, Known, Trade, Inv, TypeOK
<1>5. turn[k] = 2 * Lap(ticket[p]) /\ tail_ <= ticket[p] /\ ticket[p] < head_ /\ Producing(p)
  BY <1>2 DEF Known, Trade, Deal, Ahead, Inv, Own, Producing
<1>6. Seen /\ Seen'
  BY KnownSeen, KnownSeenNext
<1>7. n \in 1 .. head_ - tail_ /\ tail_ + n - 1 = ticket[p]
  BY <1>3, <1>5
<1>8. Items \in Seq(Box) /\ Items' \in Seq(Box)
      /\ Len(Items) = head_ - tail_ /\ Len(Items') = head_ - tail_
  BY <1>1, <1>6 DEF Seen, Box
<1>9. PICK u \in Nat : u = ticket[p]
  BY <1>3
<1>10. /\ Items[n] = [val |-> sent[u], by |-> p]
       /\ Items'[n] = [val |-> sent[u], by |-> Nobody]
  <2>1. tail_ <= u /\ u < head_ /\ u - tail_ + 1 = n
    BY <1>5, <1>9
  <2>2. By(u) = p
    BY <1>5, <1>6, <1>9 DEF Seen
  <2>3. By(u)' = Nobody
    <3>1. Published(u)'
      BY <1>4, <1>9 DEF Published
    <3> QED BY <1>6, <3>1 DEF Seen
  <2> HIDE DEF n
  <2>4. Items[n] = Item(u) /\ Items'[n] = Item(u)'
    BY <1>1, <1>6, <2>1 DEF Seen
  <2> QED BY <1>1, <2>2, <2>3, <2>4 DEF Item
<1>11. ASSUME NEW i \in 1 .. head_ - tail_, i # n PROVE Items'[i] = Items[i]
  <2>1. PICK t \in Nat : t = tail_ + i - 1
    BY <1>3
  <2>2. tail_ <= t /\ t < head_ /\ t # ticket[p] /\ t - tail_ + 1 = i
    BY <1>3, <1>11, <2>1
  <2>3. Published(t)' <=> Published(t)
    <3>1. Idx(t) \in Slots /\ Lap(t) \in Nat
      BY Split
    <3>2. CASE Idx(t) = k
      <4>1. Lap(t) # Lap(ticket[p])
        BY <1>3, <2>2, <3>2, OneTicket
      <4>2. turn'[Idx(t)] # 2 * Lap(t) + 1
        BY <1>3, <1>4, <3>1, <3>2, <4>1
      <4>3. turn[Idx(t)] # 2 * Lap(t) + 1
        BY <1>3, <1>5, <3>1, <3>2
      <4> QED BY <4>2, <4>3 DEF Published
    <3>3. CASE Idx(t) # k
      <4>1. turn'[Idx(t)] = turn[Idx(t)]
        BY <1>4, <3>1, <3>3
      <4> QED BY <4>1 DEF Published
    <3> QED BY <3>2, <3>3
  <2>4. \A q \in Procs : Producing(q) /\ ticket[q] = t => Producing(q)' /\ ticket'[q] = t
    BY <1>1, <1>2, <2>2 DEF Others, Producing
  <2>5. By(t)' = By(t)
    BY <2>2, <2>3, <2>4, SameBy
  <2>6. Item(t)' = Item(t)
    BY <1>1, <2>5 DEF Item
  <2>7. Items[i] = Item(t) /\ Items'[i] = Item(t)'
    BY <1>1, <1>6, <2>2 DEF Seen
  <2> QED BY <2>6, <2>7
<1>12. Items' = [Items EXCEPT ![n].by = Nobody]
  <2> DEFINE e == [Items[n] EXCEPT !.by = Nobody]
  <2>1. e = [val |-> sent[u], by |-> Nobody]
    BY <1>10
  <2>2. e \in Box
    <3>1. Items'[n] \in Box
      BY <1>7, <1>8, ElementOfSeq
    <3> QED BY <1>10, <2>1, <3>1
  <2> HIDE DEF n, e
  <2>3. /\ [Items EXCEPT ![n] = e] \in Seq(Box) /\ Len([Items EXCEPT ![n] = e]) = Len(Items)
        /\ \A j \in 1 .. Len(Items) :
             [Items EXCEPT ![n] = e][j] = IF j = n THEN e ELSE Items[j]
    BY <1>7, <1>8, <2>2, ExceptSeq
  <2>4. \A j \in 1 .. Len(Items') : Items'[j] = [Items EXCEPT ![n] = e][j]
    BY <1>8, <1>10, <1>11, <2>1, <2>3
  <2>5. Items' = [Items EXCEPT ![n] = e]
    BY <1>8, <2>3, <2>4, SeqEqual
  <2> QED BY <2>5 DEF e
<1>13. \E i \in DOMAIN Items : Items[i].by = p /\ Items' = [Items EXCEPT ![i].by = Nobody]
  <2>1. DOMAIN Items = 1 .. head_ - tail_
    BY <1>8, LenProperties
  <2>2. Items[n].by = p
    BY <1>10
  <2> HIDE DEF n
  <2> QED BY <1>7, <1>12, <2>1, <2>2
<1>14. Leaving' = Leaving
  BY <1>2 DEF Leaving, Others
<1>15. Taken' = [Taken EXCEPT ![p] = NoValue]
  <2>1. \A q \in Procs \ {p} : Taken'[q] = Taken[q]
    BY <1>1, <1>2, OthersTaken
  <2>2. Taken'[p] = NoValue
    BY <1>2 DEF Taken
  <2>3. \A q \in Procs : Taken'[q] = IF q = p THEN NoValue ELSE Taken[q]
    BY <2>1, <2>2
  <2> QED BY <2>3 DEF Taken
<1> QED BY <1>1, <1>13, <1>14, <1>15 DEF M!MFill

LEMMA TakeMaps == ASSUME Known, Known', Watch, NEW p \in Procs, TakeTicket(p)
                  PROVE  M!MTake(p)
<1> DEFINE k == head_ - tail_
<1>1. UNCHANGED <<head_, turn, storage, call, hand, ticket, sent>>
  BY DEF TakeTicket, slots
<1>2. Others(p) /\ pc[p] = "deq_cas" /\ pc'[p] = "move" /\ tail_ = ticket[p]
  BY <1>1 DEF TakeTicket, Others, Goto, Known, Trade, Inv, TypeOK
<1>3. Published(tail_)
  BY <1>2 DEF Known, Trade, Inv, Own
<1>4. head_ \in Nat /\ tail_ \in Nat /\ tail_' = tail_ + 1 /\ tail_ < head_
  BY <1>3 DEF TakeTicket, Known, Trade, Inv, Full, TypeOK
<1>5. Seen /\ Seen'
  BY KnownSeen, KnownSeenNext
<1>6. call[p] = "try_pop" /\ Taken[p] = NoValue
  BY <1>2 DEF Known, Trade, Says, Dequeuing, Taken
<1>7. ~M!NoItem
  BY <1>3, <1>4, <1>5 DEF Seen, NoItem
<1>8. Items[1].val = storage[Idx(tail_)]
  <2>1. \A q \in Procs : pc[q] = "free" => ticket[q] # tail_
    BY <1>4 DEF Known, Trade, Inv, Own, Consuming, TypeOK
  <2>2. storage[Idx(tail_)] = sent[tail_]
    BY <1>3, <1>4, <2>1 DEF Known, Trade, Inv, Full
  <2>3. Items[tail_ - tail_ + 1] = Item(tail_)
    BY <1>4, <1>5 DEF Seen
  <2> QED BY <1>4, <2>2, <2>3 DEF Item
<1>9. Taken' = [Taken EXCEPT ![p] = Items[1].val]
  <2>1. \A q \in Procs \ {p} : Taken'[q] = Taken[q]
    BY <1>1, <1>2, OthersTaken
  <2>2. Taken'[p] = storage[Idx(tail_)]
    BY <1>1, <1>2 DEF Taken
  <2>3. \A q \in Procs : Taken'[q] = IF q = p THEN storage[Idx(tail_)] ELSE Taken[q]
    BY <2>1, <2>2
  <2> QED BY <1>8, <2>3 DEF Taken
<1>10. Items' = Tail(Items)
  <2>1. /\ Items \in Seq(Box) /\ Items' \in Seq(Box)
        /\ Len(Items) = k /\ Len(Items') = k - 1 /\ k \in Nat \ {0}
    BY <1>1, <1>4, <1>5 DEF Seen, Box
  <2>2. /\ Tail(Items) \in Seq(Box) /\ Len(Tail(Items)) = k - 1
        /\ \A i \in 1 .. k - 1 : Tail(Items)[i] = Items[i + 1]
    <3> HIDE DEF k
    <3>1. Items # <<>>
      BY <2>1
    <3> QED BY <2>1, <3>1, HeadTailProperties
  <2>3. ASSUME NEW i \in 1 .. k - 1 PROVE Items'[i] = Items[i + 1]
    <3>1. PICK t \in Nat : t = tail_ + i
      BY <1>4
    <3>2. tail_ + 1 <= t /\ t < head_ /\ t - (tail_ + 1) + 1 = i /\ t - tail_ + 1 = i + 1
      BY <1>4, <3>1
    <3>3. Published(t)' <=> Published(t)
      BY <1>1 DEF Published
    <3>4. \A q \in Procs : Producing(q) => Producing(q)' /\ ticket'[q] = ticket[q]
      BY <1>2 DEF Others, Producing
    <3>5. By(t)' = By(t)
      BY <1>4, <3>2, <3>3, <3>4, SameBy
    <3>6. Item(t)' = Item(t)
      BY <1>1, <3>5 DEF Item
    <3>7. Items[i + 1] = Item(t)
      BY <1>4, <1>5, <3>2 DEF Seen
    <3>8. Items'[i] = Item(t)'
      BY <1>1, <1>4, <1>5, <3>2 DEF Seen
    <3> QED BY <3>6, <3>7, <3>8
  <2>4. \A i \in 1 .. Len(Items') : Items'[i] = Tail(Items)[i]
    <3> HIDE DEF k
    <3> QED BY <2>1, <2>2, <2>3
  <2> QED BY <2>1, <2>2, <2>4, SeqEqual
<1>11. Leaving' = Leaving \cup {p}
  BY <1>2 DEF Leaving, Others
<1> QED BY <1>1, <1>6, <1>7, <1>9, <1>10, <1>11 DEF M!MTake

LEMMA FreeMaps == ASSUME Known, Known', Watch, NEW p \in Procs, FreeTurn(p, "free", "return")
                  PROVE  M!MFree(p)
<1> DEFINE k == Idx(ticket[p])
<1>1. UNCHANGED <<head_, tail_, storage, call, hand, ticket, sent>>
  BY DEF FreeTurn
<1>2. Others(p) /\ pc[p] = "free" /\ pc'[p] = "return"
  BY <1>1 DEF FreeTurn, Others, Goto, Known, Trade, Inv, TypeOK
<1>3. /\ k \in Slots /\ Lap(ticket[p]) \in Nat /\ ticket[p] \in Nat /\ tail_ \in Nat
  BY Split DEF Known, Trade, Inv, TypeOK
<1>4. turn'[k] = 2 * Lap(ticket[p]) + 2 /\ \A i \in Slots \ {k} : turn'[i] = turn[i]
  BY <1>3 DEF FreeTurn, Known, Trade, Inv, TypeOK
<1>5. turn[k] = 2 * Lap(ticket[p]) + 1 /\ ticket[p] < tail_
  BY <1>2 DEF Known, Trade, Inv, Own, Consuming, Published
<1>6. ASSUME NEW t \in Nat, tail_ <= t, t < head_ PROVE By(t)' = By(t)
  <2>1. Idx(t) \in Slots /\ Lap(t) \in Nat
    BY Split
  <2>2. Published(t)' <=> Published(t)
    <3>1. CASE Idx(t) = k
      <4>1. Lap(t) # Lap(ticket[p])
        BY <1>3, <1>5, <1>6, <3>1, OneTicket
      <4>2. turn[Idx(t)] # 2 * Lap(t) + 1
        BY <1>3, <1>5, <2>1, <3>1, <4>1
      <4>3. turn'[Idx(t)] # 2 * Lap(t) + 1
        BY <1>3, <1>4, <2>1, <3>1
      <4> QED BY <4>2, <4>3 DEF Published
    <3>2. CASE Idx(t) # k
      <4>1. turn'[Idx(t)] = turn[Idx(t)]
        BY <1>4, <2>1, <3>2
      <4> QED BY <4>1 DEF Published
    <3> QED BY <3>1, <3>2
  <2>3. \A q \in Procs : Producing(q) => Producing(q)' /\ ticket'[q] = ticket[q]
    BY <1>2 DEF Others, Producing
  <2> QED BY <1>6, <2>2, <2>3, SameBy
<1>7. Items' = Items
  BY <1>1, <1>6, ItemsKept
<1>8. Leaving' = Leaving \ {p}
  BY <1>2 DEF Leaving, Others
<1>9. Taken' = Taken
  <2>1. \A q \in Procs \ {p} : Taken'[q] = Taken[q]
    BY <1>1, <1>2, OthersTaken
  <2>2. Taken'[p] = Taken[p]
    BY <1>1, <1>2 DEF Taken
  <2>3. \A q \in Procs : Taken'[q] = Taken[q]
    BY <2>1, <2>2
  <2> QED BY <2>3 DEF Taken
<1> QED BY <1>1, <1>7, <1>8, <1>9 DEF M!MFree

LEMMA InitMaps == TryOnly /\ NobodyElse /\ Init => M!MInit
<1> SUFFICES ASSUME TryOnly, NobodyElse, Init PROVE M!MInit
  OBVIOUS
<1>1. Seen
  BY KnownInit, KnownSeen
<1>2. Items = <<>>
  BY <1>1, EmptySeq DEF Init, Seen
<1>3. Leaving = {}
  BY DEF Init, Leaving
<1>4. Taken = [p \in Procs |-> NoValue]
  BY DEF Init, Taken
<1> QED BY <1>2, <1>3, <1>4 DEF Init, M!MInit

LEMMA StepMaps == Known /\ Known' /\ [Next]_vars => [M!MNext]_(M!mvars)
<1> SUFFICES ASSUME Known, Known', [Next]_vars PROVE [M!MNext]_(M!mvars)
  OBVIOUS
<1>1. CASE UNCHANGED vars
  BY <1>1 DEF vars, slots, M!mvars, Items, Leaving, Taken, Published, Producing
<1>2. CASE Next
  <2>1. Watch /\ M!Watch
    BY <1>2, WatchMaps DEF Next
  <2>2. PICK p \in Procs : Call(p) \/ Step(p)
    BY <1>2 DEF Next
  <2>3. CASE Call(p)
    BY <2>1, <2>3, CallMaps DEF M!MNext
  <2>4. CASE Step(p)
    <3>1. CASE Loads(p) \/ Checks(p)
      BY <2>1, <3>1, QuietMaps
    <3>2. CASE DrawTicket(p)
      BY <2>1, <3>2, DrawMaps DEF M!MNext
    <3>3. CASE TakeTicket(p)
      BY <2>1, <3>3, TakeMaps DEF M!MNext
    <3>4. CASE Construct(p, "construct", "publish")
      BY <2>1, <3>4, ConstructMaps
    <3>5. CASE PublishTurn(p, "publish", "return")
      BY <2>1, <3>5, PublishMaps DEF M!MNext
    <3>6. CASE MoveOut(p, "move", "free")
      BY <2>1, <3>6, MoveMaps
    <3>7. CASE FreeTurn(p, "free", "return")
      BY <2>1, <3>7, FreeMaps DEF M!MNext
    <3>8. CASE Return(p)
      BY <2>1, <3>8, ReturnMaps DEF M!MNext
    <3> QED BY <2>4, <3>1, <3>2, <3>3, <3>4, <3>5, <3>6, <3>7, <3>8, Kinds DEF Known
  <2> QED BY <2>2, <2>3, <2>4
<1> QED BY <1>1, <1>2

\* The mailbox of a worker is one bounded FIFO, for every capacity and every
\* number of producers and consumers that use try_emplace and try_pop only, as
\* the pool's do: an item enters at the CAS on head_, leaves at the CAS on
\* tail_, oldest first, and a call comes back in vain only when it has met a
\* full or empty queue, or somebody in the middle of filling or leaving it.
THEOREM Implements == ASSUME TryOnly, NobodyElse PROVE Spec => ImplementsMailbox
<1>1. Init => M!MInit /\ Known
  BY KnownInit, InitMaps
<1>2. Known /\ [Next]_vars => Known'
  BY KnownStep
<1>3. Known /\ Known' /\ [Next]_vars => [M!MNext]_(M!mvars)
  BY StepMaps
<1> QED BY <1>1, <1>2, <1>3, PTL DEF Spec, ImplementsMailbox, M!MSpec
=============================================================================
