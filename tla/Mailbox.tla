------------------------------ MODULE Mailbox ------------------------------
(***************************************************************************)
(* What the MPMC queue promises to threads that use try_push and try_pop:  *)
(* one bounded FIFO.  An item enters it when its producer gets a ticket    *)
(* and may be taken once it is full.                                       *)
(***************************************************************************)
EXTENDS Sequences, Integers

CONSTANTS Procs, Values, NoValue, Nobody, Capacity

VARIABLES items,    \* records [val, by], oldest first; by: its unfinished producer
          leaving,  \* consumers that took an item and not yet freed its slot
          call, hand,
          refused   \* threads that met a state that explains a refusal
mvars == <<items, leaving, call, hand, refused>>

MInit == /\ items = <<>> /\ leaving = {}
         /\ call = [p \in Procs |-> "idle"]
         /\ hand = [p \in Procs |-> NoValue]
         /\ refused = {}

\* try_push may fail when the queue is full or an item is just leaving it;
\* try_pop when there is no item, or the oldest is not finished.
NoRoom == Len(items) = Capacity \/ leaving # {}
NoItem == items = <<>> \/ items[1].by # Nobody
Watch == refused' = {p \in Procs : \/ call'[p] = "try_push" /\ (p \in refused \/ NoRoom')
                                   \/ call'[p] = "try_pop" /\ (p \in refused \/ NoItem')}

MCall(p) ==
  /\ call[p] = "idle"
  /\ \/ /\ call' = [call EXCEPT ![p] = "try_push"]
        /\ \E v \in Values : hand' = [hand EXCEPT ![p] = v]
     \/ /\ call' = [call EXCEPT ![p] = "try_pop"]
        /\ UNCHANGED hand
  /\ UNCHANGED <<items, leaving>>

MEnter(p) ==
  /\ call[p] = "try_push" /\ Len(items) < Capacity
  /\ items' = Append(items, [val |-> hand[p], by |-> p])
  /\ UNCHANGED <<leaving, call, hand>>

MFill(p) ==
  /\ \E i \in DOMAIN items : /\ items[i].by = p
                             /\ items' = [items EXCEPT ![i].by = Nobody]
  /\ hand' = [hand EXCEPT ![p] = NoValue]
  /\ UNCHANGED <<leaving, call>>

MTake(p) ==
  /\ call[p] = "try_pop" /\ hand[p] = NoValue /\ ~NoItem
  /\ hand' = [hand EXCEPT ![p] = items[1].val]
  /\ items' = Tail(items)
  /\ leaving' = leaving \cup {p}
  /\ UNCHANGED call

MFree(p) == leaving' = leaving \ {p} /\ UNCHANGED <<items, call, hand>>

\* A thread returns with its item delivered or taken, or was refused.
MReturn(p) ==
  /\ p \notin leaving
  /\ \A i \in DOMAIN items : items[i].by # p
  /\ \/ call[p] = "try_push" /\ (hand[p] = NoValue \/ p \in refused)
     \/ call[p] = "try_pop" /\ (hand[p] # NoValue \/ p \in refused)
  /\ call' = [call EXCEPT ![p] = "idle"]
  /\ hand' = [hand EXCEPT ![p] = NoValue]
  /\ UNCHANGED <<items, leaving>>

MNext == /\ \E p \in Procs : \/ MCall(p) \/ MEnter(p) \/ MFill(p)
                             \/ MTake(p) \/ MFree(p) \/ MReturn(p)
         /\ Watch

MSpec == MInit /\ [][MNext]_mvars
=============================================================================
