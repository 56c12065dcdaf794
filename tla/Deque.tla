------------------------------- MODULE Deque -------------------------------
(***************************************************************************)
(* What a RunQueue promises to the threads that use it, whatever the       *)
(* interleaving inside: one sequence of works, the back first, on which    *)
(* every successful operation acts in one step.                            *)
(***************************************************************************)
EXTENDS Sequences, Integers

CONSTANTS Procs, Works, NoWork, K

VARIABLES deque,    \* the works the queue holds, back to front
          call,     \* the operation each thread is in, or "idle"
          hand,     \* the work each thread passes in or got back
          seen      \* threads that saw an empty deque during their call
dvars == <<deque, call, hand, seen>>

Elements(s) == {s[i] : i \in DOMAIN s}
InHands == {hand[p] : p \in Procs} \ {NoWork}

DInit == /\ deque = <<>>
         /\ call = [p \in Procs |-> "idle"]
         /\ hand = [p \in Procs |-> NoWork]
         /\ seen = {}

\* A thread watches the deque for emptiness from its call to its return.
Watch == seen' = {p \in Procs : call'[p] # "idle" /\ (p \in seen \/ deque' = <<>>)}

DCall(p) ==
  /\ call[p] = "idle"
  /\ UNCHANGED deque
  /\ \/ \E op \in {"PushFront", "PushBack"} :
          \E w \in Works \ (Elements(deque) \cup InHands) :
             /\ call' = [call EXCEPT ![p] = op]
             /\ hand' = [hand EXCEPT ![p] = w]
     \/ \E op \in {"PopFront", "PopBack", "Empty", "Size"} :
             /\ call' = [call EXCEPT ![p] = op]
             /\ UNCHANGED hand

DPush(p) ==
  /\ call[p] \in {"PushFront", "PushBack"}
  /\ hand[p] # NoWork
  /\ Len(deque) < K
  /\ deque' = IF call[p] = "PushFront" THEN Append(deque, hand[p])
                                       ELSE <<hand[p]>> \o deque
  /\ hand' = [hand EXCEPT ![p] = NoWork]
  /\ UNCHANGED call

DTake(p) ==
  /\ deque # <<>> /\ hand[p] = NoWork
  /\ \/ /\ call[p] = "PopFront"
        /\ hand' = [hand EXCEPT ![p] = deque[Len(deque)]]
        /\ deque' = SubSeq(deque, 1, Len(deque) - 1)
     \/ /\ call[p] = "PopBack"
        /\ hand' = [hand EXCEPT ![p] = Head(deque)]
        /\ deque' = Tail(deque)
  /\ UNCHANGED call

\* A pop comes back without a work only if the deque was empty at some
\* instant of the call.
DReturn(p) ==
  /\ call[p] # "idle"
  /\ call[p] \in {"PopFront", "PopBack"} /\ hand[p] = NoWork => p \in seen
  /\ call' = [call EXCEPT ![p] = "idle"]
  /\ hand' = [hand EXCEPT ![p] = NoWork]
  /\ UNCHANGED deque

DNext == /\ \E p \in Procs : DCall(p) \/ DPush(p) \/ DTake(p) \/ DReturn(p)
         /\ Watch

DSpec == DInit /\ [][DNext]_dvars
=============================================================================
