---------------------------- MODULE MCRunQueue ----------------------------
EXTENDS RunQueue, TLC
CONSTANTS owner, w1, w2, w3, w4, w5, t1
Sym == Permutations(Works)

\* The pool: the owner also meets its own queue when it steals.
PoolUses == [p \in {owner, t1} |->
   IF p = owner THEN {"PushFront", "PopFront", "PopBack"} ELSE {"PopBack"}]
\* Every operation of the class that changes the queue.
AllUses == [p \in {owner, t1} |->
   IF p = owner THEN {"PushFront", "PopFront"} ELSE {"PushBack", "PopBack"}]
=============================================================================
