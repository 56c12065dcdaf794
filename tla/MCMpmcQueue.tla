---------------------------- MODULE MCMpmcQueue ----------------------------
EXTENDS MpmcQueue, TLC
CONSTANTS p1, p2, p3, p4, v1, v2
Sym == Permutations(Procs \cap {p1, p2}) \cup Permutations(Procs \cap {p3, p4})
       \cup Permutations(Values)
TryUses == [p \in Procs |-> IF p \in {p1, p2} THEN {"try_push"} ELSE {"try_pop"}]
AllUses == [p \in Procs |-> IF p \in {p1, p2} THEN {"push", "try_push"} ELSE {"pop", "try_pop"}]
BlockingUses == [p \in Procs |-> IF p \in {p1, p2} THEN {"push"} ELSE {"pop"}]
=============================================================================
