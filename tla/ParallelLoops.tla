--------------------------- MODULE ParallelLoops ---------------------------
(***************************************************************************)
(* What ParallelFor promises: once a loop has begun each of its iterations *)
(* is run exactly once, in any order and on any thread, and the call       *)
(* returns after the last of them has finished.                            *)
(***************************************************************************)
EXTENDS Integers, Sequences

VARIABLES size,   \* the number of iterations of each loop begun
          ran,    \* the iterations finished, as pairs <<loop, iteration>>
          ended   \* the loops that have returned
pvars == <<size, ran, ended>>

Iterations(l) == {l} \X (0 .. size[l] - 1)

PInit == size = [l \in {} |-> 0] /\ ran = {} /\ ended = {}

\* A new loop, of any size.
Begin == \E l \in DOMAIN size' \ DOMAIN size :
  /\ size'[l] \in Nat
  /\ size' = [k \in DOMAIN size \cup {l} |-> IF k = l THEN size'[l] ELSE size[k]]
  /\ UNCHANGED <<ran, ended>>

Run == \E l \in DOMAIN size \ ended : \E i \in Iterations(l) \ ran :
  /\ ran' = ran \cup {i}
  /\ UNCHANGED <<size, ended>>

End == \E l \in DOMAIN size \ ended :
  /\ Iterations(l) \subseteq ran
  /\ ended' = ended \cup {l}
  /\ UNCHANGED <<size, ran>>

PNext == Begin \/ Run \/ End

PSpec == PInit /\ [][PNext]_pvars
=============================================================================
