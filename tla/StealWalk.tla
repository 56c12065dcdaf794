----------------------------- MODULE StealWalk -----------------------------
(***************************************************************************)
(* The order in which Steal of include/eigen/nonblocking_thread_pool.h     *)
(* visits the threads of a pool of n: from a random first victim on, by a  *)
(* random step that is coprime to n.                                       *)
(***************************************************************************)
EXTENDS Integers, Sequences

Euclid[p \in Nat \X Nat] == IF p[2] = 0 THEN p[1] ELSE Euclid[<<p[2], p[1] % p[2]>>]

\* Mutant: every step will do.
AnyStep(n) == [i \in 1 .. n |-> i]
ComputeCoprimes(n) ==
  LET Upto[i \in 0 .. n] ==
        IF i = 0 THEN <<>>
        ELSE IF Euclid[<<i, n>>] = 1 THEN Append(Upto[i - 1], i) ELSE Upto[i - 1]
  IN Upto[n]

\* Victim and step come from the same random number r below w, scaled to the
\* team and to the list of steps.  The code has w = 2^32; both are constant
\* between neighbouring multiples of 1 / (n * Len(steps)) of the range, so that
\* this many numbers give the same pairs.
Draw(n, steps, r, w) ==
  [victim |-> (r * n) \div w, inc |-> steps[(Len(steps) * r) \div w + 1]]
Walks(n) ==
  LET steps == ComputeCoprimes(n)
      w == n * Len(steps)
  IN {Draw(n, steps, r, w) : r \in 0 .. w - 1}

Advance(n, victim, inc) == IF victim + inc >= n THEN victim + inc - n ELSE victim + inc
\* The victims of one sweep, in their order.
Sweep(n, w) ==
  LET visit[k \in Nat] == IF k = 0 THEN w.victim ELSE Advance(n, visit[k - 1], w.inc)
  IN [k \in 0 .. n - 1 |-> visit[k]]
=============================================================================
