----------------------------- MODULE MCForkJoin -----------------------------
(* Teams and programs for TLC.                                             *)
EXTENDS ForkJoin

CONSTANT Outsider
NoOutsiders == {}
OneOutsider == {Outsider}

CallsOf(main, other) == [p \in Callers |-> IF p = 0 THEN main ELSE other]
\* In mode SHARING, one loop of the main thread.
OneLoop(size) ==
  [sharing |-> TRUE, timespan |-> FALSE, pin |-> FALSE, calls |-> CallsOf(1, 0),
   size |-> size, nested |-> {}, inner |-> 0, barrier |-> FALSE]
Stealing(program) == [program EXCEPT !.sharing = FALSE]
SharingStealing(program) == [program EXCEPT !.timespan = TRUE]

\* The first body calls a loop.
Nested(program, inner) == [program EXCEPT !.nested = {0}, !.inner = inner]
\* All bodies, but those that call a loop, wait for each other.
Together(program) == [program EXCEPT !.barrier = TRUE]

Twice == Nested([OneLoop(3) EXCEPT !.calls = CallsOf(2, 0)], 2)
Beside == [OneLoop(2) EXCEPT !.calls = CallsOf(1, 1)]
NestedPlans == {Stealing(Twice), Twice, SharingStealing(Twice), Beside}

PinOnly == [OneLoop(0) EXCEPT !.pin = TRUE, !.calls = CallsOf(0, 0)]
TeamPlans ==
  {PinOnly, OneLoop(3), Stealing(Nested(Together(OneLoop(3)), 2)), Nested(Together(OneLoop(3)), 1)}

SmallPlan == {OneLoop(2)}
=============================================================================
