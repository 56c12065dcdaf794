---------------------------- MODULE Distribution ----------------------------
(***************************************************************************)
(* The initial distribution of a parallel loop in the sharing modes: every *)
(* task that starts on its hinted thread runs DistributeWork, keeps its    *)
(* share and hands out jobs, until no job is left.  Nobody steals here:    *)
(* this is the plan the hints describe, not who ends up running it.  What  *)
(* a thief of such a team finds on its walk is a question of the team only.*)
(***************************************************************************)
EXTENDS WorkSplit, StealWalk, FiniteSets

CONSTANTS Sizes,   \* the numbers of iterations to try
          Teams,   \* the numbers of threads to try
          Grains   \* the grain sizes to try

ASSUME InputsAssumption ==
  Sizes \subseteq Nat \ {0} /\ Teams \subseteq Nat \ {0} /\ Grains \subseteq Nat \ {0}

VARIABLES n, team, grain,  \* the loop: ParallelFor(0, n, func, grain) on team threads
          todo,            \* jobs handed to a thread that has not started them
          held             \* jobs cut down to the share of their first thread
vars == <<n, team, grain, todo, held>>

Job(from, to, lo, hi) == [from |-> from, to |-> to, lo |-> lo, hi |-> hi, grain |-> grain]

Init ==
  /\ n \in Sizes /\ team \in Teams /\ grain \in Grains
  /\ todo = {Job(0, n, 0, team)}
  /\ held = {}

Elements(s) == {s[i] : i \in DOMAIN s}

\* Mutant: the task keeps the iterations it hands out.
DistributeAndKeep(j) ==
  /\ todo' = (todo \ {j}) \cup IF Shares(j) THEN Elements(Handed(j)) ELSE {}
  /\ held' = held \cup {Job(j.from, j.to, j.lo, j.lo + 1)}
  /\ UNCHANGED <<n, team, grain>>

DistributeWork(j) ==
  /\ todo' = (todo \ {j}) \cup IF Shares(j) THEN Elements(Handed(j)) ELSE {}
  /\ held' = held \cup {Job(j.from, IF Shares(j) THEN Keep(j) ELSE j.to, j.lo, j.lo + 1)}
  /\ UNCHANGED <<n, team, grain>>

Done == todo = {} /\ UNCHANGED vars
Next == (\E j \in todo : DistributeWork(j)) \/ Done

Spec == Init /\ [][Next]_vars

-----------------------------------------------------------------------------
\* The asserts of the loop: no job without iterations or without threads.
GoodJob(j) ==
  /\ j = Job(j.from, j.to, j.lo, j.hi)
  /\ j.from \in 0 .. n /\ j.to \in 0 .. n /\ j.from < j.to
  /\ j.lo \in 0 .. team /\ j.hi \in 0 .. team /\ j.lo < j.hi
TypeOK == /\ n \in Sizes /\ team \in Teams /\ grain \in Grains
          /\ \A j \in todo \cup held : GoodJob(j)

\* Of two jobs, the one with the earlier iterations has the earlier threads,
\* and they share neither an iteration nor a thread: no iteration is given
\* out twice and no thread is hinted twice.
Before(j, k) == j.to <= k.from /\ j.hi <= k.lo
Ordered == \A j, k \in todo \cup held : j # k => Before(j, k) \/ Before(k, j)

\* No iteration is lost on the way, whatever the roundings.
Complete == \A i \in 0 .. n - 1 : \E j \in todo \cup held : i \in j.from .. j.to - 1

IInv == TypeOK /\ Ordered /\ Complete /\ todo \cap held = {}

ShareOf(t) == UNION {j.from .. j.to - 1 : j \in {k \in held : k.lo = t}}
Ready == todo = {}

\* With as many iterations as threads each thread gets the one of its index
\* (test InitialDistribution).
OneEach == Ready /\ n = team /\ grain = 1 => \A t \in 0 .. team - 1 : ShareOf(t) = {t}

\* With at least as many iterations as threads no thread is left without.
NobodyIdle == Ready /\ n >= team /\ grain = 1 => \A t \in 0 .. team - 1 : ShareOf(t) # {}

\* Handing half of the data to either part, although one may have a thread
\* more, never gives a thread more than twice the fair share (and a grain).
AtMostTwice == Ready =>
  \A t \in 0 .. team - 1 :
    Cardinality(ShareOf(t)) <= 2 * ((n + team - 1) \div team) + (grain - 1)

\* Whatever random number a sweep of Steal starts from, it visits every thread
\* of the team once: a task that waits for a thief is found by the next sweep.
SweepVisitsEach == \A w \in Walks(team) :
  {Sweep(team, w)[k] : k \in 0 .. team - 1} = 0 .. team - 1
=============================================================================
