----------------------------- MODULE WorkSplit -----------------------------
(***************************************************************************)
(* Task::DistributeWork of include/timespan_partitioner.h: how a task that *)
(* has iterations [from, to) and threads [lo, hi) keeps the first share    *)
(* for its own thread lo and hands the rest to the threads after it.       *)
(*                                                                         *)
(* A job is a record [from, to, lo, hi, grain].                            *)
(***************************************************************************)
EXTENDS Integers

K_SPLIT == 2

Least(a, b) == IF a <= b THEN a ELSE b
Extra(i, mod) == IF i < mod THEN 1 ELSE 0

Threads(j) == j.hi - j.lo
\* IsDivisible without its second condition, which is about the stack.
LongerThanGrain(j) == j.from + j.grain < j.to
\* Where the iterations of the other threads begin.
Keep(j) == j.from + (j.to - j.from + Threads(j) - 1) \div Threads(j)
Shares(j) == Threads(j) # 1 /\ LongerThanGrain(j) /\ Keep(j) < j.to

OtherThreads(j) == Threads(j) - 1
OtherData(j) == j.to - Keep(j)
\* Mutant: more parts than iterations.
PartsWithoutData(j) == Least(K_SPLIT, OtherThreads(j))
Parts(j) == Least(Least(K_SPLIT, OtherThreads(j)), OtherData(j))

\* Mutants: the spare thread goes to the first part, or threadStep is lost.
ThreadSplitFirst(j, thread, i) ==
  Least(j.hi, thread + OtherThreads(j) \div Parts(j) + Extra(i, OtherThreads(j) % Parts(j)))
ThreadSplitOne(j, thread, i) == Least(j.hi, thread + 1)
\* Mutants: the spare iteration always goes to the first part, or to none.
DataSplitFirst(j, data, i) ==
  Least(j.to, data + OtherData(j) \div Parts(j) + Extra(i, OtherData(j) % Parts(j)))
DataSplitEven(j, data, i) == Least(j.to, data + OtherData(j) \div Parts(j))

\* threadSplit and dataSplit of part i, which starts at thread and at data.
ThreadSplit(j, thread, i) ==
  Least(j.hi, thread + OtherThreads(j) \div Parts(j)
                     + Extra(Parts(j) - 1 - i, OtherThreads(j) % Parts(j)))
DataSplit(j, data, i) ==
  Least(j.to, data + OtherData(j) \div Parts(j)
                   + Extra(IF OtherThreads(j) % Parts(j) = 0 THEN i ELSE Parts(j) - 1 - i,
                           OtherData(j) % Parts(j)))

Part(j, data, thread, i) ==
  [from |-> data, to |-> DataSplit(j, data, i),
   lo |-> thread, hi |-> ThreadSplit(j, thread, i), grain |-> j.grain]
First(j) == Part(j, Keep(j), j.lo + 1, 0)
Second(j) == Part(j, First(j).to, First(j).hi, 1)
\* The jobs handed out, in the order of the loop.
Handed(j) == IF Parts(j) = 1 THEN <<First(j)>> ELSE <<First(j), Second(j)>>
=============================================================================
