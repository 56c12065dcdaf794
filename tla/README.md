# TLA+ specification of the composable parallel scheduler

A header-only C++ scheduler for parallel loops (`src/include`): a pool of
threads with one deque and one mailbox each, and on top of it a `ParallelFor`
that first *shares* a loop among the threads and then lets them *steal*.
The repository compares it with OpenMP, TBB and Taskflow; those are libraries
and not specified here.

## 1. The system

| Component | Source (under `src/include`) | State | Operations | Hard part | Correct when |
|---|---|---|---|---|---|
| Local deque | `eigen/run_queue.h` | `front_`, `back_` (rolling index and counter), slot states, works, `mutex_` | `PushFront`, `PopFront` (owner, no lock), `PushBack`, `PopBack` (anyone, locked), `Empty`, `Size` | two ends without a common lock; a snapshot of two words | it behaves as one deque; nothing lost, doubled, or reported missing |
| Mailbox | `eigen/mpmc_queue.h` | `head_`, `tail_`, per-slot `turn` and storage | `push`, `try_push`, `pop`, `try_pop` | tickets, laps, stalled threads | one FIFO; no two threads in a slot; a ticket's item reaches its consumer |
| Distribution | `timespan_partitioner.h` 121-176 | a task's range, threads, grain | `DistributeWork` | integer rounding, recursion over hints | each iteration planned once, no thread idle, balanced |
| Parallel loops | `timespan_partitioner.h` | tasks, tree of `TaskNode`s | `Task::operator()`, `ParallelFor` | range of a task cut while others run; join on a count; nesting | each iteration runs once before the call returns |
| Reference counts | `intrusive_ptr.h` | `m_cnt` | `AddRef`, `Release`, `LoadRef` | last release on any thread, chain up to a root on a stack | count = pointers; no use after free |
| Pool | `eigen/nonblocking_thread_pool.h`, `eigen_pool.h` | queues, `done_`, proxy `State_` | `RunOnThread`, `ScheduleWithHint`, `WorkerLoop`, `Steal`, destructor | one proxy in two queues; refused pushes; shutdown | each task entered as often as pushed, run once, deleted once; loops end |
| Barrier, warm-up | `poor_barrier.h`, `parallel_for.h` 139-145 | `remain_` | `Notify`, `Wait`, `Warmup` | bodies that block each other | all bodies start |
| Victim walk | pool, 319-333, 508-550, 583-590 | coprimes, partition, random state | `ComputeCoprimes`, `Steal`, `Rand` | modular arithmetic | a sweep visits each thread once |
| Pinning | `eigen_pinner.h`, `util.h` 62-86 | a barrier shared by pointers | constructor, pin tasks | pin tasks taken by other threads than the hinted ones; a barrier outliving its maker | ends; each thread on a CPU of its own |
| Rapid Start | `rapid_start.h` | `start_mask`, `finish_mask`, `run_mask`, `epoch`, `mode`, `func_ptr` | `spread_work`, trapped tasks, destructor | hand-over by spinning on words that the next loop changes | each iteration once; no function called after its loop returned; the destructor ends |
| Tracing | `tracing.h`, `trace.h` | lists of metrics | registration | unlocked list | no thread lost |
| Kernels | `benchmarks/scan.h`, `benchmarks/spmv.h` | arrays | scan, transposition | phases of loops | equal to the serial result |
| Others | `spin_lock.h`, `thread_index.h`, `num_threads.h`, `modes.h`, `eigen/max_size_vector.h`, `eigen/memory.h`, `eigen/stl_thread_env.h` | | | | |

How they interact: `ParallelFor` runs the root task on the calling thread. In
the sharing modes it hands up to two parts to other threads with
`EigenPoolWrapper::run_on_thread`, which wraps a part in a `ProxyTask` and
pushes the *same* object to the mailbox of the hinted thread and to the
caller's own deque. Then it works, for a time span with a growing grain in the
time-span modes, and splits off halves of what is left into its own deque.
Every task holds a `TaskNode` that holds its parent's, so the root's count is
back at 1 when everything is over; until then the caller runs whatever it finds
(`execute_something_else`). Workers take from their deque, their mailbox, the
mailboxes of others and, after a sweep in vain, the backs of the deques of
others. A push that is refused is executed on the spot. `InitParallel` pins the
threads first, with tasks that meet at a barrier, and then runs a loop of as
many bodies as threads that wait for each other (`Warmup`).

Rapid Start is another way to run a loop, for TBB: tasks that never return to
TBB but stay trapped, each spinning in its slot until the caller of a loop
publishes a mask. No source file includes `rapid_start.h`, and the variable
`RapidGroup` that the TBB_RAPID branches of `parallel_for.h` use is defined
nowhere; those branches show how it is meant to be used: `init` and at once the
warm-up loop.

## 2. Modules

| Module | What it is | Lines of code it stands for |
|---|---|---|
| `Deque` | abstract: one sequence, each operation one step | (what `RunQueue` promises) |
| `RunQueue` | `run_queue.h`, one step per shared access | 45-119, 156-162, 172-237 |
| `RunQueueProofs` | seven theorems, one the refinement of `Deque` | |
| `Mailbox` | abstract: a bounded FIFO | (what `MpmcQueue` promises) |
| `MpmcQueue` | `mpmc_queue.h`, one step per shared access | 85-254, 272-274 |
| `MpmcQueueProofs` | four theorems, one the refinement of `Mailbox` | |
| `WorkSplit` | the arithmetic of `DistributeWork`, pure operators | `timespan_partitioner.h` 121-168 |
| `Distribution` | the plan that the hints describe, when nobody steals | the same, run to the end |
| `DistributionProofs` | seven theorems, one about the sweeps of `Steal` | |
| `StealWalk` | the order in which a sweep visits victims, pure operators | the pool, 319-333, 508-550 |
| `OperatorProofs` | lemmas on one `DistributeWork` and on a walk, used for the plan and for the pool, and the inductions that they need | |
| `ParallelLoops` | abstract: each iteration once, then the return | (what `ParallelFor` promises) |
| `ForkJoin` | tasks, nodes, proxies, pool, join, stealing, pinning, shutdown; takes its split from `WorkSplit` and its sweeps from `StealWalk` | `timespan_partitioner.h`, `intrusive_ptr.h`, `eigen_pool.h`, `eigen_pinner.h`, `poor_barrier.h`, the pool |
| `ForkJoinProofs` | five theorems: its inductive invariant and what follows from it | |
| `ForkJoinLoops` | four theorems: where each iteration is, the refinement of `ParallelLoops`, pinning | |
| `RapidStart` | the spinning hand-over, one step per shared access; implements `ParallelLoops` too | `rapid_start.h` |
| `RapidStartProofs` | five theorems, one the refinement of `ParallelLoops` | |
| `Kernels` | the scan and the transposition as sequences of loops | `benchmarks/scan.h`, `benchmarks/spmv.h` 90-124 |
| `KernelsProofs` | three theorems | |
| `MC*` | constants for TLC | |

Operators whose comment begins with "Mutant" are wrong on purpose: each is a
plausible bug, put before the definition it would replace, and shows that some
property would notice it. No specification uses them.

### RunQueue
A position of `front_` or `back_` is a rolling index below `2 * kSize` and a
counter; `Up` and `Down` are the two ways the code stores it, with the carry of
the index into the counter. `pc` names the next access, `Load`/`Claim`/`MoveIn`/
`MoveOut`/`Publish`/`Release`/`StoreFront`/`StoreBack` are the accesses, and
`PushFront`... list them in the order of the code. Who may use what is the
constant `Uses`: only the owner works at the front, as in the pool. `seen` is a
history variable: which calls have met an empty queue.

### MpmcQueue
Tickets are unbounded naturals, as good as the 64-bit counters. A slot's turn
is the number the code stores. The refinement to `Mailbox` puts an item in the
FIFO when its ticket is drawn, and lets a refusal happen only for a reason met
during the call (`refused`).

### Distribution
One action, `DistributeWork`, takes a job of the hinted thread and replaces it
by what that thread keeps and what it hands out. The stack guard is left out
here (it is in `ForkJoin`). `SweepVisitsEach`, about the victims of a sweep
(`Sweep` of `StealWalk`), is stated here because it depends on the size of the
team alone; of a sweep that finds a task only the beginning is made.

### ForkJoin
Each thread has a stack of frames; the frame on top is the running function.

| Frames and actions | Code |
|---|---|
| `share`, `hand`, `self`: `Distribute`, `Hand`, `HandToSelf` | `DistributeWork` and the two pushes of `run_on_thread` |
| `span`, `span_body`: `Span`, `FinishBody` | the loop of the time span; `Now()` may be any time, so each iteration may be the last |
| `split`: `Split` | one balancing task per step |
| `rest`, `rest_body`: `Rest`, `FinishBody` | the final loop and `CurrentNode_.Reset()` |
| `release`: `Release` | `IntrusivePtrRelease` and the destructors of the chain |
| `enter`, `leave`: `Enter`, `Leave` | the two changes of a proxy's state |
| `join`: `Join` | the loop of `ParallelFor`; a thread that is not the pool's can only spin |
| `pop`, `mail`, `steal`, `rob`: `TakeLocalFront`, `TakeMail`, `StealMail`, `StealLocalBack`, `NothingFound` | `WorkerLoop`, once for a waiting thread, for ever for a worker |
| `main`: `CallLoop`, `Exit` | the caller, and `~ThreadPoolTempl` at the end of thread 0 |
| `pin`, `to_pin`, `pinned`, `gather`: `PushPin`, `PinMain`, `PinMe`, `Notify`, `Gather` | the constructor of `EigenPinner`, its tasks, and the barrier that both meet at |

A program, chosen in `Init` from the constant `Plans`, says for which mode it
is built, whether it pins its threads, how many loops each caller calls and of
which shape: sizes, a nested loop, bodies that wait for each other. In the
modes, STEALING neither shares nor has a time span, SHARING shares,
SHARING_STEALING does both. (STEALING_GRAINSIZE, a time span alone, is built by no target.) `modes.h` is always
included before the pool, so the condition at line 408 of the pool, which asks
whether the *names* of the modes are defined, is true in every mode: mailboxes
are robbed in all of them, and the model has no constant for it.

A sweep of `Steal` draws its first victim and its step from `Walks(N)`, the
pairs that some value of `Rand` gives, and `NextVictim` follows the walk; the
sequence of `Rand` itself is left open. Any thread may take the pin task meant
for another, so a thread's CPU is the number of a task and not always its own;
`PinnedApart` says that no two threads share one. There are as many CPUs as
threads.

What is abstracted: an operation of a queue is one step. For `RunQueue` that is
what `ImplementsDeque` shows. `MpmcQueue` is a little weaker: an unfinished push
can make `try_pop` fail although a later push has finished; here such a pop is
one that happens earlier, and nothing but delay comes of it. A push is refused
exactly when the queue is full (the code may also refuse one while the last
consumer is still leaving). A task's fields are written by one thread only and
travel through queues, so they need no steps of their own. The stack guard is a
number of frames, `HalfStack`. `runnext` is only ever null or `IDLE` and is
written by its owner alone, so `SetIdle` always succeeds and is left out;
`LocalSteal` returns at once, for no partition but the global one is ever set.

### RapidStart
The caller is thread 0; the slots are the others. `pc` names the next access:
`set_func` to `wait` are the lines of `spread_work` (78-94), `clear_run` to
`join` those of the destructor (169-175), `new` to `done` those of
`TrapperTask::operator()` (97-136). Masks are sets. Each of the two waits of a
slot is two steps, for the code reads the word once more after the wait, and it
may have changed. A part is the range that `parallel_ranges` cuts for the rank
of a slot in the mask it has read; running it is one step per iteration. `epoch`
has no initialiser in the code; the slots only compare it, so it is 0 at first.

The start is the code's: the wait at the end of `init` is commented out
(166-167), and `InitParallel` calls the warm-up loop directly after `init`, so a
task may come into its trap at any time, also in the middle of a later loop or
of the destructor. What can go wrong then lies in the slot's first look, the two
reads of lines 102 and 103, which no wait separates:

* The epoch of the loop before with the mask of this loop: the slot runs its
  part, finds the epoch changed, reads the same mask and calls the function once
  more, which may be gone (`rs_early`). The history variable `torn` holds the
  slots whose first look was of this kind.
* The epoch of this loop before its mask is out, with the slot's bit already in
  the snapshot; or the last epoch, of the destructor, after an older `mode`
  (line 100). The slot then waits for an epoch that does not come, and
  `spread_work`, or `tg.wait()`, waits for the slot (`Missed`).

Every later look is preceded by the waits, and is safe. So the properties say:
until a first look is torn, nobody calls a function that is gone
(`DanglesOnlyTorn`), each iteration is in one place (`OnePlaceEach`) and the
loops are those of `ParallelLoops` (`ImplementsLoops`), and if no first look is
torn that is so for ever; everything ends unless a slot has missed a mask
(`Termination`); and, without any condition, a slot leaves its trap only in the
destructor (`LeavesAtEnd`). A slot that is late to leave looks at the mask once
more (121-130); it never finds its bit there, and so nothing follows its call
(126) in the model, nor is a task ever spawned again (135).

### Kernels
A job is a scan or a transposition. The iterations of its present loop that
have begun are in `doing`, at most `Workers` of them, and interleave access by
access; the next loop begins when the present one is over, as `ParallelLoops`
promises. Element `k` of a scan starts as `2^k`, so that its sums tell which
elements were added, and how often. The two nested loops over the blocks of a
transposition are one loop over pairs of blocks. Sizes and offsets are unbounded
integers; in the code `1 << size_pow` is an `int` (`scan.h` 20, 23, 35), which
would matter from 2^30 elements on.

Memory model: every step is sequentially consistent. The code uses acquire and
release on the words through which data travels and relaxed loads of words that
the reader owns or checks again with a CAS; weaker behaviours than interleaving
are outside TLC's and these modules' reach.

## 3. Runs

Bounds are constants of the configurations.

| Run | Instance | What it shows |
|---|---|---|
| `rq_pool` | 4 slots, owner (also at its own back) and one thief, counter up to 8 | type, `EmptyIsTrue`, refinement of `Deque`, `Progress` |
| `rq_wrap` | 4 slots, 5 works, a counter of one bit | `SlotExclusion`, `Contiguous`, `LooksLarger`, `RefusesWhenFull` |
| `mq_try` | 2 slots, 2 producers, 2 consumers, 3 tickets | refinement of `Mailbox`, `NoTwoInSlot`, `Delivery` |
| `mq_wait` | 3 threads, 4 tickets, blocking and trying operations | producer and consumer of a ticket meet; who only tries returns |
| `ds_small` | up to 26 iterations, 9 threads, grains 1, 2, 5 | the plan covers, does not overlap, is balanced, leaves nobody idle; every sweep of a team visits each thread once |
| `fj_nested` | 2 threads, two loops with a nested one in each of the three modes, or a loop beside an outsider's; queues of one task, stacks half full at 4 frames | each iteration in one place, counts, no use after free, proxies, refinement of `ParallelLoops`, with refused pushes and deep stacks |
| `fj_warmup` | 3 threads; pinning alone, a shared loop of 3, loops of 3 bodies that wait for each other with a nested loop, stealing and sharing | the loops return, the threads are pinned apart, the pool ends |
| `fj_exit` | 2 threads, sharing | violated: a deque not empty when destroyed |
| `rs_start` | 3 threads, 3 loops of 5 iterations, tasks that come at any time | `DanglesOnlyTorn`, `OnePlaceEach`, `LeavesAtEnd`, refinement of `ParallelLoops`, `Termination` |
| `rs_early` | 2 threads, one loop right after `init` | violated: a function called after its loop returned |
| `kn_phases` | scans of 1 to 16 elements; matrices up to 4 x 3 in 1 to 3 parts that fit; 2 iterations at a time | accesses in the data, no two iterations of a loop on one cell, the right result |
| `tr_blocks` | 5 x 5 in 4 parts | violated: a part that begins after the end never ends |

Why the bounds are enough. *Deque*: four slots is the least power of two above
2; with `MaxCount` the indices go around the `2 * kSize` positions, so full,
empty, wrapped and half-wrapped queues all occur, and one thief is enough at
the back because thieves exclude each other (the proofs drop all these
bounds). `M = 16` in `rq_pool` keeps the counter from wrapping, as 2^21 pushes
during one `Empty` would be needed in the code; `M = 2` in `rq_wrap` wraps at
once, for those properties must not depend on it. *Mailbox*: two slots and
`MaxTicket` 3 or 4 give two laps and a refused third and every pair of laps in one slot.
*Distribution*: 26 iterations on 9 threads have every combination of
remainders at three levels, and parts that are handed on. *ForkJoin*: a second
thread brings every kind of steal, and a third a thief beside two that share,
and three parties at a barrier; one task in a queue makes the second push be
refused; `HalfStack = 4` is reached by a nested loop inside a task that runs on
top of a waiting one, while 9 is never reached in `fj_warmup`; two calls let the
left-overs of the first be met in the second. A part that is handed out and
handed on again needs four threads and is in `Distribution` only. *Rapid
Start*: with two slots each may come before, in or after any of three loops
while the other is in its trap, so that masks of every kind occur, and a slot is
behind by at most one loop; 5 iterations on 2 or 3 threads leave a remainder;
the proofs drop all these bounds. *Kernels*: 16 elements
have four levels up and down; two iterations at a time are enough for any
conflict of two.

Deadlock is checked in every run but `mq_wait`, where a blocking `pop` without
a `push` does wait for ever, by its nature.

Fairness: weak fairness of each thread's next step, and none on calls: the
operating system runs every thread again, and in Rapid Start TBB runs every
task; nothing else is assumed. Nothing is assumed of the random numbers: a
sweep visits each thread whichever walk it draws (`SweepVisitsEach`). That
`std::mutex` is taken by some waiting thread is part of the weak fairness of
all of them.

## 4. Theorems

Proved for every value of the constants that the `ASSUME`s admit.

*`RunQueueProofs`* (`K > 2`, one owner that alone works at the front). Alone
the properties are not inductive: that a slot is free for a push depends on who
may be at each end. `IInv` adds `Control` (the front belongs to the owner, the
back to the holder of `mutex_`) and `Slack` (when both ends are moving, a slot
is left between them). A claim on a slot extends or cuts the region of
published slots by one; `TrueFront` and `TrueBack` say where an end will be
when the operation in progress is over. Theorems: `TypeCorrect`,
`SlotsExclusive`, `QueueContiguous`, `SizeLooksLarger`, and `RefusedWhenFull`: a
push that gives up has met a slot at its end that is not free, and as the busy
slots are contiguous such a slot is the other end of a queue with at most one
place left.

Two theorems have an assumption more, `PoolUse`: nobody calls `PushBack`, as in
the pool, and the counter of `front_` does not wrap in the whole run. The
second is stronger than what the code needs, where fewer than 2^21 pushes
during one call of `Empty` would do. Then a thread that has read `front_` twice
alike knows that no push came between, so that what it read of `back_`, which
only shrinks the queue, belongs to the same queue: `EmptyOnlyIfEmpty`. With it
`Implements`: the queue implements `Deque`. A push takes effect when it
publishes its slot and a pop when it claims one; what is in the abstract
sequence is the works of the published slots in the order of their positions.
A pop that fails has met an empty slot at its end, or `Empty` was true, at a
moment during the call (`seen`). Every other access maps to a stutter.

*`MpmcQueueProofs`* (any capacity, any threads, all four operations). The
invariant `IInv(Nat)` says who has drawn which ticket, what the turn of a slot
says while someone is in it, and what a published slot holds; `Idx` and `Lap`
determine a ticket, so two threads in one slot with equal turns would have
drawn the same ticket. Theorems: `TypeCorrect`, `OneThreadInSlot`,
`DeliveredInOrder`.

The fourth theorem, `Implements`, has two assumptions: threads use the two try
operations only, as the pool's do, and `Nobody` is no thread. The queue
implements `Mailbox`. To the invariant above it
adds the tickets between the counters: each is published or its producer is at
it (`Held`), and the slot of each ticket that may be drawn next is free or about
to be freed (`Vacant`). The first gives `FreeMeansRoom`, that a producer whose
CAS succeeds finds the FIFO not full; the second gives `NotFreeMeansNoRoom`, that
an occupied slot is a reason to refuse. `Says` keeps the reason with the
thread until its call returns: `enq_reload` and `deq_reload` give up only when
the counter has not moved, so the turn they read was that of the end of the
queue. Draw, take, publish and free map to `MEnter`, `MTake`, `MFill` and
`MFree`; loads, comparisons, construction and moving out map to stutters.

*`OperatorProofs`*, *`DistributionProofs`* (any loop, team and grain). Lemmas
about ceilings and
cuts show the asserts of the code (lines 153-154 and 169-172): each part has at
least one iteration and one thread, and the parts end where the data ends. The
ordering of jobs and the covering of iterations follow step by step. Theorems:
`NoOverlap`, `NothingLost`, `TypeCorrect`. That nobody is left out needs more than
the order of the jobs (`Fair`): with a grain of one, a job that starts with an
iteration per thread is cut into jobs that have one per thread again
(`EnoughPieces`, `ThreadPieces`), so each thread of the team stays in the range
of some job, and a job that is handed out is for one thread alone; when there
are exactly as many iterations as threads, first iteration and first thread of
a job remain equal (`ExactPieces`). Theorems: `NobodyLeftOut`, `EachItsOwn`.
`ShareBounded`, that no thread gets more than twice its share: half of the data
may go to a half that has a thread less, so a job may hold more than the fair
share of its threads, and the excess must not add up over the cuts. It does
not (`Even`): a job has at most one fair share too much for all its threads
together, a cut keeps that, and so a job for one thread has at most two.

`SweepIsComplete` is number theory about the recursive functions of `StealWalk`:
every walk that a random number gives visits each thread of the team.
`EuclidSteps` and `EuclidDivides` say that a common factor of step and team
divides what `Euclid` computes, and so is 1 for the steps of the list
(`StepsType`); the list has the step 1, so that there are walks at all
(`SomeWalk`). After `k` of a sweep's advances the victim is the first one plus
`k` steps, modulo the team (`StopSteps`, `SweepStops`). Were it the same after
`i` and after `j`, the team would divide `(j - i)` steps and hence `j - i`,
which is less than the team (`CoprimeFactor`, `StopsApart`). As many different
victims as there are threads are all threads (`SweepsVisit`).

*`ForkJoinProofs`* (any team, any outsiders, any
programs, any capacities, `HalfStack` and grain that `ShapeAssumption` admits;
no other assumption). None of the
properties is inductive: whether a task may still be used depends on who else
has a pointer to it, in the queues and frames of all threads. `IInv` says so by
counting *places*, elements of the queues and frames of the stacks:

* `Shape` and `FramesOK`: what each frame is, that a frame that works on a task
  holds its node, and that a body has an iteration to run;
* `TasksOK`: ranges in order; a node's parent is older than the node, so that
  the release of a chain ends;
* `Lives`: how often a task is in a queue, about to be pushed, about to be
  entered, running or dropped determines its state. A proxy has two tickets
  and three stations, so the state word says which of the two threads that
  come to it runs it and which deletes it; anything else has one place;
* `Refs`: the count of a node is the number of its children that live, plus the
  frame about to release it, the task that holds it and the caller's root;
* `Pins`: who keeps EigenPinner's barrier and how many are still awaited;
* `Bounds`: queues within capacity.

A step is a move of one frame, with at most one call and one element of one
queue, so each count changes by what these hold (`Births` when a task is made,
`Passes` and `FoundRuns` when one goes on or is found, `Settles` when one
ends). The victim of a sweep is a thread of the team (`WalksInside`); the
induction that needs is done with sets of numbers and their least member
(`Counting`, `Smallest`). Theorems: `Invariant`, `TypeSafe`, `CountsAreRight`,
`NothingUsedAfterFree`, `ProxiesRunOnce`.

*`ForkJoinLoops`* (the same constants). `Tiled` is about iterations: the
*region* of a task is its range and the parts that its frame has yet to hand
out. The tasks of a loop descend from its root (`Family`); their regions do not
overlap (`Apart`), hold nothing that has run (`ToDo`) and all that has not
(`Covered`); parts follow the range in order (`Above`); what has run belongs to
a loop (`Recorded`). Cutting, handing out, a refused push and stealing pass
parts of a region on; `FinishBody` runs its first iteration. Theorems: `Tiling`,
`OnePlace`.

`Implements`: the step to implement is the return, which `ParallelLoops` allows
only when all iterations have run, while the code looks at one number, the
count of the root. If it is 1, no task of the loop holds its node
(`LoopCounts`): the youngest counterexample would be counted by its parent,
which would be a younger one or the root. A task without a node has an empty
region, so by `Covered` everything has run (`AllOver`). The other steps begin a
loop, run an iteration, or are stutters.

`EachOnItsOwn`: threads are pinned apart, under `PinsFirst`. It says that a
program that pins has no loops of outsiders, since `InitParallel` pins before
anything else, and that a mailbox has room for one task. `PinnedSoFar` has the
reasons. While the constructor works, thread 0 does nothing but push, pin
itself and wait, and there are no other tasks (`OnlyMain`, `Sown`). Each task
goes to the empty mailbox of another thread, so none is refused and run on
thread 0, which would then have two (`Helpers`). A thread that has run one,
its own or a stolen one, waits at the barrier until all have been run, and so
runs no second (`OwnCpus`). When the constructor has returned all tasks have
been run (`AllHere`): CPUs have been assigned to threads one to one, and as
there are as many of both, each thread has one.

*`RapidStartProofs`* (any number of threads, loops and iterations, however late
the slots come; no assumption). Two theorems have no condition. `Always` holds
the types; `Called`, which loop is spread and whose function `func_ptr` is;
`Counted`, which bounds `n_tasks` from below by the tasks that are not over; and
`Ending`: the run mask at each place of the caller, and that a slot whose bit is
in it, having run its part, comes back to read that mask or a later one, and so
is not among those that leave (`Stays`). This gives `TypeCorrect` and
`LeavesOnlyAtEnd`.

The other three hold until the first look of a slot is torn. What the caller
waits for is that `finish_mask` equals its snapshot, and that says nothing about
where a slot is. `Phases` adds it: outside of a loop nobody is called, and who is
in the run mask rests at the present epoch; while the mask is out, a slot that
is called, or works, is in the snapshot and has yet to set its bit, and one that
has set it rests (`Sharing`). `Following` is why later looks are safe: a slot
that has yet to see that the epoch has moved on, or waits for the mask, had its
bit in `start_mask` before it read the older epoch, is therefore in the snapshot,
and the caller cannot return without it. `Progress` says that each thread of the
snapshot has run its part exactly up to its mark. The snapshot may be any set of
slots, so the parts are those of ranks: `PartsInOrder` and `PartsTaken` (an
injection between sets of one size is onto) number the threads of a mask, and
`BoundsApart` and `PartOfIteration` make the parts tile the range (`OwnedOnce`,
`OwnedByOne`). This gives the place of each iteration and the refinement: the
step `Return` maps to the abstract return, each `RunOne` to an abstract
iteration, `SpreadWork` to a call, every other step to a stutter. Theorems:
`NoDangling`, `OnePlace`, `Implements`. As `ran` is a set, that an iteration runs
once is the work of `OnePlace`, and of `RunStep`, which shows that it has not run
before.

*`KernelsProofs`* (any sizes, shapes, numbers of parts and workers). A scan is
correct because of what its levels have added up, so the invariant has to say
it for every element at every level, and in the middle of a level. Element `k`
has the *rank* `l` when `2^l` is the largest power of two that divides `k + 1`
(`Rank`). The up-sweeps leave in an element of rank `l` the sum of `2^l`
elements, and levels above do not touch it (`Low`, `LowAway`); at level `d` the
ends of the first halves are the elements of rank `d`, those of the segments
the others that `2^d` divides (`EndsOf`, `OnEnds`, `OnLast`). `UpDone` and
`DownDone` say what the two ends of a segment hold before, during and after its
iteration: on the way down, the end of a segment holds the sum of all before
the segment, and then, for either half, the sum of all before that half.
`Stretches` has the two additions behind it, and `NextSweepStep` hands the ends
of one level to the next, larger or smaller. At level 0 every element is an
end, which is the result. The provers know no powers, so that
`2 ^ (k + 1) = 2 * 2 ^ k` is proved first, by counting subsets (`PowerStep`).
The transposition (`Copied`: what an iteration has passed is written, and
written right) needs that the parts cover the matrix (`BlocksCover`) and do not
overlap (`BlocksApart`). Theorems: `NoRace` and `Computed`, without any
assumption, and `FittingStaysInside`: no access outside the data if no part
begins after the end of the matrix (`Fits`). It is the shapes without that
that `tr_blocks` is about, so the condition cannot be dropped; a scan always
meets it.

Left to TLC:

* liveness under fairness: `Progress` of the queues, `TicketsMeet`,
  `Termination`; fairness and `ENABLED` are beyond the proof system;
* the three runs that expect a violation.

Every invariant and action property of the runs that pass, and each of the four
refinements, is a theorem; `RunQueue` has two under `PoolUse`, `MpmcQueue` its
refinement for the try operations, `ForkJoin` `PinnedApart` under `PinsFirst`,
and `Kernels` `InData` under `Fitting`.

## 5. Where the code and its texts disagree

* `assert(Size() == 0)` in `~RunQueue` (`fj_exit`): second copies of proxies
  are left behind when the pool ends.
* Rapid Start without a wait (`rs_early`): a task that has set its bit and read
  the old epoch may read the mask of the first loop, run its part, find the epoch
  changed, read the same mask again and call the function a second time, after
  `spread_work` has returned. The comment at the wait that `init` leaves out says
  that one should not wait for all threads. That wait, for the bits of
  `start_mask`, would not do either: a slot sets its bit before its first look.
* Blocks after the end (`tr_blocks`): the length of a part is rounded up, so the
  last parts may begin after the last row, and their loops, which ask `i !=` the
  end, run out of the matrix. With the sizes of `bench_mtranspose` three threads
  are enough.

Two more that no run shows. `PushBack` does not count in `back_`, so that a
snapshot of `Empty` (`run_queue.h` 185-190, 199-200) is not consistent when
somebody pushes at the back; the pool never does, and `EmptyIsTrue` is stated
for its uses. The test `InitialDistributionBalanced` expects iteration `i` on
thread `i / 2`, and the plan differs on 21 threads and others; no Eigen build
compiles the test, for the mode names it asks for are gone.

The test `InitialDistribution` ("all tasks should be distributed without work
stealing") is no promise of the code either: mailboxes are robbed by whoever
looks for work, so it holds only when the hinted threads are quick.

## 6. Not modelled

* `PopBackHalf` (uses an undefined macro, never instantiated), `Flush`, `Cancel`,
  `SetStealPartitions`, `StealWithRunnext`, `NonEmptyQueueIndex`,
  `join_main_thread` and `ParallelDo` are called nowhere, or only from each
  other.
* Tracing (`tracing.h`, `trace.h`) counts and measures; what it does wrong (an
  unlocked list) has no defined outcome to choose from.
* The thread index and the number of threads are read from the environment once.
  `SpinLock` is used by nothing. Eigen's vector is filled during construction
  only.
* OpenMP, TBB, Taskflow and HPX, the other back ends of `parallel_for.h`, are
  libraries.
* The sparse and the dense product write each result from one iteration, and
  the generators are sequential. The benchmark and measuring programs are
  straight-line drivers.
* An exception thrown by a body is not handled by the code.

## 7. Plan

Done: deque, mailbox, distribution, victim walk, loops on the pool, barrier and
pinning, Rapid Start, scan and transposition, with the proofs of section 4. What
is left, in this order:

1. `ParallelDo` in `ForkJoin`; `Cancel`, `Flush` and the destructor with the
   blocking `pop`, should the code come to call them.
2. `SpinLock` and the registration of tracing metrics.
