----------------------------- MODULE RapidStart -----------------------------
(***************************************************************************)
(* RapidStart of include/rapid_start.h: tasks that never return to their   *)
(* scheduler but are trapped, each in a slot, spinning until the caller of *)
(* a loop hands all of them their parts at once with a few stores.         *)
(*                                                                         *)
(* Masks are sets of slots.  One step is one access to a shared word.      *)
(***************************************************************************)
EXTENDS Integers, FiniteSets

CONSTANTS MaxThreads,  \* the threads: the caller is 0, the slots are the others
          Loops,       \* how many loops the caller spreads before the end
          Size         \* the iterations of a loop

ASSUME ShapeAssumption == MaxThreads \in Nat \ {0} /\ Loops \in Nat /\ Size \in Nat

Slots == 1 .. MaxThreads - 1
Threads == 0 .. MaxThreads - 1
Stopping == 0  \* values of mode
Trapped == 2
NoLoop == 0

VARIABLES
  start_mask, finish_mask, run_mask, func_ptr, epoch, mode, n_tasks,
  pc,        \* where each thread is
  e, r,      \* the epoch and the run mask a slot has read
  snapshot,  \* mask_snapshot of the caller
  loop,      \* the loop the caller spreads, or has spread last
  work,      \* what a thread still has to run: [of, from, to]
  ran,       \* the iterations finished, as pairs <<loop, iteration>>
  ended,     \* the loops that have returned
  torn       \* history: the slots whose first look took a mask with an old epoch
shared == <<start_mask, finish_mask, run_mask, func_ptr, epoch, mode, n_tasks>>
vars == <<shared, pc, e, r, snapshot, loop, work, ran, ended, torn>>

Goes(t, label) == pc' = [pc EXCEPT ![t] = label]

-----------------------------------------------------------------------------
(* distribution_base::run and execute: slot runs the part whose number is  *)
(* its rank in the mask; bit 0 of a mask is not looked at.                 *)

Parts(mask) == Cardinality(mask \ {0}) + 1
PartOf(slot, mask) ==
  IF slot \in mask \ {0} THEN Cardinality({i \in mask \ {0} : i < slot}) + 1 ELSE 0
Lesser(a, b) == IF a <= b THEN a ELSE b
\* Mutants: the remainder is forgotten, or every part gets one more.
BoundRoundedDown(part, parts) == part * (Size \div parts)
BoundRoundedUp(part, parts) == part * (Size \div parts + 1)
Bound(part, parts) == part * (Size \div parts) + Lesser(Size % parts, part)

NoWork == [of |-> NoLoop, from |-> 0, to |-> 0]
WorkFor(f, slot, mask) ==
  LET part == PartOf(slot, mask)
  IN [of |-> f, from |-> Bound(part, Parts(mask)), to |-> Bound(part + 1, Parts(mask))]

\* my_func: one iteration of the part.
RunOne(t) ==
  /\ pc[t] = "work" /\ work[t].from < work[t].to
  /\ ran' = ran \cup {<<work[t].of, work[t].from>>}
  /\ work' = [work EXCEPT ![t].from = @ + 1]
  /\ UNCHANGED <<shared, pc, e, r, snapshot, loop, ended, torn>>

-----------------------------------------------------------------------------
(* spread_work, and the destructor after the last loop.                    *)

Caller(from, to) == pc[0] = from /\ Goes(0, to)
SpreadWork ==
  /\ loop < Loops
  /\ Caller("idle", "set_func")
  /\ loop' = loop + 1
  /\ run_mask' = {}
  /\ UNCHANGED <<start_mask, finish_mask, func_ptr, epoch, mode, n_tasks, e, r, snapshot, work,
                 ran, ended, torn>>

SetFunc ==
  /\ Caller("set_func", "set_epoch")
  /\ func_ptr' = loop
  /\ UNCHANGED <<start_mask, finish_mask, run_mask, epoch, mode, n_tasks, e, r, snapshot, loop,
                 work, ran, ended, torn>>

SetEpoch ==
  /\ Caller("set_epoch", "snapshot")
  /\ epoch' = epoch + 1
  /\ UNCHANGED <<start_mask, finish_mask, run_mask, func_ptr, mode, n_tasks, e, r, snapshot, loop,
                 work, ran, ended, torn>>

TakeSnapshot ==
  /\ Caller("snapshot", "reset_finish")
  /\ snapshot' = start_mask
  /\ UNCHANGED <<shared, e, r, loop, work, ran, ended, torn>>

\* Mutant: the bits of the loop before stay.
KeepFinish ==
  /\ Caller("reset_finish", "set_run")
  /\ UNCHANGED <<shared, e, r, snapshot, loop, work, ran, ended, torn>>
ResetFinish ==
  /\ Caller("reset_finish", "set_run")
  /\ finish_mask' = {}
  /\ UNCHANGED <<start_mask, run_mask, func_ptr, epoch, mode, n_tasks, e, r, snapshot, loop, work,
                 ran, ended, torn>>

\* Mutant: start_mask is read once more.
SetRunAnew ==
  /\ Caller("set_run", "work")
  /\ run_mask' = start_mask \cup {0}
  /\ work' = [work EXCEPT ![0] = WorkFor(loop, 0, snapshot)]
  /\ UNCHANGED <<start_mask, finish_mask, func_ptr, epoch, mode, n_tasks, e, r, snapshot, loop,
                 ran, ended, torn>>
SetRun ==
  /\ Caller("set_run", "work")
  /\ run_mask' = snapshot \cup {0}
  /\ work' = [work EXCEPT ![0] = WorkFor(loop, 0, snapshot)]
  /\ UNCHANGED <<start_mask, finish_mask, func_ptr, epoch, mode, n_tasks, e, r, snapshot, loop,
                 ran, ended, torn>>

OwnPartDone ==
  /\ work[0].from = work[0].to
  /\ Caller("work", "wait")
  /\ work' = [work EXCEPT ![0] = NoWork]
  /\ UNCHANGED <<shared, e, r, snapshot, loop, ran, ended, torn>>

\* Mutant: the caller waits for nobody.
ReturnAtOnce ==
  /\ Caller("wait", "idle")
  /\ ended' = ended \cup {loop}
  /\ UNCHANGED <<shared, e, r, snapshot, loop, work, ran, torn>>
\* spread_work returns, and with it the function's object is gone.
Return ==
  /\ finish_mask = snapshot
  /\ Caller("wait", "idle")
  /\ ended' = ended \cup {loop}
  /\ UNCHANGED <<shared, e, r, snapshot, loop, work, ran, torn>>

\* ~RapidStart.
Stop ==
  /\ loop = Loops
  /\ Caller("idle", "clear_run")
  /\ mode' = Stopping
  /\ UNCHANGED <<start_mask, finish_mask, run_mask, func_ptr, epoch, n_tasks, e, r, snapshot, loop,
                 work, ran, ended, torn>>

ClearRun ==
  /\ Caller("clear_run", "wake")
  /\ run_mask' = {0}
  /\ UNCHANGED <<start_mask, finish_mask, func_ptr, epoch, mode, n_tasks, e, r, snapshot, loop,
                 work, ran, ended, torn>>

Wake ==
  /\ Caller("wake", "join")
  /\ epoch' = epoch + 1
  /\ UNCHANGED <<start_mask, finish_mask, run_mask, func_ptr, mode, n_tasks, e, r, snapshot, loop,
                 work, ran, ended, torn>>

\* tg.wait
WaitForTasks ==
  /\ \A i \in Slots : pc[i] = "over"
  /\ Caller("join", "over")
  /\ UNCHANGED <<shared, e, r, snapshot, loop, work, ran, ended, torn>>

Calling ==
  \/ SpreadWork \/ SetFunc \/ SetEpoch \/ TakeSnapshot \/ ResetFinish \/ SetRun
  \/ OwnPartDone \/ Return \/ Stop \/ ClearRun \/ Wake \/ WaitForTasks

-----------------------------------------------------------------------------
(* TrapperTask::operator().                                                *)

Trapper(i, from, to) == pc[i] = from /\ Goes(i, to)
Start(i) ==
  /\ Trapper(i, "new", IF mode = Stopping THEN "done" ELSE "enter")
  /\ UNCHANGED <<shared, e, r, snapshot, loop, work, ran, ended, torn>>

EnterTrap(i) ==
  /\ Trapper(i, "enter", "first_epoch")
  /\ start_mask' = start_mask \cup {i}
  /\ UNCHANGED <<finish_mask, run_mask, func_ptr, epoch, mode, n_tasks, e, r, snapshot, loop, work,
                 ran, ended, torn>>

FirstEpoch(i) ==
  /\ Trapper(i, "first_epoch", "first_run")
  /\ e' = [e EXCEPT ![i] = epoch]
  /\ UNCHANGED <<shared, r, snapshot, loop, work, ran, ended, torn>>

\* The first look at the mask is not preceded by a wait, and the epoch read
\* before it may be that of the loop before.
FirstRun(i) ==
  /\ Trapper(i, "first_run", IF i \in run_mask THEN "call" ELSE "epoch")
  /\ r' = [r EXCEPT ![i] = run_mask]
  /\ torn' = IF i \in run_mask /\ e[i] # epoch THEN torn \cup {i} ELSE torn
  /\ UNCHANGED <<shared, e, snapshot, loop, work, ran, ended>>

Call(i) ==
  /\ Trapper(i, "call", "work")
  /\ work' = [work EXCEPT ![i] = WorkFor(func_ptr, i, r[i])]
  /\ UNCHANGED <<shared, e, r, snapshot, loop, ran, ended, torn>>

\* Mutant: the bit is set while the part runs.
FinishEarly(i) ==
  /\ pc[i] = "work"
  /\ finish_mask' = finish_mask \cup {i}
  /\ IF work[i].from = work[i].to
     THEN Goes(i, "epoch") /\ work' = [work EXCEPT ![i] = NoWork] ELSE UNCHANGED <<pc, work>>
  /\ UNCHANGED <<start_mask, run_mask, func_ptr, epoch, mode, n_tasks, e, r, snapshot, loop, ran,
                 ended, torn>>
Finish(i) ==
  /\ work[i].from = work[i].to
  /\ Trapper(i, "work", "epoch")
  /\ finish_mask' = finish_mask \cup {i}
  /\ work' = [work EXCEPT ![i] = NoWork]
  /\ UNCHANGED <<start_mask, run_mask, func_ptr, epoch, mode, n_tasks, e, r, snapshot, loop, ran,
                 ended, torn>>

\* Each wait is followed by a second read of the word, which may have moved on.
SpinOnEpoch(i) ==
  /\ epoch # e[i]
  /\ Trapper(i, "epoch", "read_epoch")
  /\ UNCHANGED <<shared, e, r, snapshot, loop, work, ran, ended, torn>>

ReadEpoch(i) ==
  /\ Trapper(i, "read_epoch", "run_mask")
  /\ e' = [e EXCEPT ![i] = epoch]
  /\ UNCHANGED <<shared, r, snapshot, loop, work, ran, ended, torn>>

SpinOnRun(i) ==
  /\ run_mask # {}
  /\ Trapper(i, "run_mask", "read_run")
  /\ UNCHANGED <<shared, e, r, snapshot, loop, work, ran, ended, torn>>

ReadRun(i) ==
  /\ Trapper(i, "read_run", IF i \in run_mask THEN "call" ELSE "while")
  /\ r' = [r EXCEPT ![i] = run_mask]
  /\ UNCHANGED <<shared, e, snapshot, loop, work, ran, ended, torn>>

\* The slot is not in the mask: it stays only in mode 2.
While(i) ==
  /\ Trapper(i, "while", IF mode = Trapped THEN "epoch" ELSE "leave")
  /\ UNCHANGED <<shared, e, r, snapshot, loop, work, ran, ended, torn>>

LeaveTrap(i) ==
  /\ Trapper(i, "leave", "out")
  /\ start_mask' = start_mask \ {i}
  /\ UNCHANGED <<finish_mask, run_mask, func_ptr, epoch, mode, n_tasks, e, r, snapshot, loop, work,
                 ran, ended, torn>>

\* Whoever was late to leave looks at the mask once more.
SeeLate(i) ==
  /\ Trapper(i, "out", IF e[i] # epoch THEN "late" ELSE "done")
  /\ UNCHANGED <<shared, e, r, snapshot, loop, work, ran, ended, torn>>

SpinLate(i) ==
  /\ run_mask # {}
  /\ Trapper(i, "late", "late_read")
  /\ UNCHANGED <<shared, e, r, snapshot, loop, work, ran, ended, torn>>

\* Nothing follows "late_call", the call of line 126: LeavesAtEnd says that no
\* slot comes there.
ReadLate(i) ==
  /\ Trapper(i, "late_read", IF i \in run_mask THEN "late_call" ELSE "done")
  /\ r' = [r EXCEPT ![i] = run_mask]
  /\ UNCHANGED <<shared, e, snapshot, loop, work, ran, ended, torn>>

\* The task ends, or is spawned again.
End(i) ==
  /\ Trapper(i, "done", IF mode = Stopping THEN "over" ELSE "new")
  /\ n_tasks' = IF mode = Stopping THEN n_tasks - 1 ELSE n_tasks
  /\ UNCHANGED <<start_mask, finish_mask, run_mask, func_ptr, epoch, mode, e, r, snapshot, loop,
                 work, ran, ended, torn>>

Trapping(i) ==
  \/ Start(i) \/ EnterTrap(i) \/ FirstEpoch(i) \/ FirstRun(i) \/ Call(i) \/ Finish(i)
  \/ SpinOnEpoch(i) \/ ReadEpoch(i) \/ SpinOnRun(i) \/ ReadRun(i) \/ While(i)
  \/ LeaveTrap(i) \/ SeeLate(i) \/ SpinLate(i) \/ ReadLate(i) \/ End(i)

-----------------------------------------------------------------------------
\* The constructor and init: a task for each slot.
Init ==
  /\ start_mask = {} /\ finish_mask = {} /\ run_mask = {} /\ func_ptr = NoLoop
  /\ epoch = 0 /\ mode = Trapped /\ n_tasks = MaxThreads
  /\ pc = [t \in Threads |-> IF t = 0 THEN "idle" ELSE "new"]
  /\ e = [i \in Slots |-> 0] /\ r = [i \in Slots |-> {}]
  /\ snapshot = {} /\ loop = 0
  /\ work = [t \in Threads |-> NoWork]
  /\ ran = {} /\ ended = {} /\ torn = {}

Step(t) == RunOne(t) \/ (t = 0 /\ Calling) \/ (t \in Slots /\ Trapping(t))
Over == (\A t \in Threads : pc[t] = "over") /\ UNCHANGED vars
\* The busy waits: a thread that spins goes on, and changes nothing.
Spin(t) ==
  /\ \/ pc[t] = "wait" /\ finish_mask # snapshot
     \/ t \in Slots /\ pc[t] = "epoch" /\ epoch = e[t]
     \/ t \in Slots /\ pc[t] \in {"run_mask", "late"} /\ run_mask = {}
  /\ UNCHANGED vars
Next == (\E t \in Threads : Step(t) \/ Spin(t)) \/ Over

Spec == Init /\ [][Next]_vars
\* tbb runs every task, and no thread is stopped for ever.
FairSpec == Spec /\ \A t \in Threads : WF_vars(Step(t))

-----------------------------------------------------------------------------
Labels == {"idle", "set_func", "set_epoch", "snapshot", "reset_finish", "set_run", "work", "wait",
           "clear_run", "wake", "join", "over", "new", "enter", "first_epoch", "first_run", "call",
           "epoch", "read_epoch", "run_mask", "read_run", "while", "leave", "out", "late",
           "late_read", "late_call", "done"}
TypeOK ==
  /\ start_mask \subseteq Slots /\ finish_mask \subseteq Slots /\ run_mask \subseteq Threads
  /\ func_ptr \in 0 .. Loops /\ epoch \in Nat /\ mode \in {Stopping, Trapped}
  /\ n_tasks \in 0 .. MaxThreads
  /\ pc \in [Threads -> Labels] /\ e \in [Slots -> Nat] /\ r \in [Slots -> SUBSET Threads]
  /\ snapshot \subseteq Slots /\ loop \in 0 .. Loops
  /\ work \in [Threads -> [of : 0 .. Loops, from : 0 .. Size, to : 0 .. Size]]
  /\ ran \subseteq (1 .. Loops) \X (0 .. Size - 1) /\ ended \subseteq 1 .. Loops
  /\ torn \subseteq Slots

\* Nobody calls a function, or is inside one, whose object went with the frame
\* of spread_work that made it.
NoDanglingCall == \A t \in Threads :
  /\ pc[t] = "work" => work[t].of = loop /\ loop \notin ended
  /\ pc[t] = "call" => func_ptr = loop /\ loop \notin ended

\* That is so, however late the slots come into their traps, until the first
\* look of one of them (lines 102 and 103) takes a mask with the epoch of the
\* loop before.  Every later look is safe.
DanglesOnlyTorn == torn = {} => NoDanglingCall

\* Once the mask is out, each iteration is over, or in the part of exactly one
\* thread, which works on it or has yet to see the mask: slots that wake late
\* cut the loop as the caller did, unless a first look was torn.
Left(t) ==
  IF pc[t] = "work" THEN work[t].from .. work[t].to - 1
  ELSE IF t \in snapshot \ finish_mask
  THEN LET part == WorkFor(loop, t, snapshot) IN part.from .. part.to - 1 ELSE {}
OnePlaceEach == torn = {} /\ pc[0] \in {"work", "wait"} =>
  \A i \in 0 .. Size - 1 :
    Cardinality({t \in Threads : i \in Left(t)}) = IF <<loop, i>> \in ran THEN 0 ELSE 1

\* A slot leaves only in the destructor, and one too late to leave (line 122)
\* finds no part for it (line 125): the run mask of the last loop, if it is
\* still there, does not hold the slot.
LeavesAtEnd == \A i \in Slots :
  /\ pc[i] \in {"leave", "out", "late", "late_read", "done", "over"} => mode = Stopping
  /\ pc[i] # "late_call"

\* parallel_ranges returns when each iteration has run, once, until a slot's
\* first look takes a mask with the epoch of the loop before.
L == INSTANCE ParallelLoops WITH size <- [l \in 1 .. loop |-> Size]
ImplementsLoops == L!PInit /\ [][torn' = {} => L!PNext]_(L!pvars)

\* Every loop returns, and the destructor too, unless a slot that has read the
\* epoch of a loop, or of the end, looks at the mask before it is out, and
\* then waits for an epoch that does not come.
Missed(i) ==
  /\ pc[i] = "epoch" /\ e[i] = epoch
  /\ pc[0] = "join" \/ (pc[0] = "wait" /\ i \in snapshot \ finish_mask)
Termination == <>((\A t \in Threads : pc[t] = "over") \/ \E i \in Slots : Missed(i))
=============================================================================
