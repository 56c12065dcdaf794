------------------------------ MODULE ForkJoin ------------------------------
(***************************************************************************)
(* Parallel loops on the pool: Task and ParallelFor of                     *)
(* include/timespan_partitioner.h, the tree of reference-counted TaskNodes *)
(* (intrusive_ptr.h), EigenPoolWrapper (eigen_pool.h), and the worker loop *)
(* and the stealing of include/eigen/nonblocking_thread_pool.h.            *)
(*                                                                         *)
(* One step is one access to shared memory: an operation of a queue, of a  *)
(* reference count or of a proxy's state, or one iteration of a loop.      *)
(* RunQueue implements Deque, so each of its operations may stand for one  *)
(* step; of MpmcQueue a try_pop that an unfinished push delays is here one *)
(* that comes earlier, and a push is refused exactly when there is no room.*)
(* Every thread has a stack of frames, for a thread that waits for its     *)
(* loop runs other tasks on top.  Before its first loop the program may    *)
(* pin the threads to CPUs (eigen_pinner.h, poor_barrier.h).               *)
(***************************************************************************)
EXTENDS WorkSplit, StealWalk, SequencesExt, FiniteSets

CONSTANTS
  N,                  \* num_threads_: the pool's threads are 0 .. N - 1
  Outsiders,          \* threads that call ParallelFor and are not the pool's
  Plans,              \* the programs to try
  GrainSize,          \* grainsize
  QueueCap, MailCap,  \* capacities of local_tasks and mailbox
  HalfStack           \* frames that half fill a stack

Pool == 0 .. N - 1
Callers == {0} \cup Outsiders
Procs == Pool \cup Outsiders

\* A program: its mode, as ParForTraits<Mode> describes it; whether it pins its
\* threads; how many loops 0 and each outsider call; the iterations of such a
\* loop; those whose body calls a loop, and its size; whether the other bodies
\* wait until all have started.
GoodPlan(p) ==
  /\ p.sharing \in BOOLEAN /\ p.timespan \in BOOLEAN /\ p.pin \in BOOLEAN
  /\ p.calls \in [Callers -> Nat] /\ p.size \in Nat
  /\ p.nested \subseteq 0 .. p.size - 1 /\ p.inner \in Nat
  /\ p.barrier \in BOOLEAN

ASSUME ShapeAssumption ==
  /\ N \in Nat \ {0} /\ Outsiders \cap Pool = {} /\ IsFiniteSet(Outsiders)
  /\ \A p \in Plans : GoodPlan(p)
  /\ GrainSize \in Nat \ {0} /\ QueueCap \in Nat /\ MailCap \in Nat /\ HalfStack \in Nat

VARIABLES
  stack,    \* the frames of each thread, the running one last
  local,    \* local_tasks of each thread: its front is the end
  mail,     \* mailbox of each thread, oldest first
  task,     \* the task objects ever made; task i owns node i
  node,     \* the TaskNodes: [parent, count]; one with count 0 is deleted
  deleted,  \* the task objects deleted, and the loops that have returned
  ran,      \* the iterations finished, as pairs <<loop, iteration>>
  done,     \* done_
  cpus,     \* the CPUs each thread of the pool may run on
  barrier,  \* EigenPinner's: remain_, and the pointers that keep it alive
  plan      \* the program
queues == <<local, mail>>
objects == <<task, node, deleted>>
vars == <<stack, queues, objects, ran, done, cpus, barrier, plan>>

Replace(f, p, v) == [f EXCEPT ![p] = v]

-----------------------------------------------------------------------------
(* Frames.  A task's frame is [at, id, todo, ptr], todo being the parts    *)
(* DistributeWork has not handed out and ptr the task just handed out, or  *)
(* the node being released.  A loop of WorkerLoop is [at, id, empty, left, *)
(* victim, inc]: id is the loop waited for, or NoTask in a worker's own    *)
(* loop; in a sweep, left threads are still to be visited, the next of     *)
(* them victim.                                                            *)

NoTask == 0
TaskFrame(id, at) == [at |-> at, id |-> id, todo |-> <<>>, ptr |-> NoTask]
LoopFrame(id, at, empty) ==
  [at |-> at, id |-> id, empty |-> empty, left |-> 0, victim |-> 0, inc |-> 0]
MainFrame(calls) == [at |-> "main", id |-> NoTask, calls |-> calls]
PinFrame(next) == [at |-> "pin", id |-> NoTask, next |-> next]

Top(p) == Last(stack[p])
At(p, label) == stack[p] # <<>> /\ Top(p).at = label
\* The running frame goes on as f, with the frames gs called on top of it.
Becomes(p, f, gs) == stack' = Replace(stack, p, Append(Front(stack[p]), f) \o gs)
Leaves(p) == stack' = Replace(stack, p, Front(stack[p]))
HalfFull(p) == Len(stack[p]) >= HalfStack

\* ThreadLocalTaskStack: the tasks whose operator() the thread has begun.
InTask == {"share", "hand", "self", "span", "span_body", "split", "rest", "rest_body", "release"}
TaskStackEmpty(p) == \A k \in DOMAIN stack[p] : stack[p][k].at \notin InTask

\* Where the call of a task begins: a proxy at its state, a balancing task,
\* which has nothing to share and no time span, at its balancing.
Entry(id, kind) ==
  TaskFrame(id, CASE kind = "proxy" -> "enter" [] kind = "pin" -> "to_pin" [] OTHER -> "split")

-----------------------------------------------------------------------------
(* Tasks and nodes.                                                        *)

Task(kind, loop, j, share, span) ==
  [kind |-> kind, loop |-> loop, from |-> j.from, to |-> j.to, lo |-> j.lo, hi |-> j.hi,
   grain |-> j.grain, share |-> share, span |-> span, state |-> 0, holds |-> TRUE]
JobOf(t) == [from |-> t.from, to |-> t.to, lo |-> t.lo, hi |-> t.hi, grain |-> t.grain]
Fresh == Len(task) + 1

\* Mutants: the task keeps the range it gives away; the new node does not
\* count in its parent.
SpawnAndKeep(id, to, t) ==
  /\ node' = Append(Replace(node, id, [node[id] EXCEPT !.count = @ + 1]),
                    [parent |-> id, count |-> 1])
  /\ task' = Append(task, t)
  /\ UNCHANGED <<deleted, ran, done>>
SpawnUncounted(id, to, t) ==
  /\ node' = Append(node, [parent |-> id, count |-> 1])
  /\ task' = Append(Replace(task, id, [task[id] EXCEPT !.to = to]), t)
  /\ UNCHANGED <<deleted, ran, done>>

\* new TaskNode{CurrentNode_} for task t, which takes its range from task id.
Spawn(id, to, t) ==
  /\ node' = Append(Replace(node, id, [node[id] EXCEPT !.count = @ + 1]),
                    [parent |-> id, count |-> 1])
  /\ task' = Append(Replace(task, id, [task[id] EXCEPT !.to = to]), t)
  /\ UNCHANGED <<deleted, ran, done>>

\* ParallelFor: the root is held by the call and by its task.  A loop that is
\* called in a task is not shared.
BeginLoop(p, kind, size) ==
  /\ task' = Append(task, Task(kind, Fresh,
                               [from |-> 0, to |-> size, lo |-> 0, hi |-> N, grain |-> GrainSize],
                               plan.sharing /\ TaskStackEmpty(p), plan.timespan))
  /\ node' = Append(node, [parent |-> NoTask, count |-> 2])
  /\ UNCHANGED <<queues, deleted, ran, done>>

CallLoop(p) ==
  /\ At(p, "main") /\ Top(p).calls > 0
  /\ Becomes(p, MainFrame(Top(p).calls - 1), <<TaskFrame(Fresh, "share")>>)
  /\ BeginLoop(p, "root", plan.size)

-----------------------------------------------------------------------------
(* EigenPoolWrapper: PushTask goes to the front of one's own local_tasks,  *)
(* or to the mailbox of another thread; if it is refused the task is run   *)
(* on the spot.  Either way the caller goes on as frame f.                 *)

\* Mutant: the push does not look for room.
PushTaskUnchecked(p, q, id, f) ==
  /\ IF p = q THEN local' = Replace(local, q, Append(local[q], id)) /\ UNCHANGED mail
              ELSE mail' = Replace(mail, q, Append(mail[q], id)) /\ UNCHANGED local
  /\ Becomes(p, f, <<>>)

PushTask(p, q, id, f) ==
  /\ IF p = q THEN Len(local[q]) < QueueCap ELSE Len(mail[q]) < MailCap
  /\ IF p = q THEN local' = Replace(local, q, Append(local[q], id)) /\ UNCHANGED mail
              ELSE mail' = Replace(mail, q, Append(mail[q], id)) /\ UNCHANGED local
  /\ Becomes(p, f, <<>>)

ExecuteTask(p, q, id, kind, f) ==
  /\ IF p = q THEN Len(local[q]) >= QueueCap ELSE Len(mail[q]) >= MailCap
  /\ Becomes(p, f, <<Entry(id, kind)>>)
  /\ UNCHANGED queues

RunOnThread(p, id, kind, threadIndex, f) ==
  PushTask(p, threadIndex % N, id, f) \/ ExecuteTask(p, threadIndex % N, id, kind, f)

\* A thread that is not the pool's takes the queue of any of its threads.
ScheduleWithHint(p, id, kind, f) == \E q \in Pool :
  /\ p \in Pool => q = p
  /\ PushTask(p, q, id, f) \/ ExecuteTask(p, q, id, kind, f)

-----------------------------------------------------------------------------
(* Task::operator().                                                       *)

\* DistributeWork: the parts to hand out leave the task's own range at once.
AfterShare(id) == IF task[id].span THEN "span" ELSE "split"
Distribute(p) ==
  /\ At(p, "share")
  /\ LET id == Top(p).id
         j == JobOf(task[id])
     IN IF task[id].share /\ Shares(j) /\ ~HalfFull(p)
        THEN /\ task' = Replace(task, id, [task[id] EXCEPT !.to = Keep(j)])
             /\ Becomes(p, [Top(p) EXCEPT !.at = "hand", !.todo = Handed(j)], <<>>)
        ELSE /\ task' = Replace(task, id, [task[id] EXCEPT !.grain = IF task[id].span THEN 1 ELSE @])
             /\ Becomes(p, TaskFrame(id, AfterShare(id)), <<>>)
  /\ UNCHANGED <<queues, node, deleted, ran, done>>

\* run_on_thread: a proxy goes to its thread, and then to one's own queue.
Hand(p) ==
  /\ At(p, "hand")
  /\ LET f == Top(p)
         part == Head(f.todo)
     IN /\ Spawn(f.id, task[f.id].to,
                 Task("proxy", task[f.id].loop, part, task[f.id].share, task[f.id].span))
        /\ RunOnThread(p, Fresh, "proxy", part.lo, [f EXCEPT !.at = "self", !.ptr = Fresh])

HandToSelf(p) ==
  /\ At(p, "self")
  /\ LET f == Top(p)
         last == Len(f.todo) = 1
     IN /\ ScheduleWithHint(p, f.ptr, "proxy",
             IF last THEN TaskFrame(f.id, AfterShare(f.id))
                     ELSE [f EXCEPT !.at = "hand", !.todo = Tail(f.todo), !.ptr = NoTask])
        /\ task' = IF last /\ task[f.id].span
                   THEN Replace(task, f.id, [task[f.id] EXCEPT !.grain = 1]) ELSE task
  /\ UNCHANGED <<node, deleted, ran, done>>

\* Execute: the end of the iteration.  In the time span (Now() is any time)
\* the task goes on with a coarser grain or starts to balance.
Finish(p, phase) ==
  LET id == Top(p).id
      t == task[id]
  IN /\ ran' = ran \cup {<<t.loop, t.from>>}
     /\ \/ /\ task' = Replace(task, id, [t EXCEPT !.from = @ + 1])
           /\ Becomes(p, TaskFrame(id, IF phase = "span" THEN "split" ELSE "rest"), <<>>)
        \/ /\ phase = "span"
           /\ task' = Replace(task, id, [t EXCEPT !.from = @ + 1, !.grain = @ + 1])
           /\ Becomes(p, TaskFrame(id, "span"), <<>>)
     /\ UNCHANGED <<queues, node, deleted, done>>

Divisible(p, t) == LongerThanGrain(JobOf(t)) /\ ~HalfFull(p)
CallsLoop(t) == task[t.loop].kind = "root" /\ t.from \in plan.nested
Waits(t) == task[t.loop].kind = "root" /\ plan.barrier /\ t.from \notin plan.nested
\* The body of an iteration: it calls a loop, waits at the barrier, or is
\* over in one step.
Execute(p, phase, body) ==
  LET id == Top(p).id
      t == task[id]
  IN \/ /\ CallsLoop(t)
        /\ Becomes(p, TaskFrame(id, body), <<TaskFrame(Fresh, "share")>>)
        /\ BeginLoop(p, "inner", plan.inner)
     \/ /\ Waits(t)
        /\ Becomes(p, TaskFrame(id, body), <<>>)
        /\ UNCHANGED <<queues, objects, ran, done>>
     \/ ~CallsLoop(t) /\ ~Waits(t) /\ Finish(p, phase)

Bodies == {"span_body", "rest_body"}
\* Where the sequences of f have an element.
Places(f) == UNION {{<<p, k>> : k \in DOMAIN f[p]} : p \in DOMAIN f}
Frames == Places(stack)
Frame(x) == stack[x[1]][x[2]]
InBody(loop) == {x \in Frames : Frame(x).at \in Bodies /\ task[Frame(x).id].loop = loop}
Over(loop) == {i \in ran : i[1] = loop}
FinishBody(p) ==
  /\ stack[p] # <<>> /\ Top(p).at \in Bodies
  /\ LET t == task[Top(p).id]
     IN Waits(t) => Cardinality(Over(t.loop)) + Cardinality(InBody(t.loop)) = plan.size
  /\ Finish(p, IF Top(p).at = "span_body" THEN "span" ELSE "rest")

Span(p) ==
  /\ At(p, "span")
  /\ LET id == Top(p).id
     IN IF task[id].from < task[id].to
        THEN Execute(p, "span", "span_body")
        ELSE Becomes(p, TaskFrame(id, "split"), <<>>) /\ UNCHANGED <<queues, objects, ran, done>>

\* One balancing task: the second half of what is left.
Split(p) ==
  /\ At(p, "split")
  /\ LET id == Top(p).id
         t == task[id]
         mid == t.from + (t.to - t.from) \div 2
     IN IF t.from # t.to /\ Divisible(p, t)
        THEN /\ Spawn(id, mid, Task("unique", t.loop,
                                    [from |-> mid, to |-> t.to, lo |-> 0, hi |-> 0, grain |-> t.grain],
                                    FALSE, FALSE))
             /\ ScheduleWithHint(p, Fresh, "unique", Top(p))
        ELSE /\ Becomes(p, TaskFrame(id, "rest"), <<>>)
             /\ UNCHANGED <<queues, objects, ran, done>>

Rest(p) ==
  /\ At(p, "rest")
  /\ LET id == Top(p).id
     IN IF task[id].from # task[id].to
        THEN Execute(p, "rest", "rest_body")
        ELSE /\ task' = Replace(task, id, [task[id] EXCEPT !.holds = FALSE])
             /\ Becomes(p, [TaskFrame(id, "release") EXCEPT !.ptr = id], <<>>)
             /\ UNCHANGED <<queues, node, deleted, ran, done>>

\* IntrusivePtrRelease, and the destructor of the node it deletes.
Release(p) ==
  /\ At(p, "release")
  /\ LET f == Top(p)
     IN /\ node' = Replace(node, f.ptr, [node[f.ptr] EXCEPT !.count = @ - 1])
        /\ IF node[f.ptr].count = 1
           THEN Becomes(p, [f EXCEPT !.ptr = node[f.ptr].parent], <<>>) /\ UNCHANGED deleted
           ELSE CASE task[f.id].kind = "unique" -> Leaves(p) /\ deleted' = deleted \cup {f.id}
                  [] task[f.id].kind = "proxy" -> Becomes(p, TaskFrame(f.id, "leave"), <<>>)
                                                  /\ UNCHANGED deleted
                  [] OTHER -> Becomes(p, LoopFrame(f.id, "join", FALSE), <<>>) /\ UNCHANGED deleted
  /\ UNCHANGED <<queues, task, ran, done>>

\* Mutants: whoever comes second deletes the proxy, or the end of the
\* function is not counted.
EnterAndDelete(p) ==
  /\ At(p, "enter")
  /\ LET id == Top(p).id
         prevState == task[id].state
     IN /\ task' = Replace(task, id, [task[id] EXCEPT !.state = @ + 1])
        /\ IF prevState = 0 THEN Becomes(p, TaskFrame(id, "share"), <<>>) ELSE Leaves(p)
        /\ deleted' = deleted \cup (IF prevState > 0 THEN {id} ELSE {})
  /\ UNCHANGED <<queues, node, ran, done>>
LeaveUncounted(p) ==
  /\ At(p, "leave")
  /\ LET id == Top(p).id
     IN deleted' = deleted \cup (IF task[id].state = 2 THEN {id} ELSE {})
  /\ Leaves(p)
  /\ UNCHANGED <<queues, task, node, ran, done>>

\* ProxyTask::operator(): the first to enter runs the function, and whoever
\* makes the last of three changes of the state deletes the proxy.
Enter(p) ==
  /\ At(p, "enter")
  /\ LET id == Top(p).id
         prevState == task[id].state
     IN /\ task' = Replace(task, id, [task[id] EXCEPT !.state = @ + 1])
        /\ IF prevState = 0 THEN Becomes(p, TaskFrame(id, "share"), <<>>) ELSE Leaves(p)
        /\ deleted' = deleted \cup (IF prevState = 2 THEN {id} ELSE {})
  /\ UNCHANGED <<queues, node, ran, done>>

Leave(p) ==
  /\ At(p, "leave")
  /\ LET id == Top(p).id
     IN /\ task' = Replace(task, id, [task[id] EXCEPT !.state = @ + 1])
        /\ deleted' = deleted \cup (IF task[id].state = 2 THEN {id} ELSE {})
  /\ Leaves(p)
  /\ UNCHANGED <<queues, node, ran, done>>

-----------------------------------------------------------------------------
(* Waiting for a loop, and the loop of a worker.                           *)

\* Mutant: the loop is left while one more pointer to the root exists.
JoinEarly(p) ==
  /\ At(p, "join")
  /\ LET id == Top(p).id
     IN IF node[id].count <= 2
        THEN /\ Leaves(p) /\ deleted' = deleted \cup {id}
             /\ node' = Replace(node, id, [node[id] EXCEPT !.count = 0])
        ELSE /\ p \in Pool
             /\ Becomes(p, LoopFrame(id, "pop", FALSE), <<>>) /\ UNCHANGED <<node, deleted>>
  /\ UNCHANGED <<queues, task, ran, done>>

\* IntrusivePtrLoadRef(&rootNode) != 1.  A free-standing thread can only spin.
Join(p) ==
  /\ At(p, "join")
  /\ LET id == Top(p).id
     IN IF node[id].count = 1
        THEN /\ Leaves(p) /\ deleted' = deleted \cup {id}
             /\ node' = Replace(node, id, [node[id] EXCEPT !.count = 0])
        ELSE /\ p \in Pool
             /\ Becomes(p, LoopFrame(id, "pop", FALSE), <<>>) /\ UNCHANGED <<node, deleted>>
  /\ UNCHANGED <<queues, task, ran, done>>

\* A task found is run; a waiting thread then looks at its loop again.
Again(f, empty) == IF f.id = NoTask THEN LoopFrame(NoTask, "pop", empty)
                                    ELSE LoopFrame(f.id, "join", FALSE)
Found(p, id) == Becomes(p, Again(Top(p), FALSE), <<Entry(id, task[id].kind)>>)

TakeLocalFront(p) ==
  /\ At(p, "pop")
  /\ IF local[p] # <<>>
     THEN /\ Found(p, Last(local[p]))
          /\ local' = Replace(local, p, Front(local[p]))
     ELSE /\ Becomes(p, [Top(p) EXCEPT !.at = "mail"], <<>>)
          /\ UNCHANGED local
  /\ UNCHANGED <<mail, objects, ran, done>>

\* A waiting thread steals only when its stack is half full (can_steal).
TakeMail(p) ==
  /\ At(p, "mail")
  /\ IF mail[p] # <<>>
     THEN Found(p, Head(mail[p])) /\ mail' = Replace(mail, p, Tail(mail[p]))
     ELSE /\ IF Top(p).id # NoTask /\ ~HalfFull(p)
             THEN Becomes(p, Again(Top(p), FALSE), <<>>)
             ELSE Becomes(p, [Top(p) EXCEPT !.at = "steal", !.left = N], <<>>)
          /\ UNCHANGED mail
  /\ UNCHANGED <<local, objects, ran, done>>

\* Steal: PopBack(force) of each thread of a random walk, which takes from its
\* mailbox and, when the sweep before was in vain, from its local_tasks.  The
\* walk is drawn with the first visit, and what is not read again is 0.
NextVictim(f) ==
  [f EXCEPT !.at = "steal", !.left = @ - 1,
            !.victim = IF f.left = 1 THEN 0 ELSE Advance(N, @, f.inc),
            !.inc = IF f.left <= 2 THEN 0 ELSE @]
StealMail(p) ==
  /\ At(p, "steal") /\ Top(p).left > 0
  /\ \E w \in IF Top(p).left = N THEN Walks(N)
              ELSE {[victim |-> Top(p).victim, inc |-> Top(p).inc]} :
       LET v == w.victim
           f == [Top(p) EXCEPT !.victim = v, !.inc = w.inc]
       IN IF mail[v] # <<>>
          THEN Found(p, Head(mail[v])) /\ mail' = Replace(mail, v, Tail(mail[v]))
          ELSE /\ Becomes(p, IF f.empty THEN [f EXCEPT !.at = "rob"] ELSE NextVictim(f), <<>>)
               /\ UNCHANGED mail
  /\ UNCHANGED <<local, objects, ran, done>>

StealLocalBack(p) ==
  /\ At(p, "rob")
  /\ LET v == Top(p).victim
     IN IF local[v] # <<>>
        THEN Found(p, Head(local[v])) /\ local' = Replace(local, v, Tail(local[v]))
        ELSE /\ Becomes(p, NextVictim(Top(p)), <<>>)
             /\ UNCHANGED local
  /\ UNCHANGED <<mail, objects, ran, done>>

\* Mutant: a sweep in vain does not make the next one try harder.
NothingFoundEasy(p) ==
  /\ At(p, "steal") /\ Top(p).left = 0
  /\ IF Top(p).id = NoTask /\ done THEN Leaves(p) ELSE Becomes(p, Again(Top(p), FALSE), <<>>)
  /\ UNCHANGED <<queues, objects, ran, done>>

\* Nothing found: a waiting thread gives up for now, a worker tries harder,
\* or ends if the pool is being destroyed.
NothingFound(p) ==
  /\ At(p, "steal") /\ Top(p).left = 0
  /\ IF Top(p).id = NoTask /\ done THEN Leaves(p) ELSE Becomes(p, Again(Top(p), TRUE), <<>>)
  /\ UNCHANGED <<queues, objects, ran, done>>

\* The main thread destroys the pool when nobody uses it any more.
Exit(p) ==
  /\ At(p, "main") /\ Top(p).calls = 0
  /\ p = 0 => \A o \in Outsiders : stack[o] = <<>>
  /\ Leaves(p) /\ done' = (done \/ p = 0)
  /\ UNCHANGED <<queues, objects, ran>>

-----------------------------------------------------------------------------
(* EigenPinner: a task for each other thread, put in its mailbox, pins     *)
(* whoever runs it and waits with the others at a barrier, so that nobody  *)
(* runs two of them.                                                       *)

\* The CPU in position slot of those allowed; with fewer, all that are allowed.
PinThread(p, slot) ==
  cpus' = Replace(cpus, p,
    IF slot < Cardinality(cpus[p])
    THEN {c \in cpus[p] : Cardinality({d \in cpus[p] : d < c}) = slot} ELSE cpus[p])

\* A task without a node; its range is the number of the thread meant.
PinTask(i) ==
  [Task("pin", NoTask, [from |-> i, to |-> i, lo |-> 0, hi |-> 0, grain |-> 1], FALSE, FALSE)
   EXCEPT !.holds = FALSE]
PushPin(p) ==
  /\ At(p, "pin") /\ Top(p).next < N
  /\ task' = Append(task, PinTask(Top(p).next))
  /\ node' = Append(node, [parent |-> NoTask, count |-> 0])
  /\ RunOnThread(p, Fresh, "pin", Top(p).next, [Top(p) EXCEPT !.next = @ + 1])
  /\ barrier' = [barrier EXCEPT !.refs = @ + 1]
  /\ UNCHANGED <<deleted, cpus>>

PinMain(p) ==
  /\ At(p, "pin") /\ Top(p).next = N
  /\ PinThread(p, 0)
  /\ Becomes(p, [Top(p) EXCEPT !.at = "gather"], <<>>)
  /\ UNCHANGED <<queues, objects, barrier>>

PinMe(p) ==
  /\ At(p, "to_pin")
  /\ PinThread(p, task[Top(p).id].from)
  /\ Becomes(p, TaskFrame(Top(p).id, "pinned"), <<>>)
  /\ UNCHANGED <<queues, objects, barrier>>

\* Mutant: the task does not wait for the others.
NotifyAndGo(p) ==
  /\ At(p, "pinned")
  /\ barrier' = [remain |-> barrier.remain - 1, refs |-> barrier.refs - 1]
  /\ Leaves(p) /\ deleted' = deleted \cup {Top(p).id}
  /\ UNCHANGED <<queues, task, node, cpus>>

Notify(p) ==
  /\ At(p, "pinned")
  /\ barrier' = [barrier EXCEPT !.remain = @ - 1]
  /\ Becomes(p, TaskFrame(Top(p).id, "gather"), <<>>)
  /\ UNCHANGED <<queues, objects, cpus>>

\* Wait, and the end of the task or of the constructor.
Gather(p) ==
  /\ At(p, "gather") /\ barrier.remain = 0
  /\ barrier' = [barrier EXCEPT !.refs = @ - 1]
  /\ Leaves(p) /\ deleted' = deleted \cup ({Top(p).id} \ {NoTask})
  /\ UNCHANGED <<queues, task, node, cpus>>

-----------------------------------------------------------------------------
Start(p) ==
  IF p = 0 /\ plan.pin THEN <<MainFrame(plan.calls[p]), PinFrame(1)>>
  ELSE IF p = 0 \/ (p \in Outsiders /\ plan.calls[p] > 0) THEN <<MainFrame(plan.calls[p])>>
  ELSE IF p \in Pool THEN <<LoopFrame(NoTask, "pop", FALSE)>> ELSE <<>>

Init ==
  /\ plan \in Plans
  /\ stack = [p \in Procs |-> Start(p)]
  /\ local = [p \in Pool |-> <<>>] /\ mail = [p \in Pool |-> <<>>]
  /\ task = <<>> /\ node = <<>> /\ deleted = {}
  /\ ran = {}
  /\ done = FALSE
  /\ cpus = [p \in Pool |-> 0 .. N - 1]  \* as many CPUs as threads
  /\ barrier = [remain |-> N - 1, refs |-> 1]

Work(p) ==
  \/ CallLoop(p) \/ Exit(p)
  \/ Distribute(p) \/ Hand(p) \/ HandToSelf(p) \/ Span(p) \/ Split(p) \/ Rest(p)
  \/ FinishBody(p) \/ Release(p) \/ Enter(p) \/ Leave(p)
  \/ Join(p) \/ TakeLocalFront(p) \/ TakeMail(p) \/ StealMail(p) \/ StealLocalBack(p)
  \/ NothingFound(p)
Pinning(p) == PushPin(p) \/ PinMain(p) \/ PinMe(p) \/ Notify(p) \/ Gather(p)
Step(p) ==
  /\ \/ Work(p) /\ UNCHANGED <<cpus, barrier>>
     \/ Pinning(p) /\ UNCHANGED <<ran, done>>
  /\ UNCHANGED plan

Ended == (\A p \in Procs : stack[p] = <<>>) /\ UNCHANGED vars
Next == (\E p \in Procs : Step(p)) \/ Ended

Spec == Init /\ [][Next]_vars
FairSpec == Spec /\ \A p \in Procs : WF_vars(Step(p))

-----------------------------------------------------------------------------
Labels == {"main", "share", "hand", "self", "span", "span_body", "split", "rest", "rest_body",
           "release", "enter", "leave", "join", "pop", "mail", "steal", "rob",
           "pin", "to_pin", "pinned", "gather"}
TypeOK ==
  /\ \A x \in Frames : Frame(x).at \in Labels /\ Frame(x).id \in 0 .. Len(task)
  /\ \A q \in Pool : Len(local[q]) <= QueueCap /\ Len(mail[q]) <= MailCap
  /\ Len(task) = Len(node)
  /\ deleted \subseteq DOMAIN task
  /\ done \in BOOLEAN /\ plan \in Plans
  /\ cpus \in [Pool -> SUBSET (0 .. N - 1)] /\ barrier.remain \in 0 .. N - 1

IsLoop(id) == task[id].kind \in {"root", "inner"}
SizeOf(loop) == IF task[loop].kind = "root" THEN plan.size ELSE plan.inner
Open == {l \in DOMAIN task : IsLoop(l) /\ l \notin deleted}

\* At any time each iteration of a loop that has not returned is in exactly
\* one place: it is over, or in the range of one task, or in a part that one
\* task is about to hand out.  Nothing is lost or run twice in DistributeWork,
\* in the halving, in proxies pushed twice, or in pushes that are refused.
Unhanded(f) == IF f.at = "hand" THEN f.todo ELSE IF f.at = "self" THEN Tail(f.todo) ELSE <<>>
Ranges(l) ==
  {<<t, task[t].from, task[t].to>> : t \in {t \in DOMAIN task : task[t].loop = l}}
  \cup UNION {{<<Frame(x).id, j.from, j.to>> : j \in Range(Unhanded(Frame(x)))} :
              x \in {x \in Frames : Frame(x).at \in {"hand", "self"} /\ task[Frame(x).id].loop = l}}
OnePlaceEach == \A l \in Open : \A i \in 0 .. SizeOf(l) - 1 :
  Cardinality({r \in Ranges(l) : i \in r[2] .. r[3] - 1}) = IF <<l, i>> \in ran THEN 0 ELSE 1

\* A node's count is the number of pointers to it: of its children's Parent,
\* of its task, of a release under way, and of the call that owns a root.
Pointers(n) ==
  Cardinality({c \in DOMAIN node : node[c].parent = n /\ node[c].count > 0})
  + Cardinality({x \in Frames : Frame(x).at = "release" /\ Frame(x).ptr = n})
  + (IF task[n].holds THEN 1 ELSE 0) + (IF n \in Open THEN 1 ELSE 0)
RefCounts == \A n \in DOMAIN node : node[n].count = Pointers(n)

\* No thread is about to touch a task, a node or a root that is gone.
Queued == UNION {Range(local[q]) \cup Range(mail[q]) : q \in Pool}
NoUseAfterFree ==
  /\ Queued \cap deleted = {}
  /\ \A x \in Frames : LET f == Frame(x) IN
       /\ f.id \notin deleted
       /\ f.at = "self" => f.ptr \notin deleted
       /\ f.at = "release" => f.ptr # NoTask /\ node[f.ptr].count > 0
       /\ f.at \in {"pinned", "gather"} => barrier.refs > 0
       /\ /\ f.id # NoTask
          /\ f.at \notin {"release", "enter", "leave", "to_pin", "pinned", "gather"}
          => node[f.id].count > 0

\* A proxy is pushed twice and its function run once: its state counts those
\* who have come, and the end of the function; it is deleted at the last.
Mentions(id) ==
  Cardinality({x \in Places(local) : local[x[1]][x[2]] = id})
  + Cardinality({x \in Places(mail) : mail[x[1]][x[2]] = id})
  + Cardinality({x \in Frames : Frame(x).at = "enter" /\ Frame(x).id = id})
  + Cardinality({x \in Frames : Frame(x).at = "self" /\ Frame(x).ptr = id})
Running(id) == \E x \in Frames : Frame(x).id = id /\ Frame(x).at # "enter"
ProxyLife == \A id \in DOMAIN task : task[id].kind = "proxy" =>
  /\ task[id].state = (2 - Mentions(id)) + (IF task[id].state > 0 /\ ~Running(id) THEN 1 ELSE 0)
  /\ id \in deleted <=> task[id].state = 3

\* When EigenPinner's constructor returns, every thread of the pool runs on a
\* CPU of its own: no worker has run two of the tasks, or none, although any
\* worker may take the task meant for another.
PinnedApart == plan.pin /\ (\A k \in DOMAIN stack[0] : stack[0][k].at \notin {"pin", "gather"}) =>
  \A p, q \in Pool : Cardinality(cpus[p]) = 1 /\ (p # q => cpus[p] # cpus[q])

\* A loop is over when ParallelFor returns, and each iteration ran once.
L == INSTANCE ParallelLoops WITH
       size <- [l \in {l \in DOMAIN task : IsLoop(l)} |-> SizeOf(l)],
       ended <- {l \in deleted : IsLoop(l)}
ImplementsLoops == L!PSpec

\* Every loop returns and every thread of the pool can be joined.
Termination == <>(\A p \in Procs : stack[p] = <<>>)

\* ~RunQueue: assert(Size() == 0), when the pool is destroyed.
QueuesEmptyAtExit == (\A p \in Procs : stack[p] = <<>>) => \A q \in Pool : local[q] = <<>>
=============================================================================
