-------------------------- MODULE RapidStartProofs --------------------------
(***************************************************************************)
(* RapidStart, for every number of threads, loops and iterations, however  *)
(* late the slots come into their traps.  Two things always hold: the      *)
(* types, and that a slot leaves its trap only in the destructor and finds *)
(* no part when it is late to leave.  The others hold until the first look *)
(* of a slot takes a mask with the epoch of the loop before (torn), and    *)
(* for ever if no first look does: nobody calls a function that is gone,   *)
(* and each loop runs each of its iterations once before it returns.       *)
(*                                                                         *)
(* The argument is by the caller's place.  Outside of a loop the run mask  *)
(* is empty, or holds only slots that spin on the present epoch, so that   *)
(* nobody who reads it finds a part.  A slot that has yet to see that the  *)
(* epoch has moved on had its bit in start_mask before, is in the          *)
(* snapshot, and the caller waits for it: when it reads the mask it has    *)
(* the present epoch, runs its part and spins on that epoch.               *)
(***************************************************************************)
EXTENDS RapidStart, FiniteSetTheorems, TLAPS

-----------------------------------------------------------------------------
(* The parts of a loop.                                                    *)

LEMMA Finite == \A mask \in SUBSET Threads : IsFiniteSet(mask) /\ Cardinality(mask) \in Nat
<1>1. IsFiniteSet(Threads)
  BY ShapeAssumption, FS_Interval DEF Threads
<1> QED
  BY <1>1, FS_Subset, FS_CardinalityType

\* distribution_base::run numbers the parts from 0, each below their count.
LEMMA PartsOfMask ==
  ASSUME NEW mask \in SUBSET Threads, NEW slot \in Threads
  PROVE  Parts(mask) \in Nat \ {0} /\ PartOf(slot, mask) \in 0 .. Parts(mask) - 1
<1> DEFINE rest == mask \ {0}
           below == {i \in rest : i < slot}
<1>1. IsFiniteSet(rest) /\ Cardinality(rest) \in Nat
  BY Finite
<1>2. IsFiniteSet(below) /\ Cardinality(below) \in Nat
  BY Finite
<1>3. Parts(mask) \in Nat \ {0}
  BY <1>1 DEF Parts
<1>4. CASE slot \in rest
  <2>1. Cardinality(rest \ {slot}) = Cardinality(rest) - 1 /\ IsFiniteSet(rest \ {slot})
    BY <1>1, <1>4, FS_RemoveElement
  <2>2. below \subseteq rest \ {slot}
    BY ShapeAssumption DEF Threads
  <2>3. Cardinality(below) <= Cardinality(rest) - 1
    BY <2>1, <2>2, FS_Subset
  <2> HIDE DEF rest, below
  <2>4. PartOf(slot, mask) = Cardinality(below) + 1
    BY <1>4 DEF PartOf, rest, below
  <2> QED
    BY <1>1, <1>2, <1>3, <2>3, <2>4 DEF Parts, rest
<1>5. CASE slot \notin rest
  BY <1>3, <1>5 DEF PartOf
<1> QED
  BY <1>4, <1>5

\* The ends of the parts lie in the range, in order.
LEMMA BoundsInOrder ==
  ASSUME NEW parts \in Nat \ {0}, NEW part \in 0 .. parts - 1
  PROVE  /\ Bound(part, parts) \in 0 .. Size /\ Bound(part + 1, parts) \in 0 .. Size
         /\ Bound(part, parts) <= Bound(part + 1, parts)
<1> DEFINE q == Size \div parts
           m == Size % parts
<1>1. q \in Nat /\ m \in 0 .. parts - 1 /\ Size = parts * q + m
  BY ShapeAssumption
<1> HIDE DEF q, m
<1>2. part * q \in Nat /\ (part + 1) * q = part * q + q /\ parts * q \in Nat
  BY <1>1
<1>3. (part + 1) * q <= parts * q
  BY <1>1
<1>4. Bound(part, parts) = part * q + Lesser(m, part)
  BY DEF Bound, q, m
<1>5. Bound(part + 1, parts) = (part + 1) * q + Lesser(m, part + 1)
  BY DEF Bound, q, m
<1> QED
  BY <1>1, <1>2, <1>3, <1>4, <1>5 DEF Lesser

LEMMA WorkForType ==
  ASSUME NEW f \in 0 .. Loops, NEW slot \in Threads, NEW mask \in SUBSET Threads
  PROVE  /\ WorkFor(f, slot, mask) \in [of : 0 .. Loops, from : 0 .. Size, to : 0 .. Size]
         /\ WorkFor(f, slot, mask).of = f
         /\ WorkFor(f, slot, mask).from <= WorkFor(f, slot, mask).to
  BY PartsOfMask, BoundsInOrder DEF WorkFor

-----------------------------------------------------------------------------
(* What always holds.                                                      *)

CallerPlaces ==
  {"idle", "set_func", "set_epoch", "snapshot", "reset_finish", "set_run", "work", "wait",
   "clear_run", "wake", "join", "over"}
\* The caller's places before the mask is out, while it is, and in the
\* destructor.
Handing == {"set_func", "set_epoch", "snapshot", "reset_finish", "set_run"}
Out == {"work", "wait"}
AtEnd == {"clear_run", "wake", "join", "over"}

\* The loop that is spread, and whose function it is that slots are to call.
Called ==
  /\ \A l \in ended : l <= loop
  /\ pc[0] \in Handing \cup Out => loop \in 1 .. Loops /\ loop \notin ended
  /\ pc[0] \in (Handing \ {"set_func"}) \cup Out => func_ptr = loop
  /\ pc[0] = "work" => work[0].of = loop
  /\ \A i \in Slots : i \in run_mask \/ pc[i] = "call" => func_ptr # NoLoop
  /\ \A i \in Slots : pc[i] = "work" => work[i].of # NoLoop
Basic == TypeOK /\ pc[0] \in CallerPlaces /\ Called

\* Each slot takes one off n_tasks, when it is over.
Busy == {i \in Slots : pc[i] # "over"}
Counted == n_tasks > Cardinality(Busy)

\* A slot whose bit is in the mask, and which has run its part, comes back to
\* read that mask again, or a later one: it is in none of the other places
\* when the destructor changes the mode.
Seeing == {"epoch", "read_epoch", "run_mask", "read_run", "call", "work"}
Gone == {"leave", "out", "late", "late_read", "done", "over"}
Stays(i) ==
  /\ pc[i] # "late_call"
  /\ pc[i] \in Gone => mode = Stopping
  /\ pc[0] \in {"idle", "clear_run"} /\ i \in run_mask => pc[i] \in Seeing
  /\ pc[0] \in Out /\ i \in run_mask \cap finish_mask => pc[i] \in Seeing
  /\ pc[0] = "set_run" /\ i \in finish_mask => pc[i] \in {"epoch", "read_epoch", "run_mask"}
Masks ==
  /\ mode = Stopping <=> pc[0] \in AtEnd
  /\ pc[0] \in Handing => run_mask = {}
  /\ pc[0] \in Out => run_mask = snapshot \cup {0}
  /\ pc[0] \in {"wake", "join", "over"} => run_mask = {0}
Ending == Masks /\ \A i \in Slots : Stays(i)

-----------------------------------------------------------------------------
(* How a step moves its thread.                                            *)

LEMMA ThreadSets ==
  0 \in Threads /\ 0 \notin Slots /\ Slots \subseteq Threads /\ Threads = Slots \cup {0}
  BY ShapeAssumption DEF Threads, Slots

\* Thread t goes from one place to another, and the others stay.
Moves(t, from, to) ==
  /\ pc[t] = from /\ pc'[t] = to /\ pc' \in [Threads -> Labels]
  /\ \A u \in Threads \ {t} : pc'[u] = pc[u]

LEMMA CallerMoves ==
  ASSUME Basic, NEW from, NEW to \in CallerPlaces, Caller(from, to)
  PROVE  Moves(0, from, to) /\ \A i \in Slots : pc'[i] = pc[i]
<1>1. pc \in [Threads -> Labels] /\ to \in Labels
  BY DEF Basic, TypeOK, CallerPlaces, Labels
<1> QED
  BY <1>1, ThreadSets DEF Caller, Goes, Moves

LEMMA TrapperMoves ==
  ASSUME Basic, NEW i \in Slots, NEW from, NEW to \in Labels, Trapper(i, from, to)
  PROVE  Moves(i, from, to) /\ pc'[0] = pc[0]
<1>1. pc \in [Threads -> Labels]
  BY DEF Basic, TypeOK
<1> QED
  BY <1>1, ThreadSets DEF Trapper, Goes, Moves

\* Where each action of the caller leads.
CallerGoes(from, to) ==
  /\ pc[0] = from /\ pc'[0] = to /\ pc' \in [Threads -> Labels]
  /\ \A i \in Slots : pc'[i] = pc[i]

LEMMA CallerSteps ==
  ASSUME Basic
  PROVE
    /\ SpreadWork => CallerGoes("idle", "set_func")
    /\ SetFunc => CallerGoes("set_func", "set_epoch")
    /\ SetEpoch => CallerGoes("set_epoch", "snapshot")
    /\ TakeSnapshot => CallerGoes("snapshot", "reset_finish")
    /\ ResetFinish => CallerGoes("reset_finish", "set_run")
    /\ SetRun => CallerGoes("set_run", "work")
    /\ OwnPartDone => CallerGoes("work", "wait")
    /\ Return => CallerGoes("wait", "idle")
    /\ Stop => CallerGoes("idle", "clear_run")
    /\ ClearRun => CallerGoes("clear_run", "wake")
    /\ Wake => CallerGoes("wake", "join")
    /\ WaitForTasks => CallerGoes("join", "over")
<1>1. ASSUME NEW from, NEW to \in CallerPlaces, Caller(from, to) PROVE CallerGoes(from, to)
  BY <1>1, CallerMoves DEF Moves, CallerGoes
<1> QED
  BY <1>1 DEF CallerPlaces, SpreadWork, SetFunc, SetEpoch, TakeSnapshot, ResetFinish, SetRun,
              OwnPartDone, Return, Stop, ClearRun, Wake, WaitForTasks

\* Where each action of slot i leads.
TrapperPlaces(i, froms, tos) ==
  /\ pc[i] \in froms /\ pc'[i] \in tos /\ pc'[0] = pc[0] /\ pc' \in [Threads -> Labels]
  /\ \A j \in Threads \ {i} : pc'[j] = pc[j]

LEMMA TrapperSteps ==
  ASSUME Basic, NEW i \in Slots
  PROVE
    /\ Start(i) => TrapperPlaces(i, {"new"}, IF mode = Stopping THEN {"done"} ELSE {"enter"})
    /\ EnterTrap(i) => TrapperPlaces(i, {"enter"}, {"first_epoch"})
    /\ FirstEpoch(i) => TrapperPlaces(i, {"first_epoch"}, {"first_run"})
    /\ FirstRun(i) =>
         TrapperPlaces(i, {"first_run"}, IF i \in run_mask THEN {"call"} ELSE {"epoch"})
    /\ Call(i) => TrapperPlaces(i, {"call"}, {"work"})
    /\ Finish(i) => TrapperPlaces(i, {"work"}, {"epoch"})
    /\ SpinOnEpoch(i) => TrapperPlaces(i, {"epoch"}, {"read_epoch"})
    /\ ReadEpoch(i) => TrapperPlaces(i, {"read_epoch"}, {"run_mask"})
    /\ SpinOnRun(i) => TrapperPlaces(i, {"run_mask"}, {"read_run"})
    /\ ReadRun(i) => TrapperPlaces(i, {"read_run"}, IF i \in run_mask THEN {"call"} ELSE {"while"})
    /\ While(i) => TrapperPlaces(i, {"while"}, IF mode = Trapped THEN {"epoch"} ELSE {"leave"})
    /\ LeaveTrap(i) => TrapperPlaces(i, {"leave"}, {"out"})
    /\ SeeLate(i) => TrapperPlaces(i, {"out"}, {"late", "done"})
    /\ SpinLate(i) => TrapperPlaces(i, {"late"}, {"late_read"})
    /\ ReadLate(i) =>
         TrapperPlaces(i, {"late_read"}, IF i \in run_mask THEN {"late_call"} ELSE {"done"})
    /\ End(i) => TrapperPlaces(i, {"done"}, IF mode = Stopping THEN {"over"} ELSE {"new"})
<1>1. ASSUME NEW from, NEW to \in Labels, Trapper(i, from, to) PROVE TrapperPlaces(i, {from}, {to})
  BY <1>1, TrapperMoves DEF Moves, TrapperPlaces
<1>2. Start(i) => TrapperPlaces(i, {"new"}, IF mode = Stopping THEN {"done"} ELSE {"enter"})
  BY <1>1 DEF Start, Labels
<1>3. FirstRun(i) =>
        TrapperPlaces(i, {"first_run"}, IF i \in run_mask THEN {"call"} ELSE {"epoch"})
  BY <1>1 DEF FirstRun, Labels
<1>4. ReadRun(i) => TrapperPlaces(i, {"read_run"}, IF i \in run_mask THEN {"call"} ELSE {"while"})
  BY <1>1 DEF ReadRun, Labels
<1>5. While(i) => TrapperPlaces(i, {"while"}, IF mode = Trapped THEN {"epoch"} ELSE {"leave"})
  BY <1>1 DEF While, Labels
<1>6. SeeLate(i) => TrapperPlaces(i, {"out"}, {"late", "done"})
  BY <1>1 DEF SeeLate, Labels, TrapperPlaces
<1>7. ReadLate(i) =>
        TrapperPlaces(i, {"late_read"}, IF i \in run_mask THEN {"late_call"} ELSE {"done"})
  BY <1>1 DEF ReadLate, Labels
<1>8. End(i) => TrapperPlaces(i, {"done"}, IF mode = Stopping THEN {"over"} ELSE {"new"})
  BY <1>1 DEF End, Labels
<1> QED
  BY <1>1, <1>2, <1>3, <1>4, <1>5, <1>6, <1>7, <1>8
  DEF EnterTrap, FirstEpoch, Call, Finish, SpinOnEpoch, ReadEpoch, SpinOnRun, LeaveTrap, SpinLate,
      Labels

\* What a step of slot i leaves alone.
SlotFrame(i) ==
  /\ mode' = mode /\ run_mask' = run_mask /\ func_ptr' = func_ptr /\ epoch' = epoch
  /\ snapshot' = snapshot /\ loop' = loop /\ ended' = ended /\ ran' = ran
  /\ pc'[0] = pc[0] /\ work'[0] = work[0] /\ torn \subseteq torn'
  /\ \A j \in Slots \ {i} :
       /\ pc'[j] = pc[j] /\ e'[j] = e[j] /\ r'[j] = r[j] /\ work'[j] = work[j]
       /\ j \in finish_mask' <=> j \in finish_mask
       /\ j \in start_mask' <=> j \in start_mask

LEMMA TrapperFrame == ASSUME Basic, NEW i \in Slots, Trapping(i) PROVE SlotFrame(i)
<1>0. /\ e \in [Slots -> Nat] /\ r \in [Slots -> SUBSET Threads] /\ i # 0 /\ 0 \in Threads
      /\ work \in [Threads -> [of : 0 .. Loops, from : 0 .. Size, to : 0 .. Size]]
      /\ Slots \subseteq Threads
  BY ThreadSets DEF Basic, TypeOK
<1>1. pc'[0] = pc[0] /\ \A j \in Slots \ {i} : pc'[j] = pc[j]
  BY <1>0, TrapperSteps DEF Trapping, TrapperPlaces
<1>2. CASE Start(i)
  BY <1>1, <1>2 DEF Start, SlotFrame, shared
<1>3. CASE EnterTrap(i)
  BY <1>1, <1>3 DEF EnterTrap, SlotFrame, shared
<1>4. CASE FirstEpoch(i)
  BY <1>0, <1>1, <1>4 DEF FirstEpoch, SlotFrame, shared
<1>5. CASE FirstRun(i)
  BY <1>0, <1>1, <1>5 DEF FirstRun, SlotFrame, shared
<1>6. CASE Call(i)
  BY <1>0, <1>1, <1>6 DEF Call, SlotFrame, shared
<1>7. CASE Finish(i)
  BY <1>0, <1>1, <1>7 DEF Finish, SlotFrame, shared
<1>8. CASE SpinOnEpoch(i)
  BY <1>1, <1>8 DEF SpinOnEpoch, SlotFrame, shared
<1>9. CASE ReadEpoch(i)
  BY <1>0, <1>1, <1>9 DEF ReadEpoch, SlotFrame, shared
<1>10. CASE SpinOnRun(i)
  BY <1>1, <1>10 DEF SpinOnRun, SlotFrame, shared
<1>11. CASE ReadRun(i)
  BY <1>0, <1>1, <1>11 DEF ReadRun, SlotFrame, shared
<1>12. CASE While(i)
  BY <1>1, <1>12 DEF While, SlotFrame, shared
<1>13. CASE LeaveTrap(i)
  BY <1>1, <1>13 DEF LeaveTrap, SlotFrame, shared
<1>14. CASE SeeLate(i)
  BY <1>1, <1>14 DEF SeeLate, SlotFrame, shared
<1>15. CASE SpinLate(i)
  BY <1>1, <1>15 DEF SpinLate, SlotFrame, shared
<1>16. CASE ReadLate(i)
  BY <1>0, <1>1, <1>16 DEF ReadLate, SlotFrame, shared
<1>17. CASE End(i)
  BY <1>1, <1>17 DEF End, SlotFrame
<1> QED
  BY <1>2, <1>3, <1>4, <1>5, <1>6, <1>7, <1>8, <1>9, <1>10, <1>11, <1>12, <1>13, <1>14, <1>15,
     <1>16, <1>17 DEF Trapping

\* Only a call gives a slot work, and only the end of it sets its bit.
SlotWork(i) ==
  /\ ~Call(i) /\ ~Finish(i) =>
       /\ finish_mask' = finish_mask /\ work' = work
       /\ pc[i] \notin {"call", "work"} /\ pc'[i] # "work"
  /\ ~End(i) => n_tasks' = n_tasks /\ pc[i] # "over" /\ pc'[i] # "over"

LEMMA TrapperWork == ASSUME Basic, NEW i \in Slots, Trapping(i) PROVE SlotWork(i)
<1>1. ~Call(i) /\ ~Finish(i) => finish_mask' = finish_mask /\ work' = work
  BY DEF Trapping, Start, EnterTrap, FirstEpoch, FirstRun, SpinOnEpoch, ReadEpoch,
         SpinOnRun, ReadRun, While, LeaveTrap, SeeLate, SpinLate, ReadLate, End, shared
<1>2. ~Call(i) /\ ~Finish(i) => pc[i] \notin {"call", "work"} /\ pc'[i] # "work"
  BY TrapperSteps DEF Trapping, TrapperPlaces
<1>3. ~End(i) => n_tasks' = n_tasks
  BY DEF Trapping, Start, EnterTrap, FirstEpoch, FirstRun, Call, Finish, SpinOnEpoch,
         ReadEpoch, SpinOnRun, ReadRun, While, LeaveTrap, SeeLate, SpinLate, ReadLate, shared
<1>4. ~End(i) => pc[i] # "over" /\ pc'[i] # "over"
  BY TrapperSteps DEF Trapping, TrapperPlaces
<1> QED
  BY <1>1, <1>2, <1>3, <1>4 DEF SlotWork

-----------------------------------------------------------------------------
(* Types, and the count of tasks.                                          *)

LEMMA BusyType == Cardinality(Busy) \in Nat /\ IsFiniteSet(Busy)
<1>1. Busy \in SUBSET Threads
  BY ThreadSets DEF Busy
<1> QED BY <1>1, Finite

LEMMA InitTypes == Init => Basic /\ Counted /\ Ending
<1> SUFFICES ASSUME Init PROVE Basic /\ Counted /\ Ending
  OBVIOUS
<1>1. pc \in [Threads -> Labels] /\ pc[0] = "idle" /\ \A i \in Slots : pc[i] = "new"
  BY ThreadSets DEF Init, Labels
<1>2. work \in [Threads -> [of : 0 .. Loops, from : 0 .. Size, to : 0 .. Size]]
  BY ShapeAssumption DEF Init, NoWork, NoLoop
<1>3. TypeOK
  BY <1>1, <1>2, ShapeAssumption DEF Init, TypeOK, NoLoop, Trapped, Stopping
<1>4. Called
  BY <1>1 DEF Init, Called, Handing, Out
<1>5. Basic
  BY <1>1, <1>3, <1>4 DEF Basic, CallerPlaces
<1>6. Busy = 1 .. MaxThreads - 1
  BY ShapeAssumption DEF Init, Busy, Slots, Threads
<1>7. Cardinality(Busy) = MaxThreads - 1
  BY <1>6, ShapeAssumption, FS_Interval
<1>8. n_tasks = MaxThreads
  BY DEF Init
<1>9. Counted
  BY <1>7, <1>8, ShapeAssumption DEF Counted
<1>10. Ending
  BY <1>1 DEF Init, Ending, Masks, Stays, Gone, Handing, Out, AtEnd, Trapped, Stopping
<1> QED BY <1>5, <1>9, <1>10

\* Every step of the caller keeps the types,
LEMMA CallerTypes == ASSUME Basic, Calling PROVE TypeOK' /\ pc'[0] \in CallerPlaces
<1>0. loop \in 0 .. Loops /\ loop \in Nat /\ Loops \in Nat /\ epoch \in Nat /\ TypeOK
  BY ShapeAssumption DEF Basic, TypeOK
<1>1. 0 \in Threads /\ 0 \notin Slots
  BY ThreadSets
<1>2. pc' \in [Threads -> Labels] /\ pc'[0] \in CallerPlaces
  BY CallerSteps DEF Calling, CallerGoes, CallerPlaces
<1>3. CASE SpreadWork
  <2>1. loop' \in 0 .. Loops
    BY <1>0, <1>3 DEF SpreadWork
  <2> QED
    BY <1>0, <1>2, <1>3, <2>1 DEF TypeOK, SpreadWork
<1>4. CASE SetFunc
  BY <1>0, <1>2, <1>4 DEF TypeOK, SetFunc
<1>5. CASE SetEpoch
  <2>1. epoch' \in Nat
    BY <1>0, <1>5 DEF SetEpoch
  <2> QED
    BY <1>0, <1>2, <1>5, <2>1 DEF TypeOK, SetEpoch
<1>6. CASE TakeSnapshot
  BY <1>0, <1>2, <1>6 DEF TypeOK, TakeSnapshot, shared
<1>7. CASE ResetFinish
  BY <1>0, <1>2, <1>7 DEF TypeOK, ResetFinish
<1>8. CASE SetRun
  <2>1. run_mask' \subseteq Threads /\ snapshot \in SUBSET Threads
    BY <1>0, <1>8, ThreadSets DEF SetRun, TypeOK
  <2>2. WorkFor(loop, 0, snapshot) \in [of : 0 .. Loops, from : 0 .. Size, to : 0 .. Size]
    BY <1>0, <1>1, <2>1, WorkForType
  <2>3. work' \in [Threads -> [of : 0 .. Loops, from : 0 .. Size, to : 0 .. Size]]
    BY <1>0, <1>8, <2>2 DEF SetRun, TypeOK
  <2> QED
    BY <1>0, <1>2, <1>8, <2>1, <2>3 DEF TypeOK, SetRun
<1>9. CASE OwnPartDone
  <2>1. NoWork \in [of : 0 .. Loops, from : 0 .. Size, to : 0 .. Size]
    BY ShapeAssumption DEF NoWork, NoLoop
  <2>2. work' \in [Threads -> [of : 0 .. Loops, from : 0 .. Size, to : 0 .. Size]]
    BY <1>0, <1>9, <2>1 DEF OwnPartDone, TypeOK
  <2> QED
    BY <1>0, <1>2, <1>9, <2>2 DEF TypeOK, OwnPartDone, shared
<1>10. CASE Return
  <2>1. pc[0] = "wait"
    BY <1>10, CallerSteps DEF CallerGoes
  <2>2. loop \in 1 .. Loops
    BY <2>1 DEF Basic, Called, Out
  <2>3. ended' \subseteq 1 .. Loops
    BY <1>0, <1>10, <2>2 DEF Return, TypeOK
  <2> QED
    BY <1>0, <1>2, <1>10, <2>3 DEF TypeOK, Return, shared
<1>11. CASE Stop
  BY <1>0, <1>2, <1>11 DEF TypeOK, Stop
<1>12. CASE ClearRun
  BY <1>0, <1>1, <1>2, <1>12 DEF TypeOK, ClearRun
<1>13. CASE Wake
  <2>1. epoch' \in Nat
    BY <1>0, <1>13 DEF Wake
  <2> QED
    BY <1>0, <1>2, <1>13, <2>1 DEF TypeOK, Wake
<1>14. CASE WaitForTasks
  BY <1>0, <1>2, <1>14 DEF TypeOK, WaitForTasks, shared
<1> QED
  BY <1>3, <1>4, <1>5, <1>6, <1>7, <1>8, <1>9, <1>10, <1>11, <1>12, <1>13, <1>14 DEF Calling

\* and that the function called is that of a loop.
LEMMA CallerCalled == ASSUME Basic, Calling PROVE Called'
<1>0. /\ loop \in 0 .. Loops /\ loop \in Nat /\ Loops \in Nat /\ Called /\ 0 \notin Slots
      /\ work \in [Threads -> [of : 0 .. Loops, from : 0 .. Size, to : 0 .. Size]]
      /\ \A l \in ended : l \in Nat /\ l <= loop
  <2>1. loop \in 0 .. Loops /\ ended \subseteq 1 .. Loops /\ Called
        /\ work \in [Threads -> [of : 0 .. Loops, from : 0 .. Size, to : 0 .. Size]]
    BY DEF Basic, TypeOK
  <2> QED
    BY <2>1, ShapeAssumption, ThreadSets DEF Called
<1> USE DEF Handing, Out
<1>1. CASE SpreadWork
  <2>1. pc'[0] = "set_func" /\ \A i \in Slots : pc'[i] = pc[i]
    BY <1>1, CallerSteps DEF CallerGoes
  <2>2. loop' = loop + 1 /\ loop < Loops /\ ended' = ended /\ run_mask' = {} /\ func_ptr' = func_ptr
        /\ work' = work
    BY <1>1 DEF SpreadWork
  <2>3. loop' \in 1 .. Loops /\ \A l \in ended' : l <= loop' /\ l # loop'
    BY <1>0, <2>2
  <2> QED
    BY <1>0, <2>1, <2>2, <2>3 DEF Called
<1>2. CASE SetFunc
  <2>1. pc[0] = "set_func" /\ pc'[0] = "set_epoch" /\ \A i \in Slots : pc'[i] = pc[i]
    BY <1>2, CallerSteps DEF CallerGoes
  <2>2. loop' = loop /\ ended' = ended /\ run_mask' = run_mask /\ func_ptr' = loop /\ work' = work
    BY <1>2 DEF SetFunc
  <2>3. loop # NoLoop
    BY <1>0, <2>1 DEF Called, NoLoop
  <2> QED
    BY <1>0, <2>1, <2>2, <2>3 DEF Called
<1>3. CASE SetEpoch
  <2>1. pc[0] = "set_epoch" /\ pc'[0] = "snapshot" /\ \A i \in Slots : pc'[i] = pc[i]
    BY <1>3, CallerSteps DEF CallerGoes
  <2> QED
    BY <1>0, <1>3, <2>1 DEF Called, SetEpoch
<1>4. CASE TakeSnapshot
  <2>1. pc[0] = "snapshot" /\ pc'[0] = "reset_finish" /\ \A i \in Slots : pc'[i] = pc[i]
    BY <1>4, CallerSteps DEF CallerGoes
  <2> QED
    BY <1>0, <1>4, <2>1 DEF Called, TakeSnapshot, shared
<1>5. CASE ResetFinish
  <2>1. pc[0] = "reset_finish" /\ pc'[0] = "set_run" /\ \A i \in Slots : pc'[i] = pc[i]
    BY <1>5, CallerSteps DEF CallerGoes
  <2> QED
    BY <1>0, <1>5, <2>1 DEF Called, ResetFinish
<1>6. CASE SetRun
  <2>1. pc[0] = "set_run" /\ pc'[0] = "work" /\ \A i \in Slots : pc'[i] = pc[i]
    BY <1>6, CallerSteps DEF CallerGoes
  <2>2. /\ loop' = loop /\ ended' = ended /\ func_ptr' = func_ptr
        /\ work' = [work EXCEPT ![0] = WorkFor(loop, 0, snapshot)]
    BY <1>6 DEF SetRun
  <2>3. work'[0].of = loop /\ \A i \in Slots : work'[i] = work[i]
    <3>1. WorkFor(loop, 0, snapshot).of = loop
      BY DEF WorkFor
    <3> QED
      BY <1>0, <2>2, <3>1, ThreadSets
  <2>4. func_ptr = loop /\ loop # NoLoop
    BY <1>0, <2>1 DEF Called, NoLoop
  <2> QED
    BY <1>0, <2>1, <2>2, <2>3, <2>4 DEF Called
<1>7. CASE OwnPartDone
  <2>1. pc[0] = "work" /\ pc'[0] = "wait" /\ \A i \in Slots : pc'[i] = pc[i]
    BY <1>7, CallerSteps DEF CallerGoes
  <2>2. \A i \in Slots : work'[i] = work[i]
    BY <1>0, <1>7, ThreadSets DEF OwnPartDone
  <2> QED
    BY <1>0, <1>7, <2>1, <2>2 DEF Called, OwnPartDone, shared
<1>8. CASE Return
  <2>1. pc[0] = "wait" /\ pc'[0] = "idle" /\ \A i \in Slots : pc'[i] = pc[i]
    BY <1>8, CallerSteps DEF CallerGoes
  <2>2. ended' = ended \cup {loop} /\ loop' = loop /\ loop <= loop
    BY <1>0, <1>8 DEF Return
  <2> QED
    BY <1>0, <1>8, <2>1, <2>2 DEF Called, Return, shared
<1>9. CASE Stop
  <2>1. pc'[0] = "clear_run" /\ \A i \in Slots : pc'[i] = pc[i]
    BY <1>9, CallerSteps DEF CallerGoes
  <2> QED
    BY <1>0, <1>9, <2>1 DEF Called, Stop
<1>10. CASE ClearRun
  <2>1. pc'[0] = "wake" /\ \A i \in Slots : pc'[i] = pc[i]
    BY <1>10, CallerSteps DEF CallerGoes
  <2> QED
    BY <1>0, <1>10, <2>1 DEF Called, ClearRun
<1>11. CASE Wake
  <2>1. pc'[0] = "join" /\ \A i \in Slots : pc'[i] = pc[i]
    BY <1>11, CallerSteps DEF CallerGoes
  <2> QED
    BY <1>0, <1>11, <2>1 DEF Called, Wake
<1>12. CASE WaitForTasks
  <2>1. pc'[0] = "over" /\ \A i \in Slots : pc'[i] = pc[i]
    BY <1>12, CallerSteps DEF CallerGoes
  <2> QED
    BY <1>0, <1>12, <2>1 DEF Called, WaitForTasks, shared
<1> QED
  BY <1>1, <1>2, <1>3, <1>4, <1>5, <1>6, <1>7, <1>8, <1>9, <1>10, <1>11, <1>12 DEF Calling

LEMMA TrapperTypes == ASSUME Basic, Counted, NEW i \in Slots, Trapping(i) PROVE TypeOK'
<1>0. /\ TypeOK /\ i \in Threads /\ epoch \in Nat /\ run_mask \subseteq Threads
      /\ n_tasks \in 0 .. MaxThreads /\ n_tasks > 0 /\ MaxThreads \in Nat
  <2>1. n_tasks > Cardinality(Busy) /\ n_tasks \in 0 .. MaxThreads /\ MaxThreads \in Nat
    BY ShapeAssumption DEF Counted, Basic, TypeOK
  <2>2. n_tasks > 0
    BY <2>1, BusyType
  <2> QED
    BY <2>1, <2>2, ThreadSets DEF Basic, TypeOK
<1>1. pc' \in [Threads -> Labels]
  BY TrapperSteps DEF Trapping, TrapperPlaces
<1>2. CASE Start(i)
  BY <1>0, <1>1, <1>2 DEF Start, TypeOK, shared
<1>3. CASE EnterTrap(i)
  BY <1>0, <1>1, <1>3 DEF EnterTrap, TypeOK
<1>4. CASE FirstEpoch(i)
  BY <1>0, <1>1, <1>4 DEF FirstEpoch, TypeOK, shared
<1>5. CASE FirstRun(i)
  BY <1>0, <1>1, <1>5 DEF FirstRun, TypeOK, shared
<1>6. CASE Call(i)
  <2>1. func_ptr \in 0 .. Loops /\ r[i] \in SUBSET Threads
    BY <1>0 DEF TypeOK
  <2>2. WorkFor(func_ptr, i, r[i]) \in [of : 0 .. Loops, from : 0 .. Size, to : 0 .. Size]
    BY <1>0, <2>1, WorkForType
  <2> QED
    BY <1>0, <1>1, <1>6, <2>2 DEF Call, TypeOK, shared
<1>7. CASE Finish(i)
  <2>1. NoWork \in [of : 0 .. Loops, from : 0 .. Size, to : 0 .. Size]
    BY ShapeAssumption DEF NoWork, NoLoop
  <2> QED
    BY <1>0, <1>1, <1>7, <2>1 DEF Finish, TypeOK
<1>8. CASE SpinOnEpoch(i)
  BY <1>0, <1>1, <1>8 DEF SpinOnEpoch, TypeOK, shared
<1>9. CASE ReadEpoch(i)
  BY <1>0, <1>1, <1>9 DEF ReadEpoch, TypeOK, shared
<1>10. CASE SpinOnRun(i)
  BY <1>0, <1>1, <1>10 DEF SpinOnRun, TypeOK, shared
<1>11. CASE ReadRun(i)
  BY <1>0, <1>1, <1>11 DEF ReadRun, TypeOK, shared
<1>12. CASE While(i)
  BY <1>0, <1>1, <1>12 DEF While, TypeOK, shared
<1>13. CASE LeaveTrap(i)
  BY <1>0, <1>1, <1>13 DEF LeaveTrap, TypeOK
<1>14. CASE SeeLate(i)
  BY <1>0, <1>1, <1>14 DEF SeeLate, TypeOK, shared
<1>15. CASE SpinLate(i)
  BY <1>0, <1>1, <1>15 DEF SpinLate, TypeOK, shared
<1>16. CASE ReadLate(i)
  BY <1>0, <1>1, <1>16 DEF ReadLate, TypeOK, shared
<1>17. CASE End(i)
  <2>1. n_tasks' \in 0 .. MaxThreads
    BY <1>0, <1>17 DEF End
  <2> QED
    BY <1>0, <1>1, <1>17, <2>1 DEF End, TypeOK
<1> QED
  BY <1>2, <1>3, <1>4, <1>5, <1>6, <1>7, <1>8, <1>9, <1>10, <1>11, <1>12, <1>13, <1>14, <1>15,
     <1>16, <1>17 DEF Trapping

\* A slot is called when its bit is in the mask, and so a function is there.
LEMMA TrapperCalled == ASSUME Basic, NEW i \in Slots, Trapping(i) PROVE Called'
<1>0. /\ Called /\ i \in Threads /\ SlotFrame(i) /\ SlotWork(i)
      /\ work \in [Threads -> [of : 0 .. Loops, from : 0 .. Size, to : 0 .. Size]]
  BY ThreadSets, TrapperFrame, TrapperWork DEF Basic, TypeOK
<1>1. pc'[i] = "call" => i \in run_mask
  BY TrapperSteps DEF Trapping, TrapperPlaces
<1>2. pc'[i] = "work" => work'[i].of # NoLoop
  <2> SUFFICES ASSUME pc'[i] = "work" PROVE work'[i].of # NoLoop
    OBVIOUS
  <2>1. Call(i)
    BY <1>0, TrapperSteps DEF SlotWork, TrapperPlaces
  <2>2. pc[i] = "call" /\ work'[i] = WorkFor(func_ptr, i, r[i])
    BY <1>0, <2>1, TrapperSteps DEF Call, TrapperPlaces
  <2> QED
    BY <1>0, <2>2 DEF Called, WorkFor
<1> QED
  BY <1>0, <1>1, <1>2 DEF Called, SlotFrame

\* An iteration of a part.
LEMMA RunTypes == ASSUME Basic, NEW t \in Threads, RunOne(t) PROVE Basic'
<1>0. /\ work[t] \in [of : 0 .. Loops, from : 0 .. Size, to : 0 .. Size]
      /\ work \in [Threads -> [of : 0 .. Loops, from : 0 .. Size, to : 0 .. Size]]
      /\ pc[t] = "work" /\ work[t].from < work[t].to /\ TypeOK /\ Called
  BY DEF RunOne, Basic, TypeOK
<1>1. work[t].of \in 1 .. Loops
  <2>1. work[t].of # 0
    BY <1>0, ThreadSets, ShapeAssumption DEF Called, NoLoop, Out
  <2> QED
    BY <1>0, <2>1, ShapeAssumption
<1>2. [work[t] EXCEPT !.from = @ + 1] \in [of : 0 .. Loops, from : 0 .. Size, to : 0 .. Size]
  <2>1. work[t].from + 1 \in 0 .. Size
    BY <1>0, ShapeAssumption
  <2> QED
    BY <1>0, <2>1
<1>3. work' \in [Threads -> [of : 0 .. Loops, from : 0 .. Size, to : 0 .. Size]]
  BY <1>0, <1>2 DEF RunOne
<1>4. ran' \subseteq (1 .. Loops) \X (0 .. Size - 1)
  <2>1. work[t].from \in 0 .. Size - 1
    BY <1>0, ShapeAssumption
  <2> QED
    BY <1>0, <1>1, <2>1 DEF RunOne, TypeOK
<1>5. TypeOK'
  BY <1>0, <1>3, <1>4 DEF RunOne, TypeOK, shared
<1>6. \A u \in Threads : work'[u].of = work[u].of
  BY <1>0 DEF RunOne
<1>7. Called'
  BY <1>0, <1>6, ThreadSets DEF RunOne, Called, shared
<1> QED
  BY <1>5, <1>7 DEF RunOne, Basic

\* Only the end of a task changes the count, and the busy slots by one.
LEMMA CountedStep == ASSUME Basic, Counted, Ending, [Next]_vars PROVE Counted'
<1>1. ASSUME NEW i \in Slots, End(i) PROVE Counted'
  <2>1. mode = Stopping
    <3>1. pc[i] = "done" /\ Stays(i)
      BY <1>1, TrapperSteps DEF TrapperPlaces, Ending
    <3> QED
      BY <3>1 DEF Stays, Gone
  <2>2. TrapperPlaces(i, {"done"}, {"over"})
    BY <1>1, <2>1, TrapperSteps
  <2>3. Busy' = Busy \ {i} /\ i \in Busy
    BY <2>2, ThreadSets DEF Busy, TrapperPlaces
  <2>4. Cardinality(Busy') = Cardinality(Busy) - 1 /\ n_tasks' = n_tasks - 1
    BY <1>1, <2>1, <2>3, BusyType, FS_RemoveElement DEF End
  <2>5. n_tasks \in Nat
    BY ShapeAssumption DEF Basic, TypeOK
  <2> QED
    BY <2>4, <2>5, BusyType DEF Counted
<1>2. ASSUME Busy' = Busy, n_tasks' = n_tasks PROVE Counted'
  BY <1>2 DEF Counted
<1>3. ASSUME NEW i \in Slots, Trapping(i), ~End(i) PROVE Counted'
  <2>1. n_tasks' = n_tasks /\ pc[i] # "over" /\ pc'[i] # "over"
    BY <1>3, TrapperWork DEF SlotWork
  <2>2. \A j \in Slots \ {i} : pc'[j] = pc[j]
    BY <1>3, TrapperFrame DEF SlotFrame
  <2> QED
    BY <1>2, <2>1, <2>2 DEF Busy
<1>4. ASSUME Calling PROVE Counted'
  <2>1. n_tasks' = n_tasks
    BY <1>4 DEF Calling, SpreadWork, SetFunc, SetEpoch, TakeSnapshot, ResetFinish, SetRun,
                OwnPartDone, Return, Stop, ClearRun, Wake, WaitForTasks, shared
  <2>2. \A i \in Slots : pc'[i] = pc[i]
    BY <1>4, CallerSteps DEF Calling, CallerGoes
  <2> QED
    BY <1>2, <2>1, <2>2 DEF Busy
<1>5. ASSUME NEW t \in Threads, RunOne(t) PROVE Counted'
  BY <1>2, <1>5 DEF RunOne, Busy, shared
<1>6. ASSUME UNCHANGED vars PROVE Counted'
  BY <1>2, <1>6 DEF vars, shared, Busy
<1> QED
  BY <1>1, <1>3, <1>4, <1>5, <1>6 DEF Next, Step, Spin, Over

-----------------------------------------------------------------------------
(* The masks, and who leaves.                                              *)

LEMMA CallerEnding == ASSUME Basic, Ending, Calling PROVE Ending'
<1>0. Masks /\ (\A i \in Slots : Stays(i)) /\ 0 \notin Slots
  BY ThreadSets DEF Ending
<1>1. \A i \in Slots : pc'[i] = pc[i]
  BY CallerSteps DEF Calling, CallerGoes
<1> USE DEF Handing, Out, AtEnd
<1>2. CASE SpreadWork
  <2>1. pc[0] = "idle" /\ pc'[0] = "set_func" /\ mode' = mode /\ run_mask' = {}
    BY <1>2, CallerSteps DEF CallerGoes, SpreadWork
  <2> QED
    BY <1>0, <1>1, <2>1 DEF Ending, Masks, Stays
<1>3. CASE SetFunc
  <2>1. pc[0] = "set_func" /\ pc'[0] = "set_epoch" /\ mode' = mode /\ run_mask' = run_mask
    BY <1>3, CallerSteps DEF CallerGoes, SetFunc
  <2> QED
    BY <1>0, <1>1, <2>1 DEF Ending, Masks, Stays
<1>4. CASE SetEpoch
  <2>1. pc[0] = "set_epoch" /\ pc'[0] = "snapshot" /\ mode' = mode /\ run_mask' = run_mask
    BY <1>4, CallerSteps DEF CallerGoes, SetEpoch
  <2> QED
    BY <1>0, <1>1, <2>1 DEF Ending, Masks, Stays
<1>5. CASE TakeSnapshot
  <2>1. pc[0] = "snapshot" /\ pc'[0] = "reset_finish" /\ mode' = mode /\ run_mask' = run_mask
    BY <1>5, CallerSteps DEF CallerGoes, TakeSnapshot, shared
  <2> QED
    BY <1>0, <1>1, <2>1 DEF Ending, Masks, Stays
<1>6. CASE ResetFinish
  <2>1. /\ pc[0] = "reset_finish" /\ pc'[0] = "set_run" /\ mode' = mode /\ run_mask' = run_mask
        /\ finish_mask' = {}
    BY <1>6, CallerSteps DEF CallerGoes, ResetFinish
  <2> QED
    BY <1>0, <1>1, <2>1 DEF Ending, Masks, Stays
\* A slot that has its bit already, from the loop before, has not looked.
<1>7. CASE SetRun
  <2>1. /\ pc[0] = "set_run" /\ pc'[0] = "work" /\ mode' = mode /\ run_mask' = snapshot' \cup {0}
        /\ finish_mask' = finish_mask
    BY <1>7, CallerSteps DEF CallerGoes, SetRun
  <2> QED
    BY <1>0, <1>1, <2>1 DEF Ending, Masks, Stays, Seeing
<1>8. CASE OwnPartDone
  <2>1. /\ pc[0] = "work" /\ pc'[0] = "wait" /\ mode' = mode /\ run_mask' = run_mask
        /\ finish_mask' = finish_mask /\ snapshot' = snapshot
    BY <1>8, CallerSteps DEF CallerGoes, OwnPartDone, shared
  <2> QED
    BY <1>0, <1>1, <2>1 DEF Ending, Masks, Stays
\* Every slot in the mask has set its bit.
<1>9. CASE Return
  <2>1. /\ pc[0] = "wait" /\ pc'[0] = "idle" /\ mode' = mode /\ run_mask' = run_mask
        /\ finish_mask = snapshot
    BY <1>9, CallerSteps DEF CallerGoes, Return, shared
  <2>2. \A i \in Slots : i \in run_mask => i \in finish_mask
    BY <1>0, <2>1 DEF Masks
  <2> QED
    BY <1>0, <1>1, <2>1, <2>2 DEF Ending, Masks, Stays
<1>10. CASE Stop
  <2>1. pc[0] = "idle" /\ pc'[0] = "clear_run" /\ mode' = Stopping /\ run_mask' = run_mask
    BY <1>10, CallerSteps DEF CallerGoes, Stop
  <2> QED
    BY <1>0, <1>1, <2>1 DEF Ending, Masks, Stays
<1>11. CASE ClearRun
  <2>1. pc[0] = "clear_run" /\ pc'[0] = "wake" /\ mode' = mode /\ run_mask' = {0}
    BY <1>11, CallerSteps DEF CallerGoes, ClearRun
  <2> QED
    BY <1>0, <1>1, <2>1 DEF Ending, Masks, Stays
<1>12. CASE Wake
  <2>1. pc[0] = "wake" /\ pc'[0] = "join" /\ mode' = mode /\ run_mask' = run_mask
    BY <1>12, CallerSteps DEF CallerGoes, Wake
  <2> QED
    BY <1>0, <1>1, <2>1 DEF Ending, Masks, Stays
<1>13. CASE WaitForTasks
  <2>1. pc[0] = "join" /\ pc'[0] = "over" /\ mode' = mode /\ run_mask' = run_mask
    BY <1>13, CallerSteps DEF CallerGoes, WaitForTasks, shared
  <2> QED
    BY <1>0, <1>1, <2>1 DEF Ending, Masks, Stays
<1> QED
  BY <1>2, <1>3, <1>4, <1>5, <1>6, <1>7, <1>8, <1>9, <1>10, <1>11, <1>12, <1>13 DEF Calling

LEMMA TrapperEnding == ASSUME Basic, Ending, NEW i \in Slots, Trapping(i) PROVE Ending'
<1>0. /\ Masks /\ (\A j \in Slots : Stays(j)) /\ i # 0 /\ SlotFrame(i) /\ SlotWork(i)
      /\ mode \in {Stopping, Trapped} /\ Stays(i)
  BY ThreadSets, TrapperFrame, TrapperWork DEF Ending, Basic, TypeOK
<1>1. Masks'
  BY <1>0 DEF Masks, SlotFrame
<1>2. ASSUME NEW j \in Slots \ {i} PROVE Stays(j)'
  BY <1>0, <1>2 DEF Stays, SlotFrame
\* A slot whose bit is in the mask is called, or turns around, when it reads it.
<1>3. pc'[i] # "late_call"
  <2>1. CASE ReadLate(i)
    <3>1. pc[i] = "late_read" /\ (pc'[i] = "late_call" => i \in run_mask)
      BY <2>1, TrapperSteps DEF TrapperPlaces
    <3>2. mode = Stopping
      BY <1>0, <3>1 DEF Stays, Gone
    <3>3. pc[0] = "clear_run" \/ run_mask = {0}
      BY <1>0, <3>2 DEF Masks, AtEnd
    <3> QED
      BY <1>0, <3>1, <3>3 DEF Stays, Seeing
  <2>2. CASE ~ReadLate(i)
    BY <2>2, TrapperSteps DEF Trapping, TrapperPlaces
  <2> QED
    BY <2>1, <2>2
<1>4. pc'[i] \in Gone => mode' = Stopping
  <2>1. pc'[i] \in Gone => pc[i] \in Gone \/ mode = Stopping
    BY <1>0, TrapperSteps DEF Trapping, TrapperPlaces, Gone
  <2> QED
    BY <1>0, <2>1 DEF Stays, SlotFrame
<1>5. i \in run_mask /\ pc[i] \in Seeing => pc'[i] \in Seeing
  BY TrapperSteps DEF Trapping, TrapperPlaces, Seeing
<1>6. i \in finish_mask' => i \in finish_mask \/ pc'[i] = "epoch"
  BY <1>0, TrapperSteps DEF SlotWork, TrapperPlaces, Call, shared
<1>7. run_mask = {} /\ pc[i] \in {"epoch", "read_epoch", "run_mask"}
        => pc'[i] \in {"epoch", "read_epoch", "run_mask"}
  BY TrapperSteps DEF Trapping, TrapperPlaces, SpinOnRun
<1>8. Stays(i)'
  <2>1. pc[0] \in {"idle", "clear_run"} /\ i \in run_mask => pc'[i] \in Seeing
    BY <1>0, <1>5 DEF Stays
  <2>2. pc[0] \in Out /\ i \in run_mask /\ i \in finish_mask' => pc'[i] \in Seeing
    BY <1>0, <1>5, <1>6 DEF Stays, Seeing
  <2>3. pc[0] = "set_run" /\ i \in finish_mask' => pc'[i] \in {"epoch", "read_epoch", "run_mask"}
    BY <1>0, <1>6, <1>7 DEF Stays, Masks, Handing
  <2> QED
    BY <1>0, <1>3, <1>4, <2>1, <2>2, <2>3 DEF Stays, SlotFrame
<1> QED
  BY <1>1, <1>2, <1>8 DEF Ending

Always == Basic /\ Counted /\ Ending

LEMMA NextSteps ==
  [Next]_vars => \/ Calling
                 \/ \E i \in Slots : Trapping(i)
                 \/ \E t \in Threads : RunOne(t)
                 \/ UNCHANGED vars
  BY DEF Next, Step, Spin, Over

LEMMA AlwaysStep == Always /\ [Next]_vars => Always'
<1> SUFFICES ASSUME Always, [Next]_vars PROVE Always'
  OBVIOUS
<1>0. Basic /\ Counted /\ Ending
  BY DEF Always
<1>1. Counted'
  BY <1>0, CountedStep
<1>2. CASE Calling
  BY <1>0, <1>1, <1>2, CallerTypes, CallerCalled, CallerEnding DEF Always, Basic
<1>3. ASSUME NEW i \in Slots, Trapping(i) PROVE Always'
  <2>1. pc'[0] \in CallerPlaces
    BY <1>0, <1>3, TrapperFrame DEF Basic, SlotFrame
  <2> QED
    BY <1>0, <1>1, <1>3, <2>1, TrapperTypes, TrapperCalled, TrapperEnding DEF Always, Basic
<1>4. ASSUME NEW t \in Threads, RunOne(t) PROVE Always'
  <2>1. Ending'
    BY <1>0, <1>4 DEF Ending, Masks, Stays, RunOne, shared
  <2> QED
    BY <1>0, <1>1, <1>4, <2>1, RunTypes DEF Always
<1>5. ASSUME UNCHANGED vars PROVE Always'
  <2>1. Basic'
    BY <1>0, <1>5 DEF Basic, TypeOK, Called, vars, shared
  <2>2. Ending'
    BY <1>0, <1>5 DEF Ending, Masks, Stays, vars, shared
  <2> QED
    BY <1>1, <2>1, <2>2 DEF Always
<1> QED
  BY <1>2, <1>3, <1>4, <1>5, NextSteps

\* However late the slots come.
THEOREM AlwaysSo == Spec => []Always
<1>1. Init => Always
  BY InitTypes DEF Always
<1> QED
  BY <1>1, AlwaysStep, PTL DEF Spec

\* The types, among them that n_tasks does not go below zero.
THEOREM TypeCorrect == Spec => []TypeOK
<1>1. Always => TypeOK
  BY DEF Always, Basic
<1> QED
  BY <1>1, AlwaysSo, PTL

\* A slot leaves its trap in the destructor, and finds no part when it is too
\* late to leave.
THEOREM LeavesOnlyAtEnd == Spec => []LeavesAtEnd
<1>1. Always => LeavesAtEnd
  BY DEF Always, Ending, Stays, Gone, LeavesAtEnd
<1> QED
  BY <1>1, AlwaysSo, PTL

-----------------------------------------------------------------------------
(* What holds until a slot is torn.                                        *)

\* A slot that spins until the next loop, or the end.
Resting(i) == pc[i] = "epoch" /\ e[i] = epoch

\* While the mask is out.
Sharing(i) ==
  /\ i \in finish_mask => i \in snapshot /\ Resting(i)
  /\ pc[i] = "call" => i \in snapshot \ finish_mask /\ e[i] = epoch /\ r[i] = snapshot \cup {0}
  /\ pc[i] = "work" => i \in snapshot \ finish_mask /\ e[i] = epoch /\ work[i].of = loop

\* A slot that has its bit in start_mask, and one that has yet to see that the
\* epoch has moved on, or waits for the mask: that one is in the snapshot, and
\* the caller waits for it.
Inside ==
  {"first_epoch", "first_run", "epoch", "read_epoch", "run_mask", "read_run", "call", "work",
   "while", "leave"}
Behind(i) ==
  \/ pc[i] \in {"first_run", "epoch"} /\ e[i] # epoch
  \/ pc[i] \in {"read_epoch", "run_mask", "read_run", "while"}
Following(i) ==
  /\ pc[i] \in Inside => i \in start_mask
  /\ pc[i] \in {"run_mask", "read_run"} => e[i] = epoch
  /\ Behind(i) =>
       /\ pc[0] \notin {"idle", "set_func", "set_epoch", "clear_run", "wake"}
       /\ pc[0] \in {"reset_finish", "set_run"} \cup Out => i \in snapshot

Phases ==
  /\ \A i \in Slots : Following(i)
  /\ pc[0] \notin Out => \A i \in Slots : pc[i] \notin {"call", "work"}
  /\ pc[0] \in {"idle", "clear_run"} => \A i \in Slots : i \in run_mask => Resting(i)
  /\ pc[0] = "set_run" => finish_mask = {}
  /\ pc[0] \in Out => \A i \in Slots : Sharing(i)

\* The caller takes every slot in start_mask into its snapshot, and returns
\* only when all of them rest.
LEMMA CallerFollowed ==
  ASSUME Basic, Phases, Calling, NEW i \in Slots
  PROVE  Following(i)'
<1>0. /\ Following(i) /\ pc'[i] = pc[i] /\ e' = e /\ start_mask' = start_mask
      /\ pc[i] \in Labels
  <2>1. e' = e /\ start_mask' = start_mask
    BY DEF Calling, SpreadWork, SetFunc, SetEpoch, TakeSnapshot, ResetFinish, SetRun, OwnPartDone,
           Return, Stop, ClearRun, Wake, WaitForTasks, shared
  <2>2. pc'[i] = pc[i]
    BY CallerSteps DEF Calling, CallerGoes
  <2> QED
    BY <2>1, <2>2, ThreadSets DEF Phases, Basic, TypeOK
<1> USE DEF Out
<1>1. CASE SpreadWork \/ SetFunc \/ Stop \/ ClearRun
  <2>1. epoch' = epoch /\ pc[0] \in {"idle", "set_func", "clear_run"}
    BY <1>1, CallerSteps DEF CallerGoes, SpreadWork, SetFunc, Stop, ClearRun
  <2>2. ~Behind(i)
    BY <1>0, <2>1 DEF Following
  <2> QED
    BY <1>0, <2>1, <2>2 DEF Following, Behind
<1>2. CASE SetEpoch \/ Wake
  <2>1. pc[0] \in {"set_epoch", "wake"} /\ pc'[0] \in {"snapshot", "join"}
    BY <1>2, CallerSteps DEF CallerGoes
  <2>2. ~Behind(i)
    BY <1>0, <2>1 DEF Following
  <2> QED
    BY <1>0, <2>1, <2>2 DEF Following, Behind
<1>3. CASE TakeSnapshot
  <2>1. /\ epoch' = epoch /\ snapshot' = start_mask
        /\ pc[0] = "snapshot" /\ pc'[0] = "reset_finish"
    BY <1>3, CallerSteps DEF CallerGoes, TakeSnapshot, shared
  <2>2. Behind(i) => i \in start_mask
    BY <1>0 DEF Following, Behind, Inside
  <2> QED
    BY <1>0, <2>1, <2>2 DEF Following, Behind
<1>4. CASE ResetFinish \/ SetRun \/ OwnPartDone
  <2>1. /\ epoch' = epoch /\ snapshot' = snapshot
        /\ pc[0] \in {"reset_finish", "set_run", "work"} /\ pc'[0] \in {"set_run", "work", "wait"}
    BY <1>4, CallerSteps DEF CallerGoes, ResetFinish, SetRun, OwnPartDone, shared
  <2> QED
    BY <1>0, <2>1 DEF Following, Behind
<1>5. CASE Return
  <2>1. epoch' = epoch /\ finish_mask = snapshot /\ pc[0] = "wait" /\ pc'[0] = "idle"
    BY <1>5, CallerSteps DEF CallerGoes, Return, shared
  <2>2. i \in snapshot => Resting(i)
    BY <2>1 DEF Phases, Sharing
  <2>3. ~Behind(i)
    BY <1>0, <2>1, <2>2 DEF Following, Behind, Resting
  <2> QED
    BY <1>0, <2>1, <2>3 DEF Following, Behind
<1>6. CASE WaitForTasks
  <2>1. epoch' = epoch /\ snapshot' = snapshot /\ pc[0] = "join" /\ pc'[0] = "over"
    BY <1>6, CallerSteps DEF CallerGoes, WaitForTasks, shared
  <2> QED
    BY <1>0, <2>1 DEF Following, Behind
<1> QED
  BY <1>1, <1>2, <1>3, <1>4, <1>5, <1>6 DEF Calling

LEMMA CallerPhases == ASSUME Basic, Ending, Phases, Calling PROVE Phases'
<1>0. Masks /\ 0 \notin Slots /\ \A i \in Slots : Following(i)'
  BY ThreadSets, CallerFollowed DEF Ending
<1>1. \A i \in Slots : pc'[i] = pc[i]
  BY CallerSteps DEF Calling, CallerGoes
<1> USE DEF Handing, Out
<1>2. CASE SpreadWork
  <2>1. pc[0] = "idle" /\ pc'[0] = "set_func"
    BY <1>2, CallerSteps DEF CallerGoes
  <2> QED
    BY <1>0, <1>1, <2>1 DEF Phases
<1>3. CASE SetFunc
  <2>1. pc[0] = "set_func" /\ pc'[0] = "set_epoch"
    BY <1>3, CallerSteps DEF CallerGoes
  <2> QED
    BY <1>0, <1>1, <2>1 DEF Phases
<1>4. CASE SetEpoch
  <2>1. pc[0] = "set_epoch" /\ pc'[0] = "snapshot"
    BY <1>4, CallerSteps DEF CallerGoes
  <2> QED
    BY <1>0, <1>1, <2>1 DEF Phases
<1>5. CASE TakeSnapshot
  <2>1. pc[0] = "snapshot" /\ pc'[0] = "reset_finish"
    BY <1>5, CallerSteps DEF CallerGoes
  <2> QED
    BY <1>0, <1>1, <2>1 DEF Phases
<1>6. CASE ResetFinish
  <2>1. pc[0] = "reset_finish" /\ pc'[0] = "set_run" /\ finish_mask' = {}
    BY <1>6, CallerSteps DEF CallerGoes, ResetFinish
  <2> QED
    BY <1>0, <1>1, <2>1 DEF Phases
<1>7. CASE SetRun
  <2>1. pc[0] = "set_run" /\ pc'[0] = "work" /\ finish_mask' = finish_mask
    BY <1>7, CallerSteps DEF CallerGoes, SetRun
  <2> QED
    BY <1>0, <1>1, <2>1 DEF Phases, Sharing
<1>8. CASE OwnPartDone
  <2>1. /\ pc[0] = "work" /\ pc'[0] = "wait" /\ finish_mask' = finish_mask /\ snapshot' = snapshot
        /\ e' = e /\ epoch' = epoch /\ r' = r /\ loop' = loop
    BY <1>8, CallerSteps DEF CallerGoes, OwnPartDone, shared
  <2>2. \A i \in Slots : work'[i] = work[i]
    BY <1>8, ThreadSets DEF OwnPartDone, Basic, TypeOK
  <2> QED
    BY <1>0, <1>1, <2>1, <2>2 DEF Phases, Sharing, Resting
\* Every slot in the mask has set its bit, and rests.
<1>9. CASE Return
  <2>1. /\ pc[0] = "wait" /\ pc'[0] = "idle" /\ run_mask' = run_mask /\ finish_mask = snapshot
        /\ e' = e /\ epoch' = epoch
    BY <1>9, CallerSteps DEF CallerGoes, Return, shared
  <2>2. \A i \in Slots : Sharing(i) /\ (i \in run_mask => i \in finish_mask)
    BY <1>0, <2>1 DEF Phases, Masks
  <2> QED
    BY <1>0, <1>1, <2>1, <2>2 DEF Phases, Sharing, Resting
<1>10. CASE Stop
  <2>1. /\ pc[0] = "idle" /\ pc'[0] = "clear_run" /\ run_mask' = run_mask
        /\ e' = e /\ epoch' = epoch
    BY <1>10, CallerSteps DEF CallerGoes, Stop
  <2> QED
    BY <1>0, <1>1, <2>1 DEF Phases, Resting
<1>11. CASE ClearRun
  <2>1. pc[0] = "clear_run" /\ pc'[0] = "wake"
    BY <1>11, CallerSteps DEF CallerGoes
  <2> QED
    BY <1>0, <1>1, <2>1 DEF Phases
<1>12. CASE Wake
  <2>1. pc[0] = "wake" /\ pc'[0] = "join"
    BY <1>12, CallerSteps DEF CallerGoes
  <2> QED
    BY <1>0, <1>1, <2>1 DEF Phases
<1>13. CASE WaitForTasks
  <2>1. pc[0] = "join" /\ pc'[0] = "over"
    BY <1>13, CallerSteps DEF CallerGoes
  <2> QED
    BY <1>0, <1>1, <2>1 DEF Phases
<1> QED
  BY <1>2, <1>3, <1>4, <1>5, <1>6, <1>7, <1>8, <1>9, <1>10, <1>11, <1>12, <1>13 DEF Calling

LEMMA RestingStays == ASSUME Basic, NEW i \in Slots, Trapping(i) PROVE ~Resting(i)
  BY TrapperSteps DEF Trapping, TrapperPlaces, Resting, SpinOnEpoch

\* A slot that finds its bit has read the present epoch, unless it is torn.
LEMMA ReadsWhole ==
  ASSUME Basic, Phases, NEW i \in Slots, FirstRun(i) \/ ReadRun(i), torn' = {}, i \in run_mask
  PROVE  e[i] = epoch /\ e' = e /\ epoch' = epoch /\ r'[i] = run_mask
<1>1. r \in [Slots -> SUBSET Threads]
  BY DEF Basic, TypeOK
<1>2. CASE FirstRun(i)
  BY <1>1, <1>2 DEF FirstRun, shared
<1>3. CASE ReadRun(i)
  <2>1. pc[i] = "read_run"
    BY <1>3, TrapperSteps DEF TrapperPlaces
  <2>2. e[i] = epoch
    BY <2>1 DEF Phases, Following
  <2> QED
    BY <1>1, <1>3, <2>2 DEF ReadRun, shared
<1> QED
  BY <1>2, <1>3

\* Whoever sees that the epoch has moved on is in the snapshot, since its bit
\* was in start_mask before it read the epoch of the loop before.
LEMMA FollowingStays ==
  ASSUME Basic, Phases, NEW i \in Slots, Trapping(i), torn' = {}
  PROVE  Following(i)'
<1>0. /\ SlotFrame(i) /\ Following(i) /\ e \in [Slots -> Nat] /\ ~Resting(i) /\ pc'[0] = pc[0]
      /\ snapshot' = snapshot /\ epoch' = epoch /\ start_mask \subseteq Slots
  BY TrapperFrame, RestingStays DEF SlotFrame, Phases, Basic, TypeOK
<1>1. pc'[i] \in Inside => i \in start_mask'
  <2>1. pc'[i] \in Inside => pc[i] \in Inside \/ EnterTrap(i)
    BY TrapperSteps DEF Trapping, TrapperPlaces, Inside
  <2>2. pc'[i] \in Inside => ~LeaveTrap(i)
    BY TrapperSteps DEF TrapperPlaces, Inside
  <2>3. ~LeaveTrap(i) => i \in start_mask' \/ (i \notin start_mask /\ ~EnterTrap(i))
    BY DEF Trapping, Start, EnterTrap, FirstEpoch, FirstRun, Call, Finish, SpinOnEpoch, ReadEpoch,
           SpinOnRun, ReadRun, While, SeeLate, SpinLate, ReadLate, End, shared
  <2> QED
    BY <1>0, <2>1, <2>2, <2>3 DEF Following
<1>2. pc'[i] \in {"run_mask", "read_run"} => e'[i] = epoch
  <2>1. CASE ReadEpoch(i)
    BY <1>0, <2>1 DEF ReadEpoch
  <2>2. CASE SpinOnRun(i)
    <3>1. pc[i] = "run_mask" /\ e' = e
      BY <2>2, TrapperSteps DEF SpinOnRun, TrapperPlaces
    <3> QED
      BY <1>0, <3>1 DEF Following
  <2>3. CASE ~ReadEpoch(i) /\ ~SpinOnRun(i)
    BY <2>3, TrapperSteps DEF Trapping, TrapperPlaces
  <2> QED
    BY <2>1, <2>2, <2>3
<1>3. Behind(i)' => Behind(i)
  <2>1. CASE FirstEpoch(i)
    <3>1. pc'[i] = "first_run" /\ e'[i] = epoch
      BY <1>0, <2>1, TrapperSteps DEF FirstEpoch, TrapperPlaces
    <3> QED
      BY <1>0, <3>1 DEF Behind
  <2>2. CASE FirstRun(i)
    <3>1. pc[i] = "first_run" /\ pc'[i] \in {"call", "epoch"} /\ e' = e
      BY <2>2, TrapperSteps DEF FirstRun, TrapperPlaces
    <3> QED
      BY <1>0, <3>1 DEF Behind
  <2>3. CASE Finish(i)
    <3>1. pc[i] = "work" /\ pc'[i] = "epoch" /\ e' = e
      BY <2>3, TrapperSteps DEF Finish, TrapperPlaces
    <3>2. e[i] = epoch
      BY <3>1 DEF Phases, Sharing
    <3> QED
      BY <1>0, <3>1, <3>2 DEF Behind
  <2>4. CASE SpinOnEpoch(i)
    <3>1. pc[i] = "epoch" /\ e[i] # epoch
      BY <2>4, TrapperSteps DEF SpinOnEpoch, TrapperPlaces
    <3> QED
      BY <3>1 DEF Behind
  <2>5. CASE ~FirstEpoch(i) /\ ~FirstRun(i) /\ ~Finish(i) /\ ~SpinOnEpoch(i)
    BY <2>5, TrapperSteps DEF Trapping, TrapperPlaces, Behind
  <2> QED
    BY <2>1, <2>2, <2>3, <2>4, <2>5
<1>4. Behind(i)' => pc'[0] \notin {"idle", "set_func", "set_epoch", "clear_run", "wake"}
  BY <1>0, <1>3 DEF Following
<1>5. Behind(i)' => (pc'[0] \in {"reset_finish", "set_run"} \cup Out => i \in snapshot')
  BY <1>0, <1>3 DEF Following
<1>6. pc'[i] \in {"run_mask", "read_run"} => e'[i] = epoch'
  BY <1>0, <1>2
<1> QED
  BY <1>1, <1>4, <1>5, <1>6 DEF Following

\* A slot in the mask reads it, runs its part, and rests.
LEMMA SharingStays ==
  ASSUME Basic, Ending, Phases, NEW i \in Slots, Trapping(i), torn' = {}, Sharing(i), pc[0] \in Out
  PROVE  Sharing(i)'
<1>0. /\ SlotFrame(i) /\ SlotWork(i) /\ ~Resting(i) /\ i \in Threads /\ i # 0
      /\ run_mask = snapshot \cup {0} /\ func_ptr = loop
      /\ work \in [Threads -> [of : 0 .. Loops, from : 0 .. Size, to : 0 .. Size]]
  BY TrapperFrame, TrapperWork, RestingStays, ThreadSets
  DEF Basic, TypeOK, Ending, Masks, Called
<1>1. i \notin finish_mask
  BY <1>0 DEF Sharing
<1>2. CASE Call(i)
  <2>1. pc[i] = "call" /\ pc'[i] = "work"
    BY <1>2, TrapperSteps DEF TrapperPlaces
  <2>2. work'[i].of = loop /\ finish_mask' = finish_mask /\ e' = e
    BY <1>0, <1>2 DEF Call, WorkFor, shared
  <2> QED
    BY <1>0, <1>1, <2>1, <2>2 DEF Sharing, SlotFrame
<1>3. CASE Finish(i)
  <2>1. pc[i] = "work" /\ pc'[i] = "epoch" /\ e' = e
    BY <1>3, TrapperSteps DEF Finish, TrapperPlaces
  <2> QED
    BY <1>0, <2>1 DEF Sharing, SlotFrame, Resting
<1>4. CASE ~Call(i) /\ ~Finish(i)
  <2>1. finish_mask' = finish_mask /\ pc'[i] # "work"
    BY <1>0, <1>4 DEF SlotWork
  <2>2. pc'[i] = "call" => (FirstRun(i) \/ ReadRun(i)) /\ i \in run_mask
    BY TrapperSteps DEF Trapping, TrapperPlaces
  <2>3. ASSUME pc'[i] = "call"
        PROVE  i \in snapshot /\ e'[i] = epoch' /\ r'[i] = snapshot \cup {0}
    <3>1. (FirstRun(i) \/ ReadRun(i)) /\ i \in run_mask
      BY <2>2, <2>3
    <3>2. e[i] = epoch /\ e' = e /\ epoch' = epoch /\ r'[i] = run_mask
      BY <3>1, ReadsWhole
    <3> QED
      BY <1>0, <3>1, <3>2
  <2>4. snapshot' = snapshot
    BY <1>0 DEF SlotFrame
  <2> QED
    BY <1>1, <2>1, <2>3, <2>4 DEF Sharing
<1> QED
  BY <1>2, <1>3, <1>4

LEMMA TrapperPhases ==
  ASSUME Basic, Ending, Phases, NEW i \in Slots, Trapping(i), torn' = {}
  PROVE  Phases'
<1>0. SlotFrame(i) /\ SlotWork(i) /\ ~Resting(i) /\ Masks /\ i # 0 /\ pc[0] \in CallerPlaces
  BY TrapperFrame, TrapperWork, RestingStays, ThreadSets DEF Ending, Basic
<1>1. pc[0] \notin Out => pc'[i] \notin {"call", "work"} /\ finish_mask' = finish_mask
  <2> SUFFICES ASSUME pc[0] \notin Out
               PROVE  pc'[i] \notin {"call", "work"} /\ finish_mask' = finish_mask
    OBVIOUS
  <2>1. pc[i] \notin {"call", "work"}
    BY DEF Phases
  <2>2. ~Call(i) /\ ~Finish(i)
    BY <2>1, TrapperSteps DEF TrapperPlaces
  <2>3. i \notin run_mask
    BY <1>0 DEF Phases, Masks, CallerPlaces, Handing, Out
  <2>4. pc'[i] # "call"
    BY <2>3, TrapperSteps DEF Trapping, TrapperPlaces
  <2> QED
    BY <1>0, <2>2, <2>4 DEF SlotWork
<1>2. pc[0] \in Out => Sharing(i)'
  BY SharingStays DEF Phases
<1>3. ASSUME NEW j \in Slots \ {i}
      PROVE  (Resting(j) => Resting(j)') /\ (Sharing(j) => Sharing(j)') /\ Following(j)'
  <2>1. Following(j)
    BY DEF Phases
  <2>2. (Resting(j) => Resting(j)') /\ (Sharing(j) => Sharing(j)')
    BY <1>0 DEF Resting, Sharing, SlotFrame
  <2>3. Following(j)'
    BY <1>0, <2>1 DEF Following, Behind, SlotFrame
  <2> QED
    BY <2>2, <2>3
<1>4. pc[0] \notin Out => \A j \in Slots : pc'[j] \notin {"call", "work"}
  BY <1>0, <1>1 DEF Phases, SlotFrame
<1>5. pc[0] \in {"idle", "clear_run"} => \A j \in Slots : j \in run_mask => Resting(j)'
  BY <1>0, <1>3 DEF Phases
<1>6. pc[0] = "set_run" => finish_mask' = {}
  BY <1>1 DEF Phases, Out
<1>7. pc[0] \in Out => \A j \in Slots : Sharing(j)'
  BY <1>2, <1>3 DEF Phases
<1>8. pc'[0] = pc[0] /\ run_mask' = run_mask
  BY <1>0 DEF SlotFrame
<1>9. \A j \in Slots : Following(j)'
  BY <1>3, FollowingStays
<1> QED
  BY <1>4, <1>5, <1>6, <1>7, <1>8, <1>9 DEF Phases

LEMMA RunPhases == ASSUME Basic, Phases, NEW t \in Threads, RunOne(t) PROVE Phases'
<1>1. UNCHANGED <<shared, pc, e, r, snapshot, loop>>
  BY DEF RunOne
<1>2. \A i \in Slots : work'[i].of = work[i].of
  <2>1. /\ work \in [Threads -> [of : 0 .. Loops, from : 0 .. Size, to : 0 .. Size]]
        /\ work' = [work EXCEPT ![t].from = @ + 1]
    BY DEF Basic, TypeOK, RunOne
  <2> QED
    BY <2>1, ThreadSets
<1> QED
  BY <1>1, <1>2 DEF Phases, Sharing, Resting, Following, Behind, shared

\* Once torn, a slot counts as torn for good.
LEMMA TornStays == ASSUME Basic, [Next]_vars PROVE torn \subseteq torn'
<1>1. Calling => torn' = torn
  BY DEF Calling, SpreadWork, SetFunc, SetEpoch, TakeSnapshot, ResetFinish, SetRun, OwnPartDone,
         Return, Stop, ClearRun, Wake, WaitForTasks
<1>2. \A i \in Slots : Trapping(i) => torn \subseteq torn'
  BY TrapperFrame DEF SlotFrame
<1>3. \A t \in Threads : RunOne(t) => torn' = torn
  BY DEF RunOne
<1>4. UNCHANGED vars => torn' = torn
  BY DEF vars
<1> QED
  BY <1>1, <1>2, <1>3, <1>4, NextSteps

Whole == Always /\ (torn = {} => Phases)

LEMMA WholeStep == Whole /\ [Next]_vars => Whole'
<1> SUFFICES ASSUME Whole, [Next]_vars PROVE Whole'
  OBVIOUS
<1>0. Always /\ Basic /\ Ending /\ Always'
  BY AlwaysStep DEF Whole, Always
<1>1. ASSUME torn' = {} PROVE Phases'
  <2>1. Phases
    BY <1>0, <1>1, TornStays DEF Whole
  <2>2. ASSUME UNCHANGED vars PROVE Phases'
    BY <2>1, <2>2 DEF vars, shared, Phases, Sharing, Resting, Following, Behind
  <2> QED
    BY <1>0, <1>1, <2>1, <2>2, CallerPhases, TrapperPhases, RunPhases, NextSteps
<1> QED
  BY <1>0, <1>1 DEF Whole

LEMMA InitWhole == Init => Whole
<1> SUFFICES ASSUME Init PROVE Whole
  OBVIOUS
<1>1. pc[0] = "idle" /\ run_mask = {} /\ \A i \in Slots : pc[i] = "new"
  BY ThreadSets DEF Init
<1>2. Phases
  BY <1>1 DEF Phases, Following, Behind, Inside, Out
<1> QED
  BY <1>2, InitTypes DEF Whole, Always

\* The phases hold for as long as no first look is torn.
THEOREM WholeAlways == Spec => []Whole
  BY InitWhole, WholeStep, PTL DEF Spec

\* A part is called, and runs, while the mask is out.
LEMMA OnlyOut ==
  ASSUME Basic, Phases, NEW t \in Threads, pc[t] \in {"call", "work"}
  PROVE  /\ pc[0] \in Out /\ loop \in 1 .. Loops /\ loop \notin ended /\ func_ptr = loop
         /\ pc[t] = "work" => work[t].of = loop
<1>1. pc[0] \in Out
  <2>1. t = 0 => pc[0] \in Out
    BY DEF Basic, CallerPlaces, Out
  <2> QED
    BY <2>1, ThreadSets DEF Phases
<1>2. /\ loop \in 1 .. Loops /\ loop \notin ended /\ func_ptr = loop
      /\ pc[0] = "work" => work[0].of = loop
  BY <1>1 DEF Basic, Called, Out, Handing
<1>3. t \in Slots => Sharing(t)
  BY <1>1 DEF Phases
<1> QED
  BY <1>1, <1>2, <1>3, ThreadSets DEF Sharing

\* No thread calls, or is inside, a function whose loop has returned, unless
\* the first look of a slot took a mask with the epoch of the loop before.
THEOREM NoDangling == Spec => []DanglesOnlyTorn
<1>1. Whole => DanglesOnlyTorn
  BY OnlyOut DEF Whole, Always, DanglesOnlyTorn, NoDanglingCall
<1> QED
  BY <1>1, WholeAlways, PTL

-----------------------------------------------------------------------------
(* The parts of the threads in a mask are the range, cut.                  *)

From(t, mask) == Bound(PartOf(t, mask), Parts(mask))
Upto(t, mask) == Bound(PartOf(t, mask) + 1, Parts(mask))
Own(t, mask) == From(t, mask) .. Upto(t, mask) - 1

\* The caller looks at its snapshot, the slots at the mask with bit 0.
LEMMA SameWork ==
  ASSUME NEW f, NEW mask \in SUBSET Slots, NEW t
  PROVE  LET part == [of |-> f, from |-> From(t, mask), to |-> Upto(t, mask)]
         IN WorkFor(f, t, mask) = part /\ WorkFor(f, t, mask \cup {0}) = part
<1>1. (mask \cup {0}) \ {0} = mask \ {0}
  OBVIOUS
<1>2. Parts(mask \cup {0}) = Parts(mask) /\ PartOf(t, mask \cup {0}) = PartOf(t, mask)
  BY <1>1 DEF Parts, PartOf
<1> QED
  BY <1>2 DEF WorkFor, From, Upto

\* Threads have their parts in the order of their numbers,
LEMMA PartsInOrder ==
  ASSUME NEW mask \in SUBSET Slots, NEW t \in mask \cup {0}, NEW u \in mask \cup {0}, t < u
  PROVE  PartOf(t, mask) < PartOf(u, mask)
<1> DEFINE below(s) == {i \in mask : i < s}
<1>0. /\ mask \ {0} = mask /\ mask \in SUBSET Threads /\ t \in Nat /\ u \in Nat /\ u # 0
      /\ \A i \in mask : i \in Nat
  BY ThreadSets, ShapeAssumption DEF Slots
<1>1. u \in mask /\ PartOf(u, mask) = Cardinality(below(u)) + 1
  BY <1>0 DEF PartOf
<1>2. Cardinality(below(u)) \in Nat /\ IsFiniteSet(below(u))
  BY <1>0, Finite
<1>3. CASE t = 0
  <2>1. PartOf(t, mask) = 0
    BY <1>0, <1>3 DEF PartOf
  <2> HIDE DEF below
  <2> QED
    BY <1>1, <1>2, <2>1
<1>4. CASE t # 0
  <2>1. t \in mask /\ PartOf(t, mask) = Cardinality(below(t)) + 1
    BY <1>0, <1>4 DEF PartOf
  <2>2. Cardinality(below(t)) \in Nat /\ IsFiniteSet(below(t))
    BY <1>0, Finite
  <2>3. t \notin below(t) /\ below(t) \cup {t} \subseteq below(u)
    <3>1. ~(t < t) /\ \A i \in mask : i < t => i < u
      BY <1>0
    <3> QED
      BY <2>1, <3>1
  <2> HIDE DEF below
  <2>4. Cardinality(below(t) \cup {t}) = Cardinality(below(t)) + 1
    BY <2>2, <2>3, FS_AddElement
  <2>5. Cardinality(below(t) \cup {t}) <= Cardinality(below(u))
    BY <1>2, <2>3, FS_Subset
  <2> QED
    BY <1>1, <1>2, <2>1, <2>2, <2>4, <2>5
<1> QED
  BY <1>3, <1>4

\* and no part is left over: there are as many as threads.
LEMMA PartsTaken ==
  ASSUME NEW mask \in SUBSET Slots, NEW part \in 0 .. Parts(mask) - 1
  PROVE  \E t \in mask \cup {0} : PartOf(t, mask) = part
<1> DEFINE S == mask \cup {0}
           T == 0 .. Parts(mask) - 1
           f == [t \in S |-> PartOf(t, mask)]
<1>1. /\ mask \in SUBSET Threads /\ S \in SUBSET Threads /\ 0 \notin mask /\ mask \ {0} = mask
      /\ S \ {0} = mask /\ 0 \in S /\ \A t \in S : t \in Nat
  BY ThreadSets, ShapeAssumption DEF Threads
<1>2. Parts(mask) \in Nat \ {0} /\ \A t \in S : PartOf(t, mask) \in T
  BY <1>1, PartsOfMask
<1>3. IsFiniteSet(T) /\ Cardinality(T) = Parts(mask)
  BY <1>2, FS_Interval
<1>4. Cardinality(S) = Parts(mask)
  <2>1. IsFiniteSet(mask) /\ Cardinality(mask) \in Nat
    BY <1>1, Finite
  <2>2. Cardinality(S) = Cardinality(mask) + 1
    BY <1>1, <2>1, FS_AddElement
  <2> QED
    BY <1>1, <2>2 DEF Parts
<1>5. f \in Injection(S, T)
  <2>1. ASSUME NEW t \in S, NEW u \in S, f[t] = f[u] PROVE t = u
    <3>1. PartOf(t, mask) = PartOf(u, mask) /\ PartOf(t, mask) \in Nat
      BY <1>2, <2>1
    <3>2. ~(t < u) /\ ~(u < t)
      BY <3>1, PartsInOrder
    <3> QED
      BY <1>1, <3>2
  <2>2. f \in [S -> T]
    BY <1>2
  <2> HIDE DEF f, S, T
  <2> QED
    BY <2>1, <2>2 DEF Injection, IsInjective
<1>6. f \in Surjection(S, T)
  <2> HIDE DEF f, S, T
  <2> QED
    BY <1>3, <1>4, <1>5, FS_Injection
<1>7. \E t \in S : f[t] = part
  <2>1. part \in T
    OBVIOUS
  <2> HIDE DEF f, S, T
  <2> QED
    BY <1>6, <2>1 DEF Surjection
<1> QED
  BY <1>7

LEMMA FromInRange ==
  ASSUME NEW mask \in SUBSET Slots, NEW t \in Threads
  PROVE  /\ From(t, mask) \in 0 .. Size /\ Upto(t, mask) \in 0 .. Size
         /\ From(t, mask) \in Nat /\ Upto(t, mask) \in Nat
         /\ From(t, mask) <= Upto(t, mask)
<1>1. Parts(mask) \in Nat \ {0} /\ PartOf(t, mask) \in 0 .. Parts(mask) - 1
  BY PartsOfMask, ThreadSets
<1>2. /\ From(t, mask) \in 0 .. Size /\ Upto(t, mask) \in 0 .. Size
      /\ From(t, mask) <= Upto(t, mask)
  BY <1>1, BoundsInOrder DEF From, Upto
<1> QED
  BY <1>2, ShapeAssumption

LEMMA OwnInRange ==
  ASSUME NEW mask \in SUBSET Slots, NEW t \in Threads
  PROVE  Own(t, mask) \subseteq 0 .. Size - 1
<1> DEFINE from == From(t, mask)
           to == Upto(t, mask)
<1>1. from \in 0 .. Size /\ to \in 0 .. Size
  BY FromInRange
<1> HIDE DEF from, to
<1>2. from .. to - 1 \subseteq 0 .. Size - 1
  BY <1>1, ShapeAssumption
<1> QED
  BY <1>2 DEF Own, from, to

\* A part ends before those after it begin.
LEMMA BoundsApart ==
  ASSUME NEW parts \in Nat \ {0}, NEW a \in Nat, NEW b \in Nat, a < b
  PROVE  Bound(a + 1, parts) <= Bound(b, parts)
<1> DEFINE q == Size \div parts
           m == Size % parts
<1>1. q \in Nat /\ m \in Nat
  BY ShapeAssumption
<1>2. Bound(a + 1, parts) = (a + 1) * q + Lesser(m, a + 1) /\ Bound(b, parts) = b * q + Lesser(m, b)
  BY DEF Bound
<1> HIDE DEF q, m
<1>3. PICK d \in Nat : b = a + 1 + d
  <2>1. b - a - 1 \in Nat /\ b = a + 1 + (b - a - 1)
    OBVIOUS
  <2> QED BY <2>1
<1>4. b * q = (a + 1) * q + d * q /\ d * q \in Nat /\ (a + 1) * q \in Nat
  BY <1>1, <1>3
<1> QED
  BY <1>1, <1>2, <1>3, <1>4 DEF Lesser

\* No iteration is in two parts,
LEMMA OwnedOnce ==
  ASSUME NEW mask \in SUBSET Slots, NEW t \in mask \cup {0}, NEW u \in mask \cup {0}, t # u
  PROVE  Own(t, mask) \cap Own(u, mask) = {}
<1>1. t \in Threads /\ u \in Threads /\ mask \in SUBSET Threads
  BY ThreadSets
<1>2. t < u \/ u < t
  BY <1>1, ShapeAssumption DEF Threads
<1>3. Parts(mask) \in Nat \ {0} /\ PartOf(t, mask) \in Nat /\ PartOf(u, mask) \in Nat
  <2>1. \A s \in Threads : Parts(mask) \in Nat \ {0} /\ PartOf(s, mask) \in 0 .. Parts(mask) - 1
    BY <1>1, PartsOfMask
  <2> QED
    BY <1>1, <2>1
<1>4. Upto(t, mask) <= From(u, mask) \/ Upto(u, mask) <= From(t, mask)
  BY <1>2, <1>3, PartsInOrder, BoundsApart DEF From, Upto
<1>5. /\ From(t, mask) \in Nat /\ Upto(t, mask) \in Nat
      /\ From(u, mask) \in Nat /\ Upto(u, mask) \in Nat
  BY <1>1, FromInRange
<1> QED
  BY <1>4, <1>5 DEF Own

LEMMA Division ==
  ASSUME NEW a \in Nat, NEW b \in Nat \ {0}
  PROVE  a \div b \in Nat /\ (a \div b) * b <= a /\ a < (a \div b) * b + b
OBVIOUS

\* and each is in one: the first m parts have q + 1 iterations, the others q.
LEMMA PartOfIteration ==
  ASSUME NEW n \in Nat \ {0}, NEW k \in 0 .. Size - 1
  PROVE  \E part \in 0 .. n - 1 : Bound(part, n) <= k /\ k < Bound(part + 1, n)
<1> DEFINE q == Size \div n
           m == Size % n
<1>1. q \in Nat /\ m \in 0 .. n - 1 /\ Size = n * q + m /\ k \in Nat /\ k < Size
  BY ShapeAssumption
<1>2. \A t \in Nat : Bound(t, n) = t * q + Lesser(m, t)
  BY DEF Bound
<1> HIDE DEF q, m
<1>3. CASE k < m * (q + 1)
  <2> DEFINE t == k \div (q + 1)
  <2>1. t \in Nat /\ t * (q + 1) <= k /\ k < t * (q + 1) + (q + 1)
    <3>1. q + 1 \in Nat \ {0}
      BY <1>1
    <3>2. k \in Nat
      BY <1>1
    <3> QED
      BY <3>1, <3>2, Division
  <2> HIDE DEF t
  <2>2. t < m
    <3>1. ASSUME m <= t PROVE FALSE
      <4>1. PICK d \in Nat : t = m + d
        <5>1. t - m \in Nat /\ t = m + (t - m)
          BY <1>1, <2>1, <3>1
        <5> QED BY <5>1
      <4>2. t * (q + 1) = m * (q + 1) + d * (q + 1) /\ d * (q + 1) \in Nat /\ m * (q + 1) \in Nat
        BY <1>1, <4>1
      <4> QED
        BY <1>1, <1>3, <2>1, <4>2
    <3> QED
      BY <1>1, <2>1, <3>1
  <2>3. Bound(t, n) = t * q + t /\ Bound(t + 1, n) = (t + 1) * q + (t + 1)
    <3>1. t + 1 \in Nat /\ Lesser(m, t) = t /\ Lesser(m, t + 1) = t + 1
      BY <1>1, <2>1, <2>2 DEF Lesser
    <3> QED
      BY <1>2, <2>1, <3>1
  <2>4. t * (q + 1) = t * q + t /\ (t + 1) * q = t * q + q /\ t * q \in Nat
    BY <1>1, <2>1
  <2>5. Bound(t, n) <= k /\ k < Bound(t + 1, n) /\ Bound(t, n) \in Nat /\ Bound(t + 1, n) \in Nat
    BY <1>1, <2>1, <2>3, <2>4
  <2>6. t \in 0 .. n - 1
    BY <1>1, <2>1, <2>2
  <2> QED
    BY <1>1, <2>5, <2>6
<1>4. CASE ~(k < m * (q + 1))
  <2> DEFINE j == k - m * (q + 1)
             s == j \div q
             t == m + s
  <2>0. m * (q + 1) = m * q + m /\ m * q \in Nat /\ n * q \in Nat
    BY <1>1
  <2>1. j \in Nat /\ k = m * q + m + j
    BY <1>1, <1>4, <2>0
  <2>2. q # 0
    <3>1. ASSUME q = 0 PROVE FALSE
      <4>1. m * q = 0 /\ n * q = 0
        BY <1>1, <3>1
      <4> QED
        BY <1>1, <2>1, <4>1
    <3> QED BY <3>1
  <2> HIDE DEF j
  <2>3. s \in Nat /\ s * q <= j /\ j < s * q + q
    BY <1>1, <2>1, <2>2
  <2> HIDE DEF s
  <2>4. t \in Nat /\ t * q = m * q + s * q /\ (t + 1) * q = t * q + q /\ s * q \in Nat
    BY <1>1, <2>3
  <2>5. Bound(t, n) = t * q + m /\ Bound(t + 1, n) = (t + 1) * q + m
    <3>1. Lesser(m, t) = m /\ Lesser(m, t + 1) = m /\ t + 1 \in Nat
      BY <1>1, <2>3 DEF Lesser
    <3> HIDE DEF t
    <3> QED
      BY <1>2, <2>4, <3>1
  <2>6. Bound(t, n) <= k /\ k < Bound(t + 1, n) /\ Bound(t, n) \in Nat /\ Bound(t + 1, n) \in Nat
    BY <1>1, <2>0, <2>1, <2>3, <2>4, <2>5
  <2>7. t < n
    <3>1. ASSUME n <= t PROVE FALSE
      <4>1. PICK d \in Nat : t = n + d
        <5>1. t - n \in Nat /\ t = n + (t - n)
          BY <1>1, <2>4, <3>1
        <5> QED BY <5>1
      <4>2. t * q = n * q + d * q /\ d * q \in Nat
        BY <1>1, <4>1
      <4> QED
        BY <1>1, <2>0, <2>5, <2>6, <4>2
    <3> QED
      BY <1>1, <2>4, <3>1
  <2>8. t \in 0 .. n - 1
    BY <1>1, <2>4, <2>7
  <2> QED
    BY <1>1, <2>6, <2>8
<1> QED
  BY <1>3, <1>4

LEMMA OwnedByOne ==
  ASSUME NEW mask \in SUBSET Slots, NEW k \in 0 .. Size - 1
  PROVE  \E t \in mask \cup {0} : k \in Own(t, mask)
<1>1. mask \in SUBSET Threads /\ 0 \in Threads
  BY ThreadSets
<1>2. Parts(mask) \in Nat \ {0}
  BY <1>1, PartsOfMask
<1>3. PICK part \in 0 .. Parts(mask) - 1 :
        Bound(part, Parts(mask)) <= k /\ k < Bound(part + 1, Parts(mask))
  BY <1>2, PartOfIteration
<1>4. PICK t \in mask \cup {0} : PartOf(t, mask) = part
  BY PartsTaken
<1>5. From(t, mask) <= k /\ k < Upto(t, mask)
  BY <1>3, <1>4 DEF From, Upto
<1>6. From(t, mask) \in Nat /\ Upto(t, mask) \in Nat
  BY <1>1, FromInRange, ThreadSets
<1>7. k \in From(t, mask) .. Upto(t, mask) - 1
  BY <1>5, <1>6
<1> QED
  BY <1>7 DEF Own

-----------------------------------------------------------------------------
(* How far each thread has come.                                           *)

\* While the mask is out thread t has run its part up to Mark(t); before that
\* no iteration of the loop has run.
Mark(t, mask) ==
  IF pc[t] = "work" THEN work[t].from
  ELSE IF t \in mask \ finish_mask THEN From(t, mask) ELSE Upto(t, mask)
RunUpTo(t, mask) ==
  /\ Mark(t, mask) \in From(t, mask) .. Upto(t, mask)
  /\ pc[t] = "work" => work[t].to = Upto(t, mask)
  /\ \A k \in Own(t, mask) : <<loop, k>> \in ran <=> k < Mark(t, mask)
Progress ==
  /\ ran \subseteq (1 .. loop) \X (0 .. Size - 1)
  /\ pc[0] \in Handing => \A k \in 0 .. Size - 1 : <<loop, k>> \notin ran
  /\ pc[0] \in Out => \A t \in snapshot \cup {0} : RunUpTo(t, snapshot)

LEMMA Fixed ==
  ASSUME NEW t, NEW mask
  PROVE  From(t, mask)' = From(t, mask) /\ Upto(t, mask)' = Upto(t, mask)
         /\ Own(t, mask)' = Own(t, mask)
  BY DEF From, Upto, Own, Bound, Lesser, PartOf, Parts

LEMMA SnapshotType ==
  ASSUME Basic
  PROVE  snapshot \in SUBSET Slots /\ snapshot \cup {0} \subseteq Threads
  BY ThreadSets DEF Basic, TypeOK

\* RunUpTo(t) speaks of Mark(t), the end of t's work, and what has run.
LEMMA SameProgress ==
  ASSUME NEW t, NEW mask, RunUpTo(t, mask), Mark(t, mask)' = Mark(t, mask),
         loop' = loop, ran' = ran, pc'[t] = "work" => work'[t].to = Upto(t, mask)
  PROVE  RunUpTo(t, mask)'
  BY Fixed DEF RunUpTo

\* The mask is out with every bit of finish_mask cleared, and nothing run.
LEMMA SetRunProgress == ASSUME Basic, Phases, Progress, SetRun PROVE Progress'
<1>1. pc[0] = "set_run" /\ pc'[0] = "work" /\ \A i \in Slots : pc'[i] = pc[i]
  BY CallerSteps DEF CallerGoes
<1>2. /\ finish_mask = {} /\ \A i \in Slots : pc[i] # "work"
      /\ \A k \in 0 .. Size - 1 : <<loop, k>> \notin ran
      /\ ran \subseteq (1 .. loop) \X (0 .. Size - 1)
  BY <1>1 DEF Phases, Handing, Out, Progress
<1>3. PICK m \in SUBSET Slots : m = snapshot
  BY SnapshotType
<1>4. /\ loop' = loop /\ ran' = ran /\ finish_mask' = {} /\ snapshot' = m
      /\ work' = [work EXCEPT ![0] = WorkFor(loop, 0, m)]
  BY <1>2, <1>3 DEF SetRun
<1>5. ASSUME NEW t \in m \cup {0} PROVE RunUpTo(t, m)'
  <2>0. t \in Threads
    BY ThreadSets
  <2>1. Mark(t, m)' = From(t, m) /\ (pc'[t] = "work" => work'[t].to = Upto(t, m))
    <3>1. CASE t = 0
      <4>1. WorkFor(loop, 0, m) = [of |-> loop, from |-> From(0, m), to |-> Upto(0, m)]
        BY SameWork
      <4>2. work'[0] = [of |-> loop, from |-> From(0, m), to |-> Upto(0, m)]
        BY <1>4, <4>1, ThreadSets DEF Basic, TypeOK
      <4>3. work'[0].from = From(0, m) /\ work'[0].to = Upto(0, m)
        BY <4>2
      <4> QED
        BY <1>1, <3>1, <4>3 DEF Mark
    <3>2. CASE t # 0
      <4>1. pc'[t] # "work" /\ t \in m
        BY <1>1, <1>2, <3>2
      <4> QED
        BY <1>4, <4>1, Fixed DEF Mark
    <3> QED
      BY <3>1, <3>2
  <2>2. From(t, m) \in From(t, m) .. Upto(t, m)
    BY <2>0, FromInRange
  <2>3. \A k \in Own(t, m) : <<loop, k>> \notin ran /\ ~(k < From(t, m))
    <3>1. ASSUME NEW k \in Own(t, m) PROVE <<loop, k>> \notin ran /\ ~(k < From(t, m))
      <4>1. k \in 0 .. Size - 1
        BY <2>0, OwnInRange
      <4>2. ~(k < From(t, m))
        BY <2>0, FromInRange DEF Own
      <4> QED
        BY <1>2, <4>1, <4>2
    <3> QED
      BY <3>1
  <2> QED
    BY <1>4, <2>1, <2>2, <2>3, Fixed DEF RunUpTo
<1> QED
  BY <1>1, <1>2, <1>4, <1>5 DEF Progress, Handing

\* The caller's own part is over when it has come to its end.
LEMMA OwnPartProgress == ASSUME Basic, Phases, Progress, OwnPartDone PROVE Progress'
<1>1. /\ pc[0] = "work" /\ pc'[0] = "wait" /\ \A i \in Slots : pc'[i] = pc[i]
      /\ loop' = loop /\ ran' = ran /\ finish_mask' = finish_mask /\ snapshot' = snapshot
      /\ work' = [work EXCEPT ![0] = NoWork] /\ work[0].from = work[0].to
  BY CallerSteps DEF OwnPartDone, CallerGoes, shared
<1>2. PICK m \in SUBSET Slots : m = snapshot
  BY SnapshotType
<1>3. \A t \in m \cup {0} : RunUpTo(t, m)
  BY <1>1, <1>2 DEF Progress, Out
<1>4. ASSUME NEW t \in m \cup {0}
      PROVE  Mark(t, m)' = Mark(t, m) /\ (pc'[t] = "work" => work'[t].to = Upto(t, m))
  <2>1. CASE t = 0
    <3>1. work[0].to = Upto(0, m) /\ 0 \notin m
      BY <1>1, <1>3, ThreadSets DEF RunUpTo
    <3> QED
      BY <1>1, <2>1, <3>1, Fixed DEF Mark
  <2>2. CASE t # 0
    <3>1. work'[t] = work[t] /\ t \in Slots
      BY <1>1, <2>2, ThreadSets DEF Basic, TypeOK
    <3> QED
      BY <1>1, <1>3, <3>1, Fixed DEF Mark, RunUpTo
  <2> QED
    BY <2>1, <2>2
<1>5. \A t \in m \cup {0} : RunUpTo(t, m)'
  BY <1>1, <1>3, <1>4, SameProgress
<1> QED
  BY <1>1, <1>2, <1>5 DEF Progress, Handing

LEMMA CallerProgress == ASSUME Basic, Phases, Progress, Calling PROVE Progress'
<1>0. ran \subseteq (1 .. loop) \X (0 .. Size - 1) /\ loop \in Nat
  BY ShapeAssumption DEF Progress, Basic, TypeOK
<1>1. CASE SpreadWork
  <2>1. loop' = loop + 1 /\ ran' = ran /\ pc'[0] = "set_func"
    BY <1>1, CallerSteps DEF SpreadWork, CallerGoes
  <2>2. /\ ran' \subseteq (1 .. loop') \X (0 .. Size - 1)
        /\ \A k \in 0 .. Size - 1 : <<loop', k>> \notin ran'
    <3>1. loop \in Nat /\ loop' = loop + 1
      BY <1>0, <2>1
    <3>2. 1 .. loop \subseteq 1 .. loop' /\ loop' \notin 1 .. loop
      BY ONLY <3>1
    <3> QED
      BY <1>0, <2>1, <3>2
  <2> QED
    BY <2>1, <2>2 DEF Progress, Out
<1>2. CASE SetFunc \/ SetEpoch \/ TakeSnapshot \/ ResetFinish
  <2>1. pc[0] \in Handing /\ pc'[0] \in Handing
    BY <1>2, CallerSteps DEF CallerGoes, Handing
  <2>2. loop' = loop /\ ran' = ran
    BY <1>2 DEF SetFunc, SetEpoch, TakeSnapshot, ResetFinish
  <2> QED
    BY <2>1, <2>2 DEF Progress, Handing, Out
<1>3. CASE Return \/ Stop \/ ClearRun \/ Wake \/ WaitForTasks
  <2>1. pc'[0] \notin Handing /\ pc'[0] \notin Out
    BY <1>3, CallerSteps DEF CallerGoes, Handing, Out
  <2>2. loop' = loop /\ ran' = ran
    BY <1>3 DEF Return, Stop, ClearRun, Wake, WaitForTasks
  <2> QED
    BY <1>0, <2>1, <2>2 DEF Progress
<1> QED
  BY <1>1, <1>2, <1>3, SetRunProgress, OwnPartProgress DEF Calling

\* A slot's part is its own from the call on, and over when its bit is set.
LEMMA TrapperProgress ==
  ASSUME Basic, Phases, Progress, NEW i \in Slots, Trapping(i) PROVE Progress'
<1>0. i \in Threads /\ i # 0 /\ SlotFrame(i) /\ SlotWork(i)
  BY ThreadSets, TrapperFrame, TrapperWork
<1>1. loop' = loop /\ ran' = ran /\ pc'[0] = pc[0] /\ snapshot' = snapshot
  BY <1>0 DEF SlotFrame
<1>2. CASE pc[0] \notin Out
  BY <1>1, <1>2 DEF Progress
<1>3. CASE pc[0] \in Out
  <2>1. PICK m \in SUBSET Slots : m = snapshot
    BY SnapshotType
  <2>2. func_ptr = loop /\ Sharing(i) /\ \A t \in m \cup {0} : RunUpTo(t, m)
    BY <1>3, <2>1 DEF Basic, Called, Phases, Progress
  <2>3. ASSUME i \in m
        PROVE  Mark(i, m)' = Mark(i, m) /\ (pc'[i] = "work" => work'[i].to = Upto(i, m))
    <3>1. CASE Call(i)
      <4>1. pc[i] = "call" /\ pc'[i] = "work"
        BY <3>1, TrapperSteps DEF TrapperPlaces
      <4>2. i \in m \ finish_mask /\ r[i] = m \cup {0}
        BY <2>1, <2>2, <4>1 DEF Sharing
      <4>3. WorkFor(func_ptr, i, r[i]) = [of |-> loop, from |-> From(i, m), to |-> Upto(i, m)]
        BY <2>2, <4>2, SameWork
      <4>4. work'[i] = [of |-> loop, from |-> From(i, m), to |-> Upto(i, m)]
        BY <1>0, <3>1, <4>3 DEF Call, Basic, TypeOK
      <4>5. work'[i].from = From(i, m) /\ work'[i].to = Upto(i, m)
        BY <4>4
      <4> QED
        BY <4>1, <4>2, <4>5, Fixed DEF Mark
    <3>2. CASE Finish(i)
      <4>1. pc[i] = "work" /\ pc'[i] = "epoch" /\ i \in finish_mask' /\ work[i].from = work[i].to
        BY <3>2, TrapperSteps DEF Finish, TrapperPlaces
      <4>2. work[i].to = Upto(i, m)
        BY <2>2, <2>3, <4>1 DEF RunUpTo
      <4> QED
        BY <4>1, <4>2, Fixed DEF Mark
    <3>3. CASE ~Call(i) /\ ~Finish(i)
      <4>1. finish_mask' = finish_mask /\ pc'[i] # "work"
        BY <1>0, <3>3 DEF SlotWork
      <4>2. pc[i] # "work"
        BY <3>3, TrapperSteps DEF Trapping, TrapperPlaces
      <4> QED
        BY <4>1, <4>2, Fixed DEF Mark
    <3> QED
      BY <3>1, <3>2, <3>3
  <2>4. ASSUME NEW t \in m \cup {0}, t # i
        PROVE  Mark(t, m)' = Mark(t, m) /\ (pc'[t] = "work" => work'[t].to = Upto(t, m))
    <3>1. pc'[t] = pc[t] /\ work'[t] = work[t]
      BY <1>0, <2>4 DEF SlotFrame
    <3>2. t \in m \ finish_mask' <=> t \in m \ finish_mask
      BY <1>0, <2>4, ThreadSets DEF SlotFrame
    <3> QED
      BY <2>2, <3>1, <3>2, Fixed DEF Mark, RunUpTo
  <2>5. i \in m => RunUpTo(i, m)'
    BY <1>1, <2>2, <2>3, SameProgress
  <2>6. \A t \in m \cup {0} : t # i => RunUpTo(t, m)'
    BY <1>1, <2>2, <2>4, SameProgress
  <2>7. \A t \in m \cup {0} : RunUpTo(t, m)'
    BY <1>0, <2>5, <2>6
  <2> QED
    BY <1>1, <1>3, <2>1, <2>7 DEF Progress, Handing, Out
<1> QED
  BY <1>2, <1>3

\* A part goes on by one iteration, which is in no other part.
LEMMA RunProgress ==
  ASSUME Basic, Phases, Progress, NEW t \in Threads, RunOne(t) PROVE Progress'
<1>1. /\ pc[t] = "work" /\ work[t].from < work[t].to /\ work[t].of = loop
      /\ pc[0] \in Out /\ loop \in 1 .. Loops
  BY OnlyOut DEF RunOne
<1>2. /\ loop' = loop /\ pc' = pc /\ finish_mask' = finish_mask /\ snapshot' = snapshot
      /\ work' = [work EXCEPT ![t].from = @ + 1]
      /\ ran' = ran \cup {<<loop, work[t].from>>}
  BY <1>1 DEF RunOne, shared
<1>3. work \in [Threads -> [of : 0 .. Loops, from : 0 .. Size, to : 0 .. Size]]
  BY DEF Basic, TypeOK
<1>4. PICK m \in SUBSET Slots : m = snapshot
  BY SnapshotType
<1>5. t \in m \cup {0} /\ \A u \in m \cup {0} : RunUpTo(u, m)
  BY <1>1, <1>4, ThreadSets DEF Progress, Phases, Sharing
<1>6. /\ Mark(t, m) = work[t].from /\ work[t].to = Upto(t, m)
      /\ Mark(t, m) \in From(t, m) .. Upto(t, m)
      /\ \A k \in Own(t, m) : <<loop, k>> \in ran <=> k < Mark(t, m)
  BY <1>1, <1>5 DEF Mark, RunUpTo
<1>7. /\ From(t, m) \in Nat /\ Upto(t, m) \in Nat /\ Mark(t, m) \in Nat
      /\ Mark(t, m) < Upto(t, m) /\ From(t, m) <= Mark(t, m)
  BY <1>1, <1>6, FromInRange
<1>8. Mark(t, m) \in Own(t, m)
  BY <1>7 DEF Own
<1>9. RunUpTo(t, m)'
  <2>1. work'[t].from = work[t].from + 1 /\ work'[t].to = work[t].to
    BY <1>2, <1>3
  <2>2. Mark(t, m)' = Mark(t, m) + 1
    BY <1>1, <1>2, <1>6, <2>1 DEF Mark
  <2>3. \A k \in Own(t, m) : <<loop, k>> \in ran' <=> k < Mark(t, m) + 1
    <3>1. ASSUME NEW k \in Own(t, m) PROVE <<loop, k>> \in ran' <=> k < Mark(t, m) + 1
      <4>1. k \in Nat
        BY <1>7 DEF Own
      <4>2. k < Mark(t, m) + 1 <=> k < Mark(t, m) \/ k = Mark(t, m)
        BY <1>7, <4>1
      <4> QED
        BY <1>2, <1>6, <4>2
    <3> QED
      BY <3>1
  <2>4. Mark(t, m) + 1 \in From(t, m) .. Upto(t, m)
    BY <1>7
  <2> QED
    BY <1>2, <1>6, <2>1, <2>2, <2>3, <2>4, Fixed DEF RunUpTo
<1>10. ASSUME NEW u \in m \cup {0}, u # t PROVE RunUpTo(u, m)'
  <2>1. Mark(t, m) \notin Own(u, m)
    BY <1>5, <1>8, <1>10, OwnedOnce
  <2>2. work'[u] = work[u]
    BY <1>2, <1>3, <1>10, ThreadSets
  <2>3. Mark(u, m)' = Mark(u, m)
    <3>1. pc' = pc /\ finish_mask' = finish_mask
      BY <1>2
    <3> QED
      BY <2>2, <3>1, Fixed DEF Mark
  <2>4. \A k \in Own(u, m) : <<loop, k>> \in ran' <=> <<loop, k>> \in ran
    BY <1>2, <1>6, <2>1
  <2> QED
    BY <1>2, <1>5, <2>2, <2>3, <2>4, Fixed DEF RunUpTo
<1>11. ran' \subseteq (1 .. loop) \X (0 .. Size - 1)
  <2>1. Mark(t, m) \in 0 .. Size - 1
    BY <1>8, OwnInRange
  <2>2. loop \in 1 .. loop
    BY <1>1, ShapeAssumption
  <2>3. ran \subseteq (1 .. loop) \X (0 .. Size - 1)
    BY DEF Progress
  <2>4. <<loop, Mark(t, m)>> \in (1 .. loop) \X (0 .. Size - 1)
    BY <2>1, <2>2
  <2>5. ran' = ran \cup {<<loop, Mark(t, m)>>}
    BY <1>2, <1>6
  <2> QED
    BY <2>3, <2>4, <2>5
<1>12. \A u \in m \cup {0} : RunUpTo(u, m)'
  BY <1>9, <1>10
<1> QED
  BY <1>1, <1>2, <1>4, <1>11, <1>12 DEF Progress, Handing, Out

LEMMA ProgressStep ==
  ASSUME Basic, Phases, Progress, [Next]_vars PROVE Progress'
<1>1. ASSUME UNCHANGED vars PROVE Progress'
  <2>1. PICK m \in SUBSET Slots : m = snapshot
    BY SnapshotType
  <2>2. /\ pc' = pc /\ loop' = loop /\ ran' = ran /\ work' = work /\ finish_mask' = finish_mask
        /\ snapshot' = snapshot
    BY <1>1 DEF vars, shared
  <2>3. \A t : Mark(t, m)' = Mark(t, m)
    BY <2>2, Fixed DEF Mark
  <2>4. pc[0] \in Out => \A t \in m \cup {0} : RunUpTo(t, m)'
    BY <2>1, <2>2, <2>3, SameProgress DEF Progress, RunUpTo
  <2> QED
    BY <2>1, <2>2, <2>4 DEF Progress
<1> QED
  BY <1>1, CallerProgress, TrapperProgress, RunProgress, NextSteps

IInv == Always /\ (torn = {} => Phases /\ Progress)

\* The invariant: what always holds, and the phases and how far the threads have
\* come for as long as no first look is torn.
THEOREM InvAlways == Spec => []IInv
<1>1. Init => IInv
  <2> SUFFICES ASSUME Init PROVE IInv
    OBVIOUS
  <2>1. ran = {} /\ pc[0] = "idle"
    BY ThreadSets DEF Init
  <2>2. Progress
    BY <2>1 DEF Progress, Handing, Out
  <2> QED
    BY <2>2, InitWhole DEF IInv, Whole, Always
<1>2. IInv /\ [Next]_vars => IInv'
  <2> SUFFICES ASSUME IInv, [Next]_vars PROVE IInv'
    OBVIOUS
  <2>1. Whole /\ Basic
    BY DEF IInv, Whole, Always
  <2>2. Whole'
    BY <2>1, WholeStep
  <2>3. ASSUME torn' = {} PROVE Progress'
    <3>1. Phases /\ Progress
      BY <2>1, <2>3, TornStays DEF IInv
    <3> QED
      BY <2>1, <3>1, ProgressStep
  <2> QED
    BY <2>2, <2>3 DEF IInv, Whole
<1> QED
  BY <1>1, <1>2, PTL DEF Spec

\* Once the mask is out, each iteration has run or is in the part of exactly
\* one thread, that works on it or has yet to begin, unless a first look was torn.
THEOREM OnePlace == Spec => []OnePlaceEach
<1>1. IInv => OnePlaceEach
  <2> SUFFICES ASSUME IInv, torn = {}, pc[0] \in Out, NEW k \in 0 .. Size - 1
               PROVE  Cardinality({t \in Threads : k \in Left(t)})
                        = IF <<loop, k>> \in ran THEN 0 ELSE 1
    BY DEF OnePlaceEach, Out
  <2>0. Basic /\ Phases
    BY DEF IInv, Always
  <2>1. PICK m \in SUBSET Slots : m = snapshot
    BY <2>0, SnapshotType
  <2>2. /\ \A t \in m \cup {0} : RunUpTo(t, m)
        /\ 0 \notin m /\ 0 \in Threads /\ m \cup {0} \subseteq Threads
    BY <2>1, ThreadSets DEF IInv, Progress
  <2>3. ASSUME NEW t \in m \cup {0}
        PROVE  k \in Left(t) <=> k \in Own(t, m) /\ <<loop, k>> \notin ran
    <3>1. /\ Mark(t, m) \in Nat /\ From(t, m) \in Nat /\ Upto(t, m) \in Nat /\ k \in Nat
          /\ From(t, m) <= Mark(t, m) /\ Mark(t, m) <= Upto(t, m)
          /\ k \in Own(t, m) => (<<loop, k>> \in ran <=> k < Mark(t, m))
          /\ pc[t] = "work" => work[t].to = Upto(t, m)
      <4>1. From(t, m) \in Nat /\ Upto(t, m) \in Nat
        BY <2>2, FromInRange
      <4> QED
        BY <2>2, <4>1, ShapeAssumption DEF RunUpTo
    <3>2. k \in Left(t) <=> k \in Mark(t, m) .. Upto(t, m) - 1
      <4>1. CASE pc[t] = "work"
        BY <3>1, <4>1 DEF Left, Mark
      <4>2. CASE pc[t] # "work" /\ t \in m \ finish_mask
        <5>1. WorkFor(loop, t, m) = [of |-> loop, from |-> From(t, m), to |-> Upto(t, m)]
          BY SameWork
        <5>2. Left(t) = From(t, m) .. Upto(t, m) - 1
          BY <2>1, <4>2, <5>1 DEF Left
        <5> QED
          BY <4>2, <5>2 DEF Mark
      <4>3. CASE pc[t] # "work" /\ t \notin m \ finish_mask
        <5>1. Left(t) = {} /\ Mark(t, m) = Upto(t, m)
          BY <2>1, <4>3 DEF Left, Mark
        <5> QED
          BY <3>1, <5>1
      <4> QED
        BY <4>1, <4>2, <4>3
    <3> QED
      BY <3>1, <3>2 DEF Own
  <2>4. ASSUME NEW t \in Threads, t \notin m \cup {0} PROVE k \notin Left(t)
    <3>1. pc[t] # "work"
      BY <2>0, <2>1, <2>4, ThreadSets DEF Phases, Sharing
    <3> QED
      BY <2>1, <2>4, <3>1 DEF Left
  <2>5. PICK u \in m \cup {0} : k \in Own(u, m)
    BY OwnedByOne
  <2>6. \A t \in m \cup {0} : k \in Own(t, m) <=> t = u
    BY <2>5, OwnedOnce
  <2>7. CASE <<loop, k>> \in ran
    <3>1. {t \in Threads : k \in Left(t)} = {}
      BY <2>3, <2>4, <2>7
    <3> QED
      BY <2>7, <3>1, FS_EmptySet
  <2>8. CASE <<loop, k>> \notin ran
    <3>1. \A t \in Threads : k \in Left(t) <=> t = u
      BY <2>3, <2>4, <2>6, <2>8
    <3>2. {t \in Threads : k \in Left(t)} = {u}
      BY <2>2, <2>5, <3>1
    <3> QED
      BY <2>8, <3>2, FS_Singleton
  <2> QED
    BY <2>7, <2>8
<1> QED
  BY <1>1, InvAlways, PTL

-----------------------------------------------------------------------------
(* RapidStart implements ParallelLoops.                                    *)

sizes == [l \in 1 .. loop |-> Size]

LEMMA InitLoops == Init => L!PInit
<1> SUFFICES ASSUME Init PROVE L!PInit
  OBVIOUS
<1>1. loop = 0 /\ ran = {} /\ ended = {}
  BY DEF Init
<1>2. 1 .. loop = {}
  BY <1>1
<1>3. sizes = [l \in {} |-> 0]
  BY <1>2 DEF sizes
<1> QED
  BY <1>1, <1>3 DEF L!PInit, sizes

\* A loop is spread,
LEMMA BeginStep == ASSUME Basic, SpreadWork PROVE L!PNext
<1>0. loop \in Nat
  BY ShapeAssumption DEF Basic, TypeOK
<1>1. loop' = loop + 1 /\ ran' = ran /\ ended' = ended
  BY DEF SpreadWork
<1>2. 1 .. loop' = (1 .. loop) \cup {loop'} /\ loop' \notin 1 .. loop
  BY <1>0, <1>1
<1>3. sizes'[loop'] = Size
  BY <1>2 DEF sizes
<1>4. sizes' = [k \in DOMAIN sizes \cup {loop'} |->
                  IF k = loop' THEN sizes'[loop'] ELSE sizes[k]]
  BY <1>2, <1>3 DEF sizes
<1>5. loop' \in DOMAIN sizes' \ DOMAIN sizes
  BY <1>2 DEF sizes
<1> QED
  BY <1>1, <1>3, <1>4, <1>5, ShapeAssumption DEF L!PNext, L!Begin, sizes

\* an iteration runs that has not run before,
LEMMA RunStep ==
  ASSUME Basic, Phases, Progress, NEW t \in Threads, RunOne(t) PROVE L!PNext
<1>1. /\ loop' = loop /\ ended' = ended /\ pc[t] = "work" /\ work[t].from < work[t].to
      /\ work[t].of = loop /\ pc[0] \in Out /\ loop \in 1 .. Loops /\ loop \notin ended
  BY OnlyOut DEF RunOne
<1>2. ran' = ran \cup {<<loop, work[t].from>>}
  BY <1>1 DEF RunOne
<1>3. PICK m \in SUBSET Slots : m = snapshot
  BY SnapshotType
<1>4. t \in m \cup {0} /\ \A u \in m \cup {0} : RunUpTo(u, m)
  BY <1>1, <1>3, ThreadSets DEF Progress, Phases, Sharing
<1>5. Mark(t, m) = work[t].from /\ RunUpTo(t, m)
  BY <1>1, <1>4 DEF Mark
<1>6. From(t, m) \in Nat /\ Upto(t, m) \in Nat
  BY FromInRange
<1>7. work[t].from \in Own(t, m) /\ work[t].from \in Nat
  BY <1>1, <1>5, <1>6 DEF RunUpTo, Own
<1>8. <<loop, work[t].from>> \notin ran
  <2>1. ~(work[t].from < work[t].from)
    BY <1>7
  <2> QED
    BY <1>5, <1>7, <2>1 DEF RunUpTo
<1>9. work[t].from \in 0 .. Size - 1 /\ loop \in 1 .. loop
  BY <1>1, <1>7, OwnInRange, ShapeAssumption
<1>10. /\ loop \in DOMAIN sizes \ ended
       /\ <<loop, work[t].from>> \in {loop} \X (0 .. sizes[loop] - 1)
  BY <1>1, <1>9 DEF sizes
<1> QED
  BY <1>1, <1>2, <1>8, <1>10 DEF L!PNext, L!Run, L!Iterations, sizes

\* and the call returns when every slot of the snapshot has come to the end of
\* its part.
LEMMA EndStep == ASSUME Basic, Phases, Progress, Return PROVE L!PNext
<1>1. /\ loop' = loop /\ ran' = ran /\ ended' = ended \cup {loop} /\ finish_mask = snapshot
      /\ pc[0] = "wait"
  BY DEF Return, Caller
<1>2. PICK m \in SUBSET Slots : m = snapshot
  BY SnapshotType
<1>3. \A t \in m \cup {0} : RunUpTo(t, m) /\ pc[t] # "work"
  BY <1>1, <1>2 DEF Progress, Phases, Sharing, Resting, Out
<1>4. loop \in 1 .. loop /\ loop \notin ended
  BY <1>1, ShapeAssumption DEF Basic, TypeOK, Called, Out
<1>5. ASSUME NEW k \in 0 .. Size - 1 PROVE <<loop, k>> \in ran
  <2>1. PICK u \in m \cup {0} : k \in Own(u, m)
    BY OwnedByOne
  <2>2. Mark(u, m) = Upto(u, m)
    BY <1>1, <1>2, <1>3 DEF Mark
  <2>3. k < Upto(u, m)
    <3>1. From(u, m) \in Nat /\ Upto(u, m) \in Nat
      BY FromInRange, ThreadSets
    <3> QED
      BY <2>1, <3>1 DEF Own
  <2> QED
    BY <1>3, <2>1, <2>2, <2>3 DEF RunUpTo
<1>6. loop \in DOMAIN sizes \ ended /\ {loop} \X (0 .. sizes[loop] - 1) \subseteq ran
  BY <1>4, <1>5 DEF sizes
<1> QED
  BY <1>1, <1>6 DEF L!PNext, L!End, L!Iterations, sizes

\* The other steps touch nothing of this.
LEMMA LoopStep == IInv /\ [Next]_vars => [torn' = {} => L!PNext]_(L!pvars)
<1> SUFFICES ASSUME IInv, [Next]_vars, torn' = {} PROVE [L!PNext]_(L!pvars)
  OBVIOUS
<1>0. Basic /\ Phases /\ Progress
  BY TornStays DEF IInv, Always
<1>1. ASSUME loop' = loop, ran' = ran, ended' = ended PROVE UNCHANGED L!pvars
  BY <1>1 DEF L!pvars
<1>2. CASE Calling
  <2>1. SpreadWork \/ Return \/ (loop' = loop /\ ran' = ran /\ ended' = ended)
    BY <1>2 DEF Calling, SetFunc, SetEpoch, TakeSnapshot, ResetFinish, SetRun, OwnPartDone, Stop,
                ClearRun, Wake, WaitForTasks, shared
  <2> QED
    BY <1>0, <1>1, <2>1, BeginStep, EndStep
<1>3. ASSUME NEW t \in Threads, RunOne(t) PROVE L!PNext
  BY <1>0, <1>3, RunStep
<1>4. ASSUME NEW i \in Slots, Trapping(i) PROVE UNCHANGED L!pvars
  BY <1>0, <1>1, <1>4, TrapperFrame DEF SlotFrame
<1>5. ASSUME UNCHANGED vars PROVE UNCHANGED L!pvars
  BY <1>1, <1>5 DEF vars
<1> QED
  BY <1>2, <1>3, <1>4, <1>5, NextSteps

\* parallel_ranges returns when each iteration has run, once, until the first
\* look of a slot is torn.
THEOREM Implements == Spec => ImplementsLoops
<1>1. Spec => [][torn' = {} => L!PNext]_(L!pvars)
  BY InvAlways, LoopStep, PTL DEF Spec
<1> QED
  BY InitLoops, <1>1, PTL DEF Spec, ImplementsLoops
=============================================================================
