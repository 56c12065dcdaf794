------------------------------ MODULE Kernels ------------------------------
(***************************************************************************)
(* Two kernels of include/benchmarks/ that are a sequence of parallel      *)
(* loops: the prefix sum of scan.h and the transposition of spmv.h.  The   *)
(* iterations of a loop run on any threads, at the same time; the next     *)
(* loop begins when the call of the one before has returned.               *)
(***************************************************************************)
EXTENDS Integers, FiniteSets

CONSTANTS Jobs,    \* the kernels to run, and on what
          Workers  \* how many iterations may run at the same time

IsScan(j) == j.kernel = "scan" /\ j.size_pow \in Nat
IsTranspose(j) == j.kernel = "transpose" /\ {j.rows, j.columns, j.blocks} \subseteq Nat \ {0}

ASSUME JobsAssumption == Workers \in Nat \ {0} /\ \A j \in Jobs : IsScan(j) \/ IsTranspose(j)

VARIABLES job,
          at, d,  \* the loop that runs: its kind, and its level in a scan
          todo,   \* its iterations that have not begun
          doing,  \* its iterations under way
          data    \* the vector, or the output matrix
vars == <<job, at, d, todo, doing, data>>

Fewer(a, b) == IF a <= b THEN a ELSE b
Ceil(a, b) == (a + b - 1) \div b

-----------------------------------------------------------------------------
(* Scan: in iteration i of a sweep at level d, mid and last are the ends   *)
(* of the halves of its segment.  Element k of the vector is 2^k at first, *)
(* so that every sum tells what was added.                                 *)

size == 2 ^ job.size_pow
Shift(level) == 2 ^ (level + 1)
Segments(level) == 0 .. Ceil(size, Shift(level)) - 1
Mid(i) == i * Shift(d) + Shift(d) \div 2 - 1
\* Mutant: off by one.
EndNext(i) == i * Shift(d) + Shift(d)
End(i) == i * Shift(d) + Shift(d) - 1

Over(x) == doing' = doing \ {x}
Becomes(x, y) == doing' = (doing \ {x}) \cup {y}

\* data[last] += data[mid]
UpSweep(x) ==
  /\ at = "up"
  /\ IF End(x.i) < size
     THEN CASE x.step = "load" -> Becomes(x, [x EXCEPT !.step = "add", !.t = data[Mid(x.i)]])
                                  /\ UNCHANGED data
            [] x.step = "add"  -> Over(x) /\ data' = [data EXCEPT ![End(x.i)] = @ + x.t]
     ELSE Over(x) /\ UNCHANGED data
  /\ UNCHANGED <<job, at, d, todo>>

\* t = data[mid]; data[mid] = data[last]; data[last] += t
DownSweep(x) ==
  /\ at = "down"
  /\ CASE x.step = "load" -> /\ IF End(x.i) < size
                                THEN Becomes(x, [x EXCEPT !.step = "copy", !.t = data[Mid(x.i)]])
                                ELSE Over(x)
                             /\ UNCHANGED data
       [] x.step = "copy" -> /\ Becomes(x, [x EXCEPT !.step = "add"])
                             /\ data' = [data EXCEPT ![Mid(x.i)] = data[End(x.i)]]
       [] x.step = "add"  -> Over(x) /\ data' = [data EXCEPT ![End(x.i)] = @ + x.t]
  /\ UNCHANGED <<job, at, d, todo>>

Loop(kind, level, iterations) == at' = kind /\ d' = level /\ todo' = iterations
\* Mutant: the next loop begins when every iteration has begun.
NextSweepEarly ==
  /\ job.kernel = "scan" /\ todo = {}
  /\ \/ /\ at = "up" /\ d + 1 < job.size_pow
        /\ Loop("up", d + 1, Segments(d + 1)) /\ UNCHANGED data
     \/ /\ at = "up" /\ d + 1 >= job.size_pow
        /\ Loop("down", job.size_pow, Segments(job.size_pow))
        /\ data' = [data EXCEPT ![size - 1] = 0]
     \/ /\ at = "down" /\ d > 0
        /\ Loop("down", d - 1, Segments(d - 1)) /\ UNCHANGED data
     \/ /\ at = "down" /\ d = 0
        /\ Loop("end", 0, {}) /\ UNCHANGED data
  /\ UNCHANGED <<job, doing>>

\* Up to the level of the whole vector; data.back() = 0; and down again.
NextSweep ==
  /\ job.kernel = "scan" /\ todo = {} /\ doing = {}
  /\ \/ /\ at = "up" /\ d + 1 < job.size_pow
        /\ Loop("up", d + 1, Segments(d + 1)) /\ UNCHANGED data
     \/ /\ at = "up" /\ d + 1 >= job.size_pow
        /\ Loop("down", job.size_pow, Segments(job.size_pow))
        /\ data' = [data EXCEPT ![size - 1] = 0]
     \/ /\ at = "down" /\ d > 0
        /\ Loop("down", d - 1, Segments(d - 1)) /\ UNCHANGED data
     \/ /\ at = "down" /\ d = 0
        /\ Loop("end", 0, {}) /\ UNCHANGED data
  /\ UNCHANGED <<job, doing>>

-----------------------------------------------------------------------------
(* TransposeMatrix: the rows and the columns are cut into at most blocks   *)
(* parts of one length; the loop over the parts of the rows calls one over *)
(* those of the columns, so the blocks of the matrix are the iterations.   *)

BlockRows == Fewer(job.blocks, job.rows)
BlockColumns == Fewer(job.blocks, job.columns)
BlockRowSize == Ceil(job.rows, BlockRows)
BlockColumnSize == Ceil(job.columns, BlockColumns)
FromRow(b) == b[1] * BlockRowSize
FromColumn(b) == b[2] * BlockColumnSize
\* Mutant: the last part is as long as the others.
ToRowUncut(b) == FromRow(b) + BlockRowSize
ToRow(b) == Fewer(job.rows, FromRow(b) + BlockRowSize)
ToColumn(b) == Fewer(job.columns, FromColumn(b) + BlockColumnSize)
Blocks == (0 .. BlockRows - 1) \X (0 .. BlockColumns - 1)

\* out.Data[j][i] = input.Data[i][j]; outside the matrix nothing is defined.
CopyCell(x) ==
  /\ at = "blocks" /\ x.row # ToRow(x.i) /\ x.column # ToColumn(x.i)
  /\ <<x.column, x.row>> \in DOMAIN data
  /\ data' = [data EXCEPT ![<<x.column, x.row>>] = <<x.row, x.column>>]
  /\ Becomes(x, [x EXCEPT !.column = @ + 1])
  /\ UNCHANGED <<job, at, d, todo>>

RowCopied(x) ==
  /\ at = "blocks" /\ x.row # ToRow(x.i) /\ x.column = ToColumn(x.i)
  /\ Becomes(x, [x EXCEPT !.row = @ + 1, !.column = FromColumn(x.i)])
  /\ UNCHANGED <<job, at, d, todo, data>>

BlockCopied(x) ==
  /\ at = "blocks" /\ x.row = ToRow(x.i)
  /\ Over(x)
  /\ UNCHANGED <<job, at, d, todo, data>>

Transposed ==
  /\ at = "blocks" /\ todo = {} /\ doing = {}
  /\ Loop("end", 0, {})
  /\ UNCHANGED <<job, doing, data>>

-----------------------------------------------------------------------------
Iteration(i) ==
  IF job.kernel = "scan" THEN [i |-> i, step |-> "load", t |-> 0]
  ELSE [i |-> i, row |-> FromRow(i), column |-> FromColumn(i)]

Begin(i) ==
  /\ Cardinality(doing) < Workers
  /\ todo' = todo \ {i} /\ doing' = doing \cup {Iteration(i)}
  /\ UNCHANGED <<job, at, d, data>>

Unwritten == <<>>
Init ==
  /\ job \in Jobs
  /\ d = 0 /\ doing = {}
  /\ IF job.kernel = "scan"
     THEN /\ at = "up" /\ todo = IF job.size_pow = 0 THEN {} ELSE Segments(0)
          /\ data = [k \in 0 .. size - 1 |-> 2 ^ k]
     ELSE /\ at = "blocks" /\ todo = Blocks
          /\ data = [c \in (0 .. job.columns - 1) \X (0 .. job.rows - 1) |-> Unwritten]

Run(x) == UpSweep(x) \/ DownSweep(x) \/ CopyCell(x) \/ RowCopied(x) \/ BlockCopied(x)
Ended == at = "end" /\ UNCHANGED vars
Next ==
  \/ \E i \in todo : Begin(i)
  \/ \E x \in doing : Run(x)
  \/ NextSweep \/ Transposed \/ Ended

Spec == Init /\ [][Next]_vars

-----------------------------------------------------------------------------
\* An iteration touches only elements of the vector and cells of the matrices,
\* whatever their size: the loops over a block end at its end, and the element a
\* down-sweep reads before it looks at the size of the vector is there.
Cells(i) ==
  IF at = "blocks" THEN (FromRow(i) .. ToRow(i) - 1) \X (FromColumn(i) .. ToColumn(i) - 1)
  ELSE {Mid(i)} \cup (IF End(i) < size THEN {End(i)} ELSE {})
InData == \A x \in doing :
  IF at # "blocks" THEN Cells(x.i) \subseteq DOMAIN data
  ELSE x.row # ToRow(x.i) /\ x.column # ToColumn(x.i) => <<x.column, x.row>> \in DOMAIN data

\* No part of n rows or columns begins after their end: (blocks - 1) parts of the
\* rounded length fit.  A transposition in which some do leaves the matrix.
Fits(n, blocks) == (Fewer(blocks, n) - 1) * Ceil(n, Fewer(blocks, n)) <= n

\* Iterations that may run at the same time touch no cell in common, so that
\* their loads and stores, unsynchronised as they are, are no data race.
NoSharedCell ==
  LET active == todo \cup {x.i : x \in doing}
  IN \A i, j \in active : i # j => Cells(i) \cap Cells(j) = {}

\* In the end each element is the sum of those that were before it, and each
\* cell of the output is its mirror image's.
Result == at = "end" =>
  IF job.kernel = "scan" THEN \A k \in DOMAIN data : data[k] = 2 ^ k - 1
  ELSE \A c \in DOMAIN data : data[c] = <<c[2], c[1]>>
=============================================================================
