----------------------------- MODULE MCKernels -----------------------------
(* Scans of up to 16 elements and small matrices.                          *)
EXTENDS Kernels

ScanJobs == {[kernel |-> "scan", size_pow |-> k] : k \in 0 .. 4}
Matrix(rows, columns, blocks) ==
  [kernel |-> "transpose", rows |-> rows, columns |-> columns, blocks |-> blocks]
Shapes == {Matrix(rows, columns, blocks) : rows \in 1 .. 4, columns \in 1 .. 3, blocks \in 1 .. 3}
\* Those in which no part begins after the end of the matrix.
FittingJobs == {j \in Shapes : Fits(j.rows, j.blocks) /\ Fits(j.columns, j.blocks)}
AllJobs == ScanJobs \cup FittingJobs

\* The shape of bench_mtranspose on an odd number of threads, where 32 rows for
\* each thread are cut into 64 parts: here 5 rows into 4.
OddShape == {Matrix(5, 5, 4)}
=============================================================================
