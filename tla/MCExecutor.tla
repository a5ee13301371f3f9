------------------------------ MODULE MCExecutor ------------------------------
(* Small instances of Executor for TLC.                                     *)
EXTENDS Executor

CONSTANTS k1, k2, w1, w2

\* Two kernels of one query, and two kernels of two queries.
OneQuery == [k \in Kernels |-> "q"]
TwoQueries == [k \in Kernels |-> k]
=============================================================================
