--------------------------- MODULE MCAllocationPool ---------------------------
(* A small instance of AllocationPool for TLC.                              *)
EXTENDS AllocationPool, TLC

\* A table without bytes, one that ends with a chunk, one across three chunks.
SomeTables == {<<0>>, <<1, 1>>, <<3, 0, 2>>}

PoolSymmetry == Permutations(Users) \cup Permutations(Ids)
=============================================================================
