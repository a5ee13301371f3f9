---------------------------- MODULE MCPartwiseJoin ----------------------------
(* Small instances of PartwiseJoin for TLC.                                 *)
EXTENDS PartwiseJoin

Counts(l, r) == [s \in Sides |-> IF s = "left" THEN l ELSE r]

\* No batch on one side, one on each, and up to three on one side.
SomeCounts ==
    {Counts(0, 1), Counts(1, 1), Counts(1, 3), Counts(2, 2), Counts(3, 2)}
=============================================================================
