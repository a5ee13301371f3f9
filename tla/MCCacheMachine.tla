---------------------------- MODULE MCCacheMachine ----------------------------
(* Small instances of CacheMachine for TLC.                                 *)
EXTENDS CacheMachine

CONSTANTS p1, p2, b1, b2, b3, b4

\* What the producers add, in order.
TwoEach == p1 :> <<b1, b2>> @@ p2 :> <<b3, b4>>
OneEach == p1 :> <<b1>> @@ p2 :> <<b3>>
ThreeAndOne == p1 :> <<b2, b3, b1>> @@ p2 :> <<b4>>

SomeRows == b1 :> 0 @@ b2 :> 2 @@ b3 :> 0 @@ b4 :> 3
FullRows == b1 :> 1 @@ b2 :> 2 @@ b3 :> 1 @@ b4 :> 3
NoRows == [b \in Batches |-> 0]
SizeOf == b1 :> 1 @@ b2 :> 2 @@ b3 :> 1 @@ b4 :> 3

Tables == p1 :> "addToCache" @@ p2 :> "addToCache"
TablesAndCacheData == p1 :> "addToCache" @@ p2 :> "addCacheData"
TablesAndHostFrames == p1 :> "addToCache" @@ p2 :> "addHostFrameToCache"

\* A kernel that pulls from a plain cache while the monitor downgrades.
PlainKernel ==
    [input |-> TwoEach, rows |-> SomeRows, entry |-> TablesAndCacheData,
     always_add |-> {}, concat |-> "none", consumer |-> "kernel",
     tiers |-> {"GPU", "CPU"}, num_bytes |-> 0, timeout |-> TRUE]
\* A kernel that reads a concatenating cache (a scan's output).
ConcatKernel ==
    [PlainKernel EXCEPT !.input = ThreeAndOne, !.rows = FullRows,
     !.entry = TablesAndHostFrames, !.concat = "bytes", !.num_bytes = 4,
     !.timeout = FALSE]
\* The output kernel on one: strings may overflow and tables be put back.
ConcatOutput ==
    [ConcatKernel EXCEPT !.entry = Tables, !.consumer = "output",
     !.num_bytes = 6, !.timeout = TRUE]
\* concat_all under producers that have only empty tables.
ConcatAll ==
    [PlainKernel EXCEPT !.rows = NoRows, !.entry = Tables, !.concat = "all",
     !.tiers = {"GPU", "CPU", "DISK"}]
\* Unordered pulls; every tier, full or failing.
Faults ==
    [PlainKernel EXCEPT !.entry = TablesAndHostFrames,
     !.always_add = {p1, p2}, !.consumer = "unordered",
     !.tiers = {"GPU", "CPU", "DISK", "nowhere"}]

AllSettings == {PlainKernel, ConcatKernel, ConcatOutput, ConcatAll, Faults}

\* Two empty tables, as of a filter that keeps nothing, and the disk tier.
DiskSettings ==
    {[PlainKernel EXCEPT !.input = OneEach, !.rows = NoRows, !.entry = Tables,
      !.tiers = {"GPU", "DISK"}]}
=============================================================================
