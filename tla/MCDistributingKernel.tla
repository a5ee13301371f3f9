------------------------ MODULE MCDistributingKernel ------------------------
(* Small instances of DistributingKernel for TLC.                           *)
EXTENDS DistributingKernel, TLC

CONSTANTS n1, n2

TwoNodes == <<n1, n2>>

\* A batch without rows, one with rows for everyone, one with rows for n2 alone.
Empty(side) == [side |-> side, rows |-> {}]
Full(side)  == [side |-> side, rows |-> Nodes \X Trackers]
ForN2(side) == [side |-> side, rows |-> {n2} \X Trackers]

\* Everything empty; an empty batch before or after one with rows; rows that all
\* go to the same node.
OneInput ==
    {n1 :> <<Empty(0)>> @@ n2 :> <<Empty(0)>>,
     n1 :> <<Full(0), Empty(0)>> @@ n2 :> <<Empty(0), Full(0)>>,
     n1 :> <<ForN2(0)>> @@ n2 :> <<ForN2(0), Full(0)>>}
JoinInput ==
    {n1 :> <<Full(1), Full(0)>> @@ n2 :> <<ForN2(0), Empty(1)>>,
     n1 :> <<Empty(0), Empty(1)>> @@ n2 :> <<Empty(0), Empty(1)>>}
PartitionInput ==
    {n1 :> <<Empty(0)>> @@ n2 :> <<Empty(0)>>,
     n1 :> <<Full(0)>> @@ n2 :> <<ForN2(0)>>,
     n1 :> <<Empty(0)>> @@ n2 :> <<ForN2(0), Empty(0)>>}
AllInputs ==
    "aggregate" :> OneInput @@ "no_group" :> OneInput
    @@ "join" :> JoinInput @@ "partition" :> PartitionInput
JoinInputs == "join" :> JoinInput

\* Small and big inputs: two nodes may find the left side small, the right side,
\* or neither.
TwoEstimates == {[left |-> 1, right |-> 6], [left |-> 6, right |-> 0]}

\* A task uses up its attempts, or a message is lost, or tasks of one node
\* throw; or nothing goes wrong.
SomeFaults == {<<2, 0, 0>>, <<0, 1, 0>>, <<0, 0, 1>>}
NoFaults == {<<0, 0, 0>>}
=============================================================================
