-------------------------- MODULE DistributingKernel --------------------------
(***************************************************************************)
(* One distributing kernel of one query on every node of a cluster:        *)
(* send_message, scatter, broadcast, scatterParts and the partition counts *)
(* of distributing_kernel.cpp, driven by the kernels that use them:        *)
(* DistributeAggregateKernel (with and without GROUP BY),                  *)
(* JoinPartitionKernel (the choice of a small table, hash partitioning and *)
(* the small table's broadcast) and PartitionKernel.                       *)
(*                                                                         *)
(* A kernel runs its tasks, tells every other node how many tables it sent *)
(* it, adds up what the others tell it, and returns when that many tables  *)
(* were put into its output cache; its cache is then finished.  Tables,    *)
(* counts and estimates travel as messages that arrive in any order, or    *)
(* not at all: sender and listener log an exception and go on.             *)
(*                                                                         *)
(* The wait for the tasks also ends when any task of the process threw, of *)
(* this kernel or of another one.  The kernel then rethrows the exception, *)
(* or, if another kernel has already taken it, goes on as if its tasks     *)
(* were done, while the executor still runs some of them.                  *)
(*                                                                         *)
(* Abstracted: a task is the number of the batch that one do_process gets; *)
(* of its rows the model keeps which destinations, <<node, tracker>>, get  *)
(* any; a node runs one task at a time (Executor, TasksRunOneAtATime); of  *)
(* exception_holder, whether it ever held anything.  A count is increased  *)
(* in the step that adds the table.  What a loop has still to do is a set  *)
(* whose members carry their position in it, so that it is done in order.  *)
(***************************************************************************)
EXTENDS Integers, Sequences, FiniteSets, SequencesExt, FiniteSetsExt

CONSTANTS
    NodeSeq,         \* context->getAllNodes()
    Master,          \* context->getMasterNode()
    Inputs,          \* by kernel, what the nodes' input may be: batches with their
                     \* join side, LEFT_TABLE_IDX or RIGHT_TABLE_IDX, and their rows
    JoinTypes,       \* the join types to consider
    Estimates,       \* what a node may estimate of its inputs: records of bytes
    Parts,           \* (partitionPlan->num_rows() + 1) / getTotalNodes()
    max_join_scatter_mem_overhead,
    attempts_limit,  \* of a task
    FaultBounds      \* bounds: triples of how many tasks run out of memory,
                     \* how many messages are lost and on how many nodes
                     \* a task throws for another reason

Nodes == ToSet(NodeSeq)
Kinds == DOMAIN Inputs
TableSides == {0, 1}       \* LEFT_TABLE_IDX and RIGHT_TABLE_IDX
Trackers == 0 .. IF Parts > 2 THEN Parts - 1 ELSE 1
Batches == [side : TableSides, rows : SUBSET (Nodes \X Trackers)]

ASSUME DistributionAssumption ==
    /\ NodeSeq \in Seq(Nodes) /\ IsInjective(NodeSeq) /\ Len(NodeSeq) > 1
    /\ Master \in Nodes
    /\ Kinds \subseteq {"aggregate", "no_group", "join", "partition"}
    /\ JoinTypes \subseteq {"inner", "left", "right", "outer", "cross"}
    /\ \A k \in Kinds : Inputs[k] \subseteq [Nodes -> Seq(Batches)]
    /\ Estimates \subseteq [left : Int, right : Int]
    /\ Parts \in Nat \ {0}
    /\ max_join_scatter_mem_overhead \in Nat
    /\ attempts_limit \in Nat \ {0}
    /\ FaultBounds \subseteq Nat \X Nat \X Nat

\* The kernels before this one gave every node a table, hence a schema, of
\* every input: SchemaArrives is what this kernel then owes the next one.
ASSUME InputsHaveSchemas ==
    \A k \in Kinds : \A b \in Inputs[k] : \A n \in Nodes :
       \A s \in IF k = "join" THEN TableSides ELSE {0} :
          \E t \in DOMAIN b[n] : k = "join" => b[n][t].side = s

VARIABLES
    kind, join_type,  \* the kernel of the plan
    input,            \* each node's batches
    estimate,         \* each node's left and right bytes estimate
    scatter_side,     \* scatter_left_right: "none", "left" or "right"
    pc,               \* where each node's run() stands
    todo,             \* tasks that wait in the executor's queue
    cur,              \* the task in do_process, or the last that was
    sends,            \* what that task has still to add or to send
    attempts,         \* of each task
    retries,          \* tasks that ran out of memory, over all nodes
    failed,           \* the nodes where exception_holder has got an exception
    next_id,          \* unique_message_id
    node_count,       \* node_count[n][tracker][target]
    set_empty_part,   \* set_empty_part_for_non_master_node
    out_added,        \* something_added of the output message cache
    cache_added,      \* something_added of each output cache
    processed,        \* tables put into each output cache
    step,             \* the position in the loops over message trackers
    to_ask,           \* messages_to_wait_for: the nodes not yet heard of
    total_count,      \* the local of get_total_partition_counts
    sent, arrived, lost \* messages and, with from = to, tables kept locally

planVars  == <<kind, join_type, input, estimate>>
taskVars  == <<todo, cur, sends, attempts, retries, failed>>
trackVars == <<node_count, next_id, set_empty_part, out_added>>
cacheVars == <<cache_added, processed>>
countVars == <<step, to_ask, total_count>>
netVars   == <<sent, arrived, lost>>
vars == <<planVars, scatter_side, pc, taskVars, trackVars, cacheVars,
          countVars, netVars>>

Tables ==
    [body : {"table"}, from : Nodes, to : Nodes, tracker : Trackers,
     task : Nat, rows : BOOLEAN, id : Nat]
Counts ==
    [body : {"count"}, from : Nodes, to : Nodes, tracker : Trackers, count : Nat]
EstimateMessages ==
    [body : {"estimate"}, from : Nodes, to : Nodes, bytes : Estimates]
Messages == Tables \cup Counts \cup EstimateMessages

\* So many more faults of each kind are still within the bounds.
room_for(out_of_memory, losses, throws) ==
    \E f \in FaultBounds : /\ retries + out_of_memory <= f[1]
                          /\ Cardinality(lost) + losses <= f[2]
                          /\ Cardinality(failed) + throws <= f[3]

Pcs == {"estimate", "decide", "tasks", "counting", "summing", "waiting",
        "returned", "threw", "count_error"}

Init ==
    /\ kind \in Kinds
    /\ join_type \in IF kind = "join" THEN JoinTypes ELSE {"none"}
    /\ input \in Inputs[kind]
    /\ estimate \in IF kind = "join" /\ join_type # "outer"
                    THEN [Nodes -> Estimates]
                    ELSE {[n \in Nodes |-> [left |-> -1, right |-> -1]]}
    /\ scatter_side = [n \in Nodes |-> "none"]
    /\ pc = [n \in Nodes |->
               IF kind = "join" /\ join_type # "outer" THEN "estimate" ELSE "tasks"]
    /\ todo = [n \in Nodes |-> [i \in DOMAIN input[n] |-> i]]
    /\ cur = [n \in Nodes |-> 0]
    /\ sends = [n \in Nodes |-> {}]
    /\ attempts = [n \in Nodes |-> [t \in DOMAIN input[n] |-> 0]]
    /\ retries = 0
    /\ failed = {}
    /\ next_id = [n \in Nodes |-> 0]
    /\ node_count = [n \in Nodes |-> [k \in Trackers |-> [m \in Nodes |-> 0]]]
    /\ set_empty_part = [n \in Nodes |-> FALSE]
    /\ out_added = [n \in Nodes |-> FALSE]
    /\ cache_added = [n \in Nodes |-> [k \in Trackers |-> FALSE]]
    /\ processed = [n \in Nodes |-> [k \in Trackers |-> 0]]
    /\ step = [n \in Nodes |-> 1]
    /\ to_ask = [n \in Nodes |-> {}]
    /\ total_count = [n \in Nodes |-> 0]
    /\ sent = {}
    /\ arrived = {}
    /\ lost = {}

-----------------------------------------------------------------------------
(* JoinPartitionKernel: does a small table go to every node?               *)

Others(n) == Nodes \ {n}

\* The decision that determine_if_we_are_scattering_a_small_table takes from
\* the bytes that every node estimated; -1 is "unknown".
small_side(type, bytes) ==
    LET num_nodes == Len(NodeSeq)
        left  == MapThenSumSet(LAMBDA m : bytes[m].left, Nodes)
        right == MapThenSumSet(LAMBDA m : bytes[m].right, Nodes)
        unknown == \E m \in Nodes : bytes[m].left = -1 \/ bytes[m].right = -1
        regular == ((left + right) * (num_nodes - 1)) \div num_nodes
        scatter_left  == left * (num_nodes - 1)
        scatter_right == right * (num_nodes - 1)
        left_fits  == left < max_join_scatter_mem_overhead
        right_fits == right < max_join_scatter_mem_overhead
    IN  CASE type = "cross" /\ unknown ->
               IF left < right THEN "left" ELSE "right"
          [] type = "cross" /\ ~unknown ->
               IF scatter_left < scatter_right THEN "left" ELSE "right"
          [] type # "cross" /\ unknown -> "none"
          [] type = "left" /\ ~unknown ->
               IF scatter_right < regular /\ right_fits THEN "right" ELSE "none"
          [] OTHER ->
               IF scatter_left >= regular /\ scatter_right >= regular THEN "none"
               ELSE IF scatter_left < scatter_right /\ left_fits THEN "left"
               ELSE IF scatter_right < scatter_left /\ right_fits THEN "right"
               ELSE "none"

\* The node tells the others its estimates.
send_estimates(n) ==
    /\ pc[n] = "estimate"
    /\ sent' = sent \cup
         {[body |-> "estimate", from |-> n, to |-> m, bytes |-> estimate[n]] :
            m \in Nodes \ {n}}
    /\ out_added' = [out_added EXCEPT ![n] = TRUE]
    /\ pc' = [pc EXCEPT ![n] = "decide"]
    /\ UNCHANGED <<planVars, scatter_side, taskVars, node_count, next_id,
                   set_empty_part, cacheVars, countVars, arrived, lost>>

\* Mutant: an estimate that is late is taken for unknown.
determine_early(n) ==
    /\ pc[n] = "decide"
    /\ LET bytes == [m \in Nodes |->
             IF m = n \/ \E e \in arrived :
                            e.body = "estimate" /\ e.from = m /\ e.to = n
             THEN estimate[m] ELSE [left |-> -1, right |-> -1]]
       IN scatter_side' = [scatter_side EXCEPT ![n] = small_side(join_type, bytes)]
    /\ pc' = [pc EXCEPT ![n] = "tasks"]
    /\ UNCHANGED <<planVars, taskVars, trackVars, cacheVars, countVars, netVars>>

\* It waits for the estimates of all the others and decides.
determine_if_we_are_scattering_a_small_table(n) ==
    /\ pc[n] = "decide"
    /\ \A m \in Nodes \ {n} : \E e \in arrived :
          e.body = "estimate" /\ e.from = m /\ e.to = n
    /\ LET bytes == [m \in Nodes |->
             IF m = n THEN estimate[n]
             ELSE (CHOOSE e \in arrived :
                     e.body = "estimate" /\ e.from = m /\ e.to = n).bytes]
       IN scatter_side' = [scatter_side EXCEPT ![n] = small_side(join_type, bytes)]
    /\ pc' = [pc EXCEPT ![n] = "tasks"]
    /\ UNCHANGED <<planVars, taskVars, trackVars, cacheVars, countVars, netVars>>

-----------------------------------------------------------------------------
(* Tasks: do_process of each kernel, as the adds and sends it makes.       *)

\* A table to send, or to keep if to is the node alone; at is its turn.
Send(at, to, tracker, rows, always) ==
    [at |-> at, to |-> to, tracker |-> tracker, rows |-> rows,
     always |-> always]

small_tracker(n) == IF scatter_side[n] = "left" THEN 0 ELSE 1

\* scatter: one partition for every node, in the order of the nodes.
scatter(tracker, rows) ==
    {Send(i, {NodeSeq[i]}, tracker, <<NodeSeq[i], tracker>> \in rows, FALSE) :
       i \in DOMAIN NodeSeq}

\* Mutant: the message for the others goes to the node itself too.
broadcast_to_self(n, tracker, rows) ==
    {Send(1, Nodes, tracker, rows # {}, FALSE),
     Send(2, {n}, tracker, rows # {}, FALSE)}

\* broadcast: one message for all the others, then the node's own cache.
broadcast(n, tracker, rows) ==
    {Send(1, Others(n), tracker, rows # {}, FALSE),
     Send(2, {n}, tracker, rows # {}, FALSE)}

\* Without any data there is no partition plan, and one partition per node.
num_partitions_per_node ==
    IF \A n \in Nodes : \A t \in DOMAIN input[n] : input[n][t].rows = {}
    THEN 1 ELSE Parts

\* partitionData and part_ids: every part of every node, or, of an empty
\* batch, one empty table for each node.
partitions(rows) ==
    LET num == num_partitions_per_node IN
    IF rows = {}
    THEN [i \in DOMAIN NodeSeq |-> <<NodeSeq[i], (i - 1) % num>>]
    ELSE [i \in 1..(num * Len(NodeSeq)) |->
            <<NodeSeq[((i - 1) \div num) + 1], (i - 1) % num>>]

\* Partition i of a batch.
part_send(at, all, i, rows) ==
    Send(at, {all[i][1]}, all[i][2], all[i] \in rows, FALSE)

\* Mutant: the node's own partitions without rows are skipped too.
scatterParts_skips(n, rows) ==
    LET all == partitions(rows)
        remote == {i \in DOMAIN all : all[i][1] # n /\ all[i] \in rows}
        local  == {i \in DOMAIN all : all[i][1] = n /\ all[i] \in rows}
    IN  {part_send(i, all, i, rows) : i \in remote}
        \cup {part_send(Len(all) + i, all, i, rows) : i \in local}

\* scatterParts: what other nodes get, if it has rows, then what stays here.
scatterParts(n, rows) ==
    LET all == partitions(rows)
        remote == {i \in DOMAIN all : all[i][1] # n /\ all[i] \in rows}
        local  == {i \in DOMAIN all : all[i][1] = n}
    IN  {part_send(i, all, i, rows) : i \in remote}
        \cup {part_send(Len(all) + i, all, i, rows) : i \in local}

\* DistributeAggregateKernel without GROUP BY: everything goes to the
\* master; the first task of another node leaves an empty table in its own
\* cache.
to_master(n, rows) ==
    (IF n = Master \/ set_empty_part[n] THEN {}
     ELSE {Send(1, {n}, 0, FALSE, TRUE)})
    \cup {Send(2, {Master}, 0, rows # {}, FALSE)}

aggregate_do_process(n, rows) ==
    IF kind = "no_group" THEN to_master(n, rows) ELSE scatter(0, rows)

\* The thread that passes the big side of a join on, batch by batch.
pass_big_side(n, side, rows) == {Send(1, {n}, side, rows # {}, FALSE)}

join_do_process(n, side, rows) ==
    IF scatter_side[n] = "none" THEN scatter(side, rows)
    ELSE IF side = small_tracker(n) THEN broadcast(n, side, rows)
    ELSE pass_big_side(n, side, rows)

partition_do_process(n, rows) == scatterParts(n, rows)

\* The adds and sends of one task, by kernel.
do_process(n, side, rows) ==
    CASE kind \in {"aggregate", "no_group"} -> aggregate_do_process(n, rows)
      [] kind = "partition" -> partition_do_process(n, rows)
      [] kind = "join" -> join_do_process(n, side, rows)

\* A batch of the big side is no task: a thread of run() passes it on.
on_big_side(n, t) ==
    /\ kind = "join"
    /\ scatter_side[n] # "none"
    /\ input[n][t].side # small_tracker(n)

\* The executor starts the next task, wherever run() stands by then.
start_task(n) ==
    /\ pc[n] \notin {"estimate", "decide"} /\ sends[n] = {} /\ todo[n] # <<>>
    /\ on_big_side(n, Head(todo[n])) => pc[n] = "tasks"
    /\ LET t == Head(todo[n]) IN
         /\ cur' = [cur EXCEPT ![n] = t]
         /\ sends' = [sends EXCEPT ![n] =
                        do_process(n, input[n][t].side, input[n][t].rows)]
    /\ todo' = [todo EXCEPT ![n] = Tail(@)]
    /\ UNCHANGED <<planVars, scatter_side, pc, attempts, retries, failed,
                   trackVars, cacheVars, countVars, netVars>>

\* The next thing the current task adds or sends.
is_next(n, s) == s \in sends[n] /\ \A r \in sends[n] : s.at <= r.at

\* A table of the current task, as it is put into a cache.
table(n, s, m) ==
    [body |-> "table", from |-> n, to |-> m, tracker |-> s.tracker,
     task |-> cur[n], rows |-> s.rows, id |-> next_id[n]]

\* addToCache of the node's own output cache, and the count if it was added.
add_local(n) ==
    \E s \in sends[n] :
       LET k == s.tracker IN
       /\ is_next(n, s)
       /\ s.to = {n}
       /\ \/ /\ s.rows \/ s.always \/ ~cache_added[n][k]
             /\ sent' = sent \cup {table(n, s, n)}
             /\ arrived' = arrived \cup {table(n, s, n)}
             /\ processed' = [processed EXCEPT ![n][k] = @ + 1]
             /\ cache_added' = [cache_added EXCEPT ![n][k] = TRUE]
             /\ node_count' = [node_count EXCEPT ![n][k][n] = @ + 1]
             /\ next_id' = [next_id EXCEPT ![n] = @ + 1]
          \/ /\ ~s.rows /\ ~s.always /\ cache_added[n][k]
             /\ UNCHANGED <<sent, arrived, cacheVars, node_count, next_id>>
       /\ set_empty_part' = [set_empty_part EXCEPT ![n] = @ \/ s.always]
       /\ sends' = [sends EXCEPT ![n] = @ \ {s}]
       /\ UNCHANGED <<planVars, scatter_side, pc, todo, cur, attempts,
                      retries, failed, out_added, countVars, lost>>

\* Mutant: the targets are counted whether or not the message was added.
send_message_counts_all(n) ==
    \E s \in sends[n] :
       /\ is_next(n, s)
       /\ s.to # {n}
       /\ \/ /\ s.rows \/ s.always \/ ~out_added[n]
             /\ sent' = sent \cup {table(n, s, m) : m \in s.to}
             /\ next_id' = [next_id EXCEPT ![n] = @ + 1]
             /\ out_added' = [out_added EXCEPT ![n] = TRUE]
          \/ /\ ~s.rows /\ ~s.always /\ out_added[n]
             /\ UNCHANGED <<sent, next_id, out_added>>
       /\ node_count' = [node_count EXCEPT ![n][s.tracker] =
            [m \in Nodes |-> IF m \in s.to THEN @[m] + 1 ELSE @[m]]]
       /\ sends' = [sends EXCEPT ![n] = @ \ {s}]
       /\ UNCHANGED <<planVars, scatter_side, pc, todo, cur, attempts,
                      retries, failed, set_empty_part, cacheVars, countVars,
                      arrived, lost>>

\* send_message of a table: into the output message cache, and the count of
\* every target if it was added.
send_message(n) ==
    \E s \in sends[n] :
       /\ is_next(n, s)
       /\ s.to # {n}
       /\ \/ /\ s.rows \/ s.always \/ ~out_added[n]
             /\ sent' = sent \cup {table(n, s, m) : m \in s.to}
             /\ node_count' = [node_count EXCEPT ![n][s.tracker] =
                  [m \in Nodes |-> IF m \in s.to THEN @[m] + 1 ELSE @[m]]]
             /\ next_id' = [next_id EXCEPT ![n] = @ + 1]
             /\ out_added' = [out_added EXCEPT ![n] = TRUE]
          \/ /\ ~s.rows /\ ~s.always /\ out_added[n]
             /\ UNCHANGED <<sent, node_count, next_id, out_added>>
       /\ sends' = [sends EXCEPT ![n] = @ \ {s}]
       /\ UNCHANGED <<planVars, scatter_side, pc, todo, cur, attempts,
                      retries, failed, set_empty_part, cacheVars, countVars,
                      arrived, lost>>

Broadcasts(n) ==
    /\ kind = "join"
    /\ scatter_side[n] # "none"
    /\ input[n][cur[n]].side = small_tracker(n)

\* Where do_process allocates GPU memory: the clone of every partition, the one
\* clone of a broadcast, the empty table of a node that is not the master.
allocates(n) ==
    \E s \in sends[n] :
       /\ is_next(n, s)
       /\ \/ kind \in {"aggregate", "partition"}
          \/ kind = "no_group" /\ s.always
          \/ kind = "join" /\ scatter_side[n] = "none"
          \/ Broadcasts(n) /\ s.to # {n}

\* rmm::bad_alloc: what was sent stays sent.  The task is run again from its
\* start, or throws: after the last attempt, or when a broadcast had consumed an
\* input that lived in the GPU.
bad_alloc(n) ==
    /\ allocates(n)
    /\ room_for(1, 0, 0)
    /\ retries' = retries + 1
    /\ \/ /\ attempts[n][cur[n]] + 1 < attempts_limit
          /\ attempts' = [attempts EXCEPT ![n][cur[n]] = @ + 1]
          /\ todo' = [todo EXCEPT ![n] = Append(@, cur[n])]
          /\ UNCHANGED failed
       \/ /\ attempts[n][cur[n]] + 1 >= attempts_limit \/ Broadcasts(n)
          /\ failed' = failed \cup {n}
          /\ UNCHANGED <<attempts, todo>>
    /\ sends' = [sends EXCEPT ![n] = {}]
    /\ UNCHANGED <<planVars, scatter_side, pc, cur, trackVars, cacheVars,
                   countVars, netVars>>

\* Any other exception, of the current task or of a task of another kernel: it is
\* put into exception_holder, and a task of this kernel is not run again.  One
\* of the thread that passes the big side on is rethrown when run() joins it.
task_throws(n) ==
    /\ room_for(0, 0, 1)
    /\ failed' = failed \cup {n}
    /\ \/ /\ sends[n] # {}
          /\ sends' = [sends EXCEPT ![n] = {}]
          /\ pc' = IF on_big_side(n, cur[n]) THEN [pc EXCEPT ![n] = "threw"]
                   ELSE pc
       \/ UNCHANGED <<sends, pc>>
    /\ UNCHANGED <<planVars, scatter_side, todo, cur, attempts, retries,
                   trackVars, cacheVars, countVars, netVars>>

-----------------------------------------------------------------------------
(* run(), once the tasks are done.                                         *)

\* Both sides of a hash partitioning, or the small side of a broadcast.
join_trackers(n) ==
    IF scatter_side[n] = "none" THEN <<0, 1>> ELSE <<small_tracker(n)>>

partition_trackers == [i \in 1..num_partitions_per_node |-> i - 1]

\* The message trackers whose counts are exchanged, in order.
count_trackers(n) ==
    CASE kind \in {"aggregate", "no_group"} -> <<0>>
      [] kind = "partition" -> partition_trackers
      [] kind = "join" -> join_trackers(n)

\* Mutant: the kernel does not wait for its tasks.
tasks_done_early(n) ==
    /\ pc[n] = "tasks" /\ sends[n] = {} /\ Len(todo[n]) < Len(input[n])
    /\ pc' = [pc EXCEPT ![n] = "counting"]
    /\ UNCHANGED <<planVars, scatter_side, taskVars, trackVars, cacheVars,
                   countVars, netVars>>

\* kernel_cv.wait: tasks is empty.
tasks_done(n) ==
    /\ pc[n] = "tasks" /\ sends[n] = {} /\ todo[n] = <<>>
    /\ pc' = [pc EXCEPT ![n] = "counting"]
    /\ UNCHANGED <<planVars, scatter_side, taskVars, trackVars, cacheVars,
                   countVars, netVars>>

\* kernel_cv.wait: has_exception(), whatever is left of the tasks.  run()
\* rethrows what last_exception() gives, this exception or another one; if other
\* kernels have taken all there were, it goes on.
leave_wait(n) ==
    /\ pc[n] = "tasks" /\ n \in failed
    /\ sends[n] # {} => ~on_big_side(n, cur[n])
    /\ \A t \in ToSet(todo[n]) : ~on_big_side(n, t)
    /\ pc' \in {[pc EXCEPT ![n] = "threw"], [pc EXCEPT ![n] = "counting"]}
    /\ UNCHANGED <<planVars, scatter_side, taskVars, trackVars, cacheVars,
                   countVars, netVars>>

\* Mutant: the tables the node kept are left out.
begin_sum_others(n, i) ==
    /\ step' = [step EXCEPT ![n] = i]
    /\ total_count' = [total_count EXCEPT ![n] = 0]
    /\ to_ask' = [to_ask EXCEPT ![n] = Others(n)]

\* get_total_partition_counts starts with the tables the node kept.
begin_sum(n, i) ==
    LET k == count_trackers(n)[i] IN
    /\ step' = [step EXCEPT ![n] = i]
    /\ total_count' = [total_count EXCEPT ![n] = node_count[n][k][n]]
    /\ to_ask' = [to_ask EXCEPT ![n] = Others(n)]

send_total_partition_counts(n) ==
    /\ pc[n] = "counting"
    /\ LET k == count_trackers(n)[step[n]] IN
       sent' = sent \cup
         {[body |-> "count", from |-> n, to |-> m, tracker |-> k,
           count |-> node_count[n][k][m]] : m \in Nodes \ {n}}
    /\ out_added' = [out_added EXCEPT ![n] = TRUE]
    /\ \/ /\ step[n] < Len(count_trackers(n))
          /\ step' = [step EXCEPT ![n] = @ + 1]
          /\ UNCHANGED <<pc, to_ask, total_count>>
       \/ /\ step[n] = Len(count_trackers(n))
          /\ begin_sum(n, 1)
          /\ pc' = [pc EXCEPT ![n] = "summing"]
    /\ UNCHANGED <<planVars, scatter_side, taskVars, node_count, next_id,
                   set_empty_part, cacheVars, arrived, lost>>

\* pullCacheData(message id) for one node after the other.
position(m) == CHOOSE i \in DOMAIN NodeSeq : NodeSeq[i] = m

get_total_partition_counts(n) ==
    /\ pc[n] = "summing"
    /\ \E m \in to_ask[n] :
         /\ \A x \in to_ask[n] : position(m) <= position(x)
         /\ \E c \in arrived :
              /\ c.body = "count" /\ c.from = m /\ c.to = n
              /\ c.tracker = count_trackers(n)[step[n]]
              /\ total_count' = [total_count EXCEPT ![n] = @ + c.count]
         /\ to_ask' = [to_ask EXCEPT ![n] = @ \ {m}]
         /\ pc' = [pc EXCEPT ![n] =
                     IF to_ask[n] = {m} THEN "waiting" ELSE @]
    /\ UNCHANGED <<planVars, scatter_side, taskVars, trackVars, cacheVars,
                   step, netVars>>

\* The wait ends when the count is met, and throws when it is passed.
wait_for_count(n) ==
    /\ pc[n] = "waiting"
    /\ LET found == processed[n][count_trackers(n)[step[n]]] IN
       /\ found >= total_count[n]
       /\ \/ /\ step[n] < Len(count_trackers(n))
             /\ begin_sum(n, step[n] + 1)
             /\ pc' = [pc EXCEPT ![n] =
                         IF found > total_count[n] THEN "count_error" ELSE "summing"]
          \/ /\ step[n] = Len(count_trackers(n))
             /\ pc' = [pc EXCEPT ![n] =
                         IF found > total_count[n] THEN "count_error" ELSE "returned"]
             /\ UNCHANGED countVars
    /\ UNCHANGED <<planVars, scatter_side, taskVars, trackVars, cacheVars, netVars>>

-----------------------------------------------------------------------------
(* The messages' way: message_sender, a transport, message_receiver.       *)

\* Mutant: a message that arrived is still to be delivered.
InFlight_again == sent \ lost

\* Sent, and neither finished by its receiver nor dropped.
InFlight == sent \ (arrived \cup lost)

\* message_receiver::finish: a table goes into the output cache of the kernel,
\* whatever it holds (always_add), anything else into the input message cache.
receive(m) ==
    /\ m \in InFlight
    /\ arrived' = arrived \cup {m}
    /\ \/ /\ m.body = "table"
          /\ processed' = [processed EXCEPT ![m.to][m.tracker] = @ + 1]
          /\ cache_added' = [cache_added EXCEPT ![m.to][m.tracker] = TRUE]
       \/ m.body # "table" /\ UNCHANGED cacheVars
    /\ UNCHANGED <<planVars, scatter_side, pc, taskVars, trackVars, countVars, sent,
                   lost>>

\* An exception in a thread of the sender or of the listener is logged; the
\* message is gone.
lose(m) ==
    /\ m \in InFlight
    /\ room_for(0, 1, 0)
    /\ lost' = lost \cup {m}
    /\ UNCHANGED <<planVars, scatter_side, pc, taskVars, trackVars, cacheVars,
                   countVars, sent, arrived>>

node_step(n) ==
    \/ send_estimates(n)
    \/ determine_if_we_are_scattering_a_small_table(n)
    \/ start_task(n)
    \/ add_local(n)
    \/ send_message(n)
    \/ tasks_done(n)
    \/ leave_wait(n)
    \/ send_total_partition_counts(n)
    \/ get_total_partition_counts(n)
    \/ wait_for_count(n)

Next ==
    \/ \E n \in Nodes : node_step(n) \/ bad_alloc(n) \/ task_throws(n)
    \/ \E m \in sent : receive(m) \/ lose(m)

Spec == Init /\ [][Next]_vars

\* A kernel, its tasks and the communication threads go on while they can.
\* Nothing makes a task run out of memory or throw, or a message get lost.
LiveSpec ==
    /\ Spec
    /\ \A n \in Nodes : WF_vars(node_step(n))
    /\ WF_vars(\E m \in sent : receive(m))

-----------------------------------------------------------------------------
TypeOK ==
    /\ kind \in Kinds
    /\ estimate \in [Nodes -> [left : Int, right : Int]]
    /\ scatter_side \in [Nodes -> {"none", "left", "right"}]
    /\ pc \in [Nodes -> Pcs]
    /\ input \in Inputs[kind]
    /\ \A n \in Nodes :
         /\ ToSet(todo[n]) \subseteq DOMAIN input[n]
         /\ cur[n] \in 0..Len(input[n])
         /\ attempts[n] \in [DOMAIN input[n] -> 0..attempts_limit]
    /\ failed \subseteq Nodes
    /\ next_id \in [Nodes -> Nat]
    /\ node_count \in [Nodes -> [Trackers -> [Nodes -> Nat]]]
    /\ processed \in [Nodes -> [Trackers -> Nat]]
    /\ total_count \in [Nodes -> Nat]
    /\ sent \subseteq Messages
    /\ arrived \subseteq sent /\ lost \subseteq sent
    /\ arrived \cap lost = {}

cached(n, k) ==
    {m \in arrived : m.body = "table" /\ m.to = n /\ m.tracker = k}

\* Where the rows of a batch belong, by the meaning of the kernel.
belongs(n, t) ==
    LET side == input[n][t].side
        rows == input[n][t].rows
    IN
    CASE kind = "aggregate" -> {d \in rows : d[2] = 0}
      [] kind = "no_group"  -> IF rows = {} THEN {} ELSE {<<Master, 0>>}
      [] kind = "partition" -> {d \in rows : d[2] < num_partitions_per_node}
      [] kind = "join" ->
           IF scatter_side[n] = "none" THEN {d \in rows : d[2] = side}
           ELSE IF rows = {} THEN {}
           ELSE IF side = small_tracker(n) THEN Nodes \X {side}
           ELSE {<<n, side>>}

\* As long as no task of any node threw, a kernel that returned, and so finished
\* its output caches, misses nothing: all the nodes have run all their tasks,
\* nothing that was sent to it is under way or lost, and its caches hold every
\* partition that belongs to it.
ReturnMeansComplete ==
    \A n \in Nodes : failed = {} /\ pc[n] = "returned" =>
       /\ \A m \in Nodes : todo[m] = <<>> /\ sends[m] = {}
       /\ \A m \in sent : m.body = "table" /\ m.to = n => m \in arrived
       /\ \A m \in Nodes, k \in Trackers : \A t \in DOMAIN input[m] :
             <<n, k>> \in belongs(m, t) =>
                \E c \in cached(n, k) : c.from = m /\ c.task = t /\ c.rows

\* wait_for_count never finds more tables than the nodes announced, even when
\* tasks were run again or tables overtake the counts, unless a task threw: a
\* kernel may then announce counts that its tasks, still running, exceed.
CountNeverPassed ==
    failed = {} => \A n \in Nodes : pc[n] # "count_error"

\* The same partition of the same batch reaches a cache at most once, as long as
\* no task ran out of memory in the middle of its sends.
PartitionsOnce ==
    retries = 0 =>
       \A c, d \in {m \in arrived : m.body = "table"} :
          c.from = d.from /\ c.task = d.task /\ c.to = d.to
             /\ c.tracker = d.tracker /\ c.rows /\ d.rows => c = d

\* All the nodes that decided whether to broadcast one side of a join decided
\* alike: a node that expects the counts of both sides would wait for ever for
\* one that sends those of one.
DecisionsAgree ==
    \A m, n \in Nodes :
       (kind = "join" /\ {pc[m], pc[n]} \cap {"estimate", "decide"} = {})
          => scatter_side[m] = scatter_side[n]

\* As long as no task threw, a kernel that returned leaves the next one at least
\* one table, hence a schema: in every output cache, or in one of those of a
\* PartitionKernel.
SchemaArrives ==
    \A n \in Nodes : failed = {} /\ pc[n] = "returned" =>
       IF kind = "partition" THEN \E k \in Trackers : cached(n, k) # {}
       ELSE \A k \in IF kind = "join" THEN TableSides ELSE {0} :
               cached(n, k) # {}

\* As long as no task threw and no message was lost, all the kernels return.
KernelsReturn ==
    <>(lost # {} \/ failed # {} \/ \A n \in Nodes : pc[n] = "returned")

\* The side of an outer join whose unmatched rows are kept is not copied to every
\* node, where each copy would be kept once more.
PreservedSideStays ==
    \A n \in Nodes :
       /\ join_type = "left" => scatter_side[n] # "left"
       /\ join_type = "right" => scatter_side[n] # "right"
       /\ join_type = "outer" => scatter_side[n] = "none"
=============================================================================
