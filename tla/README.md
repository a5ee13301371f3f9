# A TLA+ verification of the BlazingSQL execution engine

BlazingSQL runs SQL queries on a cluster of GPUs. A Python client parses a query
with Calcite (Java), ships the physical plan to every worker, and each worker's
C++ engine turns the plan into a graph of kernels joined by caches, runs it, and
exchanges batches with the other workers. This directory models the engine
(`src/engine/src`): the part where threads, queues, memory limits and messages
meet. The models are translated from the source; `PROJECT.json` maps every
definition to its lines.

## 1. Inventory

Paths are relative to `src/engine/src` unless they start elsewhere.

| Component | State it keeps | Operations | Interacts with |
|---|---|---|---|
| Task executor (`execution_graph/executor.*`) | `task_queue`, the ctpl pool, `active_tasks_counter`, `exception_holder`, `task_id_counter` | `add_task`, `execute`, `task::run/complete/fail`, `last_exception`, `remove_task_from_back` | kernels (callbacks `process`, `notify_complete`, `notify_fail`), memory monitor |
| Kernels (`execution_kernels/*`) | `tasks`, `kernel_cv`, counters per kernel type | `run`, `process`, `do_process`, `wait` | executor, input and output caches, communication |
| MemoryMonitor (`bmr/MemoryMonitor.*`) | `finished`, the plan tree, a local vector of tasks | `start`, `finalize`, `downgradeCaches` | caches, executor, memory resources |
| WaitingQueue (`cache_machine/WaitingQueue.h`) | a deque, `finished`, `processed` | `put`, `finish`, `pop_or_wait`, `get_or_wait`, `wait_*` | every cache, the executor |
| CacheMachine and ConcatenatingCacheMachine (`cache_machine/CacheMachine.*`) | a WaitingQueue of messages, `something_added`, `num_rows_added`, `global_index` | `addToCache`, `addCacheData`, `pullFromCache`, `pullCacheData`, `downgradeCacheData`, `clear` | memory resources, kernels, monitor |
| CacheData tiers (`cache_machine/*CacheData*`) | where a batch lives: GPU, host, disk, Arrow, a file to be parsed | `decache`, `downgradeCacheData`, `release_data` | allocation pool, files |
| Memory resources (`bmr/BlazingMemoryResource.*`) | `used_memory`, limits, a max counter | `allocate`, `deallocate`, `get_memory_used` | CacheMachine, executor, monitor |
| Allocation pool (`bmr/BufferProvider.*`) | allocations, a free list of chunks | `get_chunk`, `free_chunk`, `grow`, `free_all` | host tables, receivers, senders |
| Distributing kernels (`execution_kernels/distributing_kernel.*`) | `node_count`, `messages_to_wait_for` | `send_message`, `scatter`, `broadcast`, `send_total_partition_counts`, `get_total_partition_counts` | sender, caches of the other nodes |
| Message transport (`communication/CommunicationInterface/*`) | sender pool, `buffer_transport` counters, receivers' buffers | `run_polling`, `send`, `start_receiving`, `set_buffer_size`, `finish` | output cache, input caches of graphs |
| Graph (`execution_graph/graph.*`, `port.*`) | kernels, edges, futures of running kernels | `addEdge`, `start_execute`, `finish_execute`, `set_kernels_order` | kernels, caches, monitor |
| Plan generator (`execution_graph/PhysicalPlanGenerator.h`, `CalciteInterpreter.cpp`) | the tree of relational operators | `transform_json_tree`, `build_batch_graph` | graph |
| Query lifecycle (`cython/engine.cpp`, `cython/initialize.cpp`) | graphs by context token, singletons | `runGenerateGraph`, `startExecuteGraph`, `getExecuteGraphResult` | graph, comms |
| Data loading (`io/*`) | providers' cursors, parsers | `has_next`, `get_next`, `parse_batch` | TableScan kernels |
| Expressions, skip data and operators (`parser`, `skip_data`, `Interpreter`, `operators`, `utilities`) | none | pure transformations of tables and strings | kernels |
| Python layer (`src/pyblazing`) | tables, graphs of a context, caches of workers | `sql`, `create_table`, `explain` | engine through Cython, dask |
| Planner (`src/algebra`) | the Calcite catalog | parse, validate, optimise | Python layer |
| File systems (`src/io`) | connections, registered file systems | open, list, read | data providers |

What is hard here: one thread per kernel, a dispatcher, a pool and a monitor
share queues and mutexes (executor, caches); a failing or retried task
(`task::run`), whose exception any waiting kernel may take; rows counted by one actor and waited for by another (distributing
kernels); frames of one message that arrive in any order (transport); memory
counters read before they are used (caches, monitor).

What makes each component correct: a task is run to completion exactly once or
its query ends with its error; a cache delivers each batch once, in order, and
tells its consumer when there will be no more; a pool never hands the same chunk
to two users; a node waits for exactly the batches the others sent it.

## 2. Plan

| Module | What it covers | Properties | Proofs |
|---|---|---|---|
| `Executor` | tasks, retries, exceptions, the kernels' wait, the tasks the monitor takes and downgrades | conservation of tasks and exceptions, mutual exclusion, termination | done, every invariant |
| `CacheMachine`, `BatchChannel` | one cache, its queue, tiers, downgrades, concatenation | implements a FIFO channel, conservation, termination | done, every invariant and the refinement |
| `DistributingKernel` | one distributing kernel on every node, messages included | counts, decisions, completeness, termination | done, every invariant |
| `AllocationPool` | `get_chunk`, `grow`, `free_chunk`, `free_all`, the split of buffers into chunks | one owner per chunk, memory in use stays, grown memory returns, splits are whole | done, every invariant |
| `PartwiseJoin` | the pairs of batches of a join, its tasks, the array caches | every pair joined, none twice, batches in one place, termination | done, every invariant |
| `MessageTransport` | sender and listener pools, TCP connections, UCX requests | delivery at most once and whole, lifetimes of receivers and buffers, arrival | done, every invariant |

Every safety property that a run checks is proved; section 5 has the arguments.
Termination stays with TLC in every module.

Left out of the plan after a look at them are the graph and the query's
lifecycle, the exchanges of the sampling, limit and window kernels and the scan's
LIMIT; section 7 says why, and their hazards stay listed in `PROJECT.json`.

The modules rest on one another's results: `DistributingKernel` assumes of the
network what `MessageTransport` shows (a message arrives whole and at most once,
in any order, or never) and of a node what `Executor` shows (one task at a time);
`PartwiseJoin` assumes only that its tasks run, one at a time or side by side.

## 3. Modules

### Executor

`Executor.tla` has four kinds of actors: the dispatcher thread in
`executor::execute`, the threads of the ctpl pool, one thread per kernel, and the
half of the `MemoryMonitor` that takes tasks off the queue. A task is its id. The variables are
the fields of `executor` and `kernel`, with each mutex that is held over several
steps as the name of its holder. A kernel adds tasks (`add_task_*`), starts to
wait (`start_wait`), tests its predicate under `kernel_mutex`
(`tasks.empty() || has_exception()`), then calls `last_exception`. A pool thread
runs the lambda: the memory gate, the decaching loop, `kernel->process`,
`complete`, or the two retry paths (`attempts` against `attempts_limit`) and the
`catch` that puts the exception into `exception_holder`. `raised` and `rethrown`
are history variables.

The monitor takes a task (`monitor_take`), downgrades its inputs, and after the last
one puts all it holds back (`monitor_return`). A downgrade to host memory ends
(`monitor_downgraded`) or throws, one to disk throws or never ends, which is finding
3 below. Nothing in the monitor's thread catches: `monitor_throws` ends it, and the
tasks in its vector are destroyed (`destroyed`) while their kernels wait for them.

Free choices: whether a step runs out of memory, whether the inputs came back
with a RETRY, whether the memory gate's comparison holds.

### CacheMachine and BatchChannel

`CacheMachine.tla` is one cache between its producers, the producing kernel that
finishes it, one consumer and the monitor. `setting`, chosen in `Init` from
`Settings` and never changed, says which cache: `concat` the class
(`CacheMachine`, `ConcatenatingCacheMachine` by bytes or `concat_all`), `consumer`
the consumer's loop (`"kernel"` pulls until it gets a nullptr, `"output"` and
`"unordered"` call `wait_for_next` first), `entry` through which call each
producer adds, `tiers` which memory resources may be chosen, and the batches. An
add is several steps: the read of `something_added`, the choice of a tier, the
write to disk with its retry loop, the put, and the write of `something_added`. A
downgrade holds the queue's mutex from `lock` to `unlock`; the messages it works
on stay in the variable, since nobody else can look. A concatenating pull reads
the size of the next message before it pops it, and `pullFromCache` may put tables
back when joining their strings would overflow.

Things that go wrong: an add can throw after it has counted its rows (`add_throws`);
its task is run again, and counts them again, or its query fails. And `finish()` is
also called when the producing kernel's `run()` threw, or returned before its tasks
were done (`finish_aborted`, at any moment): the cache is then finished and `aborted`,
and tasks that are still in the executor's pool go on adding to it. `recounted` keeps
the batches whose rows were counted too often.

`BatchChannel.tla` is the abstract specification: a sequence that only grows,
a number of taken batches that only grows, and an end that comes after the close
and after the last batch. A channel whose sender was cut off (`Abort`) may get batches
after its close, and may end before the last. `CacheMachine!Channel` instantiates it.

The history variable `taken` is the sequence of batches that the consumer has got,
whatever tables they were concatenated into. `Totals.tla` has the one operator that
adds up rows or bytes along a sequence, as the loop of `wait_until_num_bytes` does;
`AllocationPool` uses it too.

### DistributingKernel

`DistributingKernel.tla` is one distributing kernel of one plan on all the nodes:
`DistributeAggregateKernel` (two cases), `JoinPartitionKernel` and
`PartitionKernel`, chosen in `Init` with the nodes' batches. `do_process` yields
the adds and sends of a task, a set whose members know their turn (`at`);
`add_local` and `send_message` carry them out one by one in that order, so that a task can run out of memory between two of them
(`bad_alloc`) and messages of different nodes interleave. Both apply the rule of
`addToCache`: a table without rows is added only if nothing was added before, and
only what was added is counted in `node_count`. Then `run()` goes on:
`send_total_partition_counts`, `get_total_partition_counts`, `wait_for_count`, for
each message tracker in turn. A `JoinPartitionKernel` first sends its estimates
and waits for all the others'.

A task may throw, of this kernel (`task_throws`) or of any other one of the process.
From then on `has_exception()` can end the wait for the tasks (`leave_wait`): the
kernel rethrows, or, if other kernels have taken every exception there was, goes on to
its counts while its tasks are still queued or running. The batches of the larger
table beside a broadcast one (`on_big_side`) are no tasks: a thread of `run()` passes
them on, and what it throws reaches `run()` when that joins it.

A message is a record in `sent`, later in `arrived` or in `lost`; any message
under way may be the next to arrive, or none. What is behind that is
`MessageTransport`.

What the module leaves to others: a node runs one task at a time, which is the
theorem `OneAtATime` of the executor; `addToCache` as one step, which
`CacheMachine` has in its parts.

### AllocationPool

`AllocationPool.tla` is one pool of host memory and the threads that turn tables
into chunks. `get_chunk` and `free_chunk` hold the pool's mutex from end to end and
are one step each: `get_free`, `get_grown` and `get_throws` are the three ways
through `get_chunk`, `return_chunk` is `free_chunk` with its erase and
renumbering. An allocation's address (an id) can be used again after an erase. A
thread's table is `convert_gpu_buffers_to_chunks` step by step (`next_chunk`,
`next_piece`, `next_buffer`), then a `BlazingHostTable` whose destructor returns the
chunks one by one, interleaved with the other threads. Failures: `cudaMallocHost`
or `ucp_mem_map` throws after the empty allocation was pushed, `aligned_alloc`
returns null unnoticed, a growth by zero chunks. The chunks of a conversion that
threw are destroyed without `free_chunk`; the history variable `leaked` keeps them.

### PartwiseJoin

`PartwiseJoin.tla` is the kernel's `run()`, its tasks and its two array caches. The
code marks a pair in `completion_matrix` when it creates the pair's task; it
chooses the next pair from the indexes that happen to be in the array caches, read
one cache after the other (`check`, `check_right`), or loads a new batch, or waits
for a batch some task has (`get_or_wait`, by message id). A task joins, puts the
left batch back, then the right one; it can throw at each of these points, and is
then rerun or fails as `do_process` and `task::run` decide. The inputs' batches
arrive at any time. `run()` leaves its last wait when its tasks are done or when any
kernel's task threw (`failed`); it then rethrows the exception, or returns normally
because another kernel has taken it. Tasks that the pool already has go on.

### MessageTransport

`MessageTransport.tla` is the way of a message from the output message cache of a
node to the caches of its destinations. A sending task (`message_sender`) takes a
thread of its pool, opens the connections, sends begin, metadata and buffers to
each destination in turn and waits until all are transmitted. Over TCP a connection
takes `SocketCapacity` buffers before `write` blocks, and a receiving task occupies
a thread of the listener's pool until it has read everything. Over UCX frames are
requests: a progress thread completes them and runs their callbacks, a pool thread
posts the receives, and both may confirm the last frame; the first step of
confirming (`confirming`, stage `count`) and the removal of the receiver from
`tag_to_receiver` are separate. Failures: connect, write and the constructors throw
at any destination, the writes of begin and metadata included (`TcpSendThrows`); a
UCX request returns an error; an exception of a progress thread ends its process. The
sending pool and the TCP listener's have `num_comm_threads` threads, the UCX
listener's a number of its own (20 at `initialize.cpp:577`).

## 4. Runs

Each run is complete for its bounds. "Violation" runs show one property that a
document or comment states and the code does not keep (section 6).

| Run | Instance | What it shows |
|---|---|---|
| `executor` | 2 queries of one kernel, 2 threads, 2 tasks, `attempts_limit` 2, 1 failure, 1 monitor move | one task at a time; tasks (but for those a monitor's exception destroys) and exceptions are conserved; retries end; a kernel leaves its wait only when drained, unless something threw; unless something throws, or the monitor writes to disk, every kernel returns |
| `executor_hang` (violation) | 1 kernel, 1 failing task | the lock order of `fail` and `has_exception` deadlocks |
| `executor_stolen_error` (violation) | 2 queries, 1 failing task | another query's kernel takes the exception; the failed one returns normally |
| `cache` | 5 settings, each with 2 producers of up to 4 batches and the monitor: a plain cache, concatenating ones for a kernel and for the output kernel, `concat_all` over empty tables, and one with every tier full or failing; 1 add that throws, and the producing kernel may abort at any moment | refinement of `BatchChannel`, conservation, completeness and a schema at the end, what concatenation may pass, one table for `concat_all`, no nullptr; the cache is finished unless a producer threw, and a finished one is read to its end |
| `cache_disk_hang` (violation) | 1 batch per producer, disk tier | the write loop has no exit on success |
| `distribution` | 2 nodes, up to 2 batches each, 2 or 3 inputs per kernel kind, INNER and FULL OUTER joins, 4 pairs of estimates, 2 parts, `attempts_limit` 2, and 2 tasks out of memory, or a lost message, or a node where tasks throw | completeness at return, counts never passed and a schema everywhere while nothing has thrown; no partition twice and the same decision everywhere whatever throws; all return if nothing is lost and nobody throws |
| `dist_right_join` (violation) | 2 nodes, LEFT and RIGHT JOIN | the preserved side of a RIGHT JOIN is broadcast |
| `allocation_pool` | 2 threads, 3 addresses, pools of 1, 2 and 3 buffers, both allocators, tables of 0 to 3 chunks, at most 5 buffers; threads and addresses are symmetric | one owner per chunk, memory in use stays and is found by its index, the counter counts, grown memory returns, a split table is whole |
| `partwise_join` | inputs of 0 to 3 batches, 1 exception of a task of the join or of another kernel, `attempts_limit` 2 | at the end all pairs are joined if nothing threw, none twice but for reruns, each batch is in one place, without failure the join returns |
| `join_retry_repeats` (violation) | the same | a rerun adds a pair's rows twice |
| `transport` | 3 nodes, 1 thread per pool (2 in the UCX listener's), broadcasts of 2 buffers, a table of 3 buffers and a message without any; TCP and UCX; 1 failure | tables arrive whole and at most once, receivers and buffers live as long as needed, threads are lost only to failed senders, without failure all arrive |
| `transport_deadlock` (violation) | 3 nodes, each broadcasts 3 buffers over TCP, 1 thread per pool, no failure | the receiving threads and the blocked senders wait for one another in a circle |

Why these bounds are enough for the cases at hand. Executor: two tasks and two
threads make every overlap of two lambdas, and `attempts_limit` 2 both a retry
that is allowed and one that is not. Cache: two producers race on
`something_added` and on the queue, and two batches each give a batch before and
one behind any batch; groups can be one, two or three batches. `MaxAddFaults` 1 is an
add that throws and is run again, or is the last of its kernel. Distribution: with two nodes each is both a sender and a receiver, and the inputs have an empty batch
first, an empty batch last, nothing but empty batches, and rows for one node only;
three nodes would add a second count to sum, which `to_ask` handles one by one.
`FaultBounds` allows two tasks out of memory, so that a task can use up its attempts;
or a lost message; or a node where tasks throw, whose kernel leaves its wait early and
of which the other node hears only by its counts. The kinds are not mixed: the
properties about complete results are stated for clusters where nothing threw, and the
others do not depend on losses. The theorems are about any mixture.
The estimates make
the left side small, the right side small, or neither; LEFT and
RIGHT JOIN have the other run, and CROSS JOIN differs from INNER only in what `small_side` answers. Pool: three
allocations are the least for an erase in the middle, with one before and one
behind it; five buffers allow three growths of a pool of two; the tables have an
empty buffer, a buffer that ends with its chunk and one over three chunks. Join:
three batches on a side make run() choose between a pair in the array caches, a
new batch and a wait. Transport: three nodes make a broadcast with a destination
that is served and one that is not yet; two buffers and a connection of capacity
one block a sender; one thread per pool is a setting the tests use (`configOptionsTest.py:46`).

Deadlock checking is off everywhere: a query that ended, a node whose peer's
message was lost and a pool whose bound is used up have nothing left to do.
Termination is checked as a property.

Fairness. Each thread of the process that can take a step takes one: weak
fairness per dispatcher, pool thread, kernel, producer, consumer, task and node,
and for the delivery of messages as a whole. Mutexes are held for finite times, and
every wait of the code re-tests its predicate (`wait_for` with a timeout or a notify
under the same mutex), so weak fairness is what the scheduler gives. The monitor
need not begin anything; what it has begun it completes, unless it writes to disk. A
producer of a cache adds its batches as long as its kernel has not aborted (after that
the executor may have stopped, `executor.cpp:219`). Nothing makes a kernel whose task
threw leave its wait and finish the cache, because of findings 1 and 2. `MessageTransport` has weak
fairness of all its steps that are no failures together: none of them can repeat
for ever, so that it means as much as fairness of each. Nothing makes a write fail,
memory run out or a message vanish, and no such step is fair.

## 5. Proofs

Every invariant that a run checks, and the refinement `IsFifoChannel`, is a theorem
checked by TLAPS, for every value of the constants within the assumptions below: any
number of kernels, threads, tasks, nodes, partitions, producers, batches, chunks,
retries and failures. What the code does after an exception is in the models; where it
breaks a property, the property says so: a kernel's result is complete if no task of
its process threw, a cache's end means everything if nothing was lost and its producer
did not abort, and the only tasks that vanish are those a throwing monitor held.

### Assumptions

`ExecutorAssumption`, `CacheAssumption`, `PoolAssumption`, `DistributionAssumption`,
`JoinAssumption` and `TransportAssumption` are the types of the parameters, that the
names of actors do not clash, and the following.

* A pool is made with at least one buffer, and its first allocation is within the
  bound `MaxBuffers` of the model.
* `NodeSeq` lists nodes without repetition, more than one; a message has at least
  one destination and none twice (its `worker_ids` are one node, or all the nodes of
  the query but the sender, `distributing_kernel.cpp:57`).
* A table has at most `MaxFrameId` = 65535 buffers: `frame_id` and the buffer index are
  a `uint16_t` (`messageReceiver.hpp:35`), which nothing checks. Beyond that two frames
  of a message have the same tag, and `TablesArriveWhole` says nothing.
* A partitioning kernel makes `Parts` partitions per node, any positive number
  (`MAX_NUM_ORDER_BY_PARTITIONS_PER_NODE`).
* `InputAssumption`: a batch is one table that one thread adds once, and a kernel's
  tasks add at least one table, if only an empty one. The second half is what
  `SchemaSurvives` of the cache before gives.
* `InputsHaveSchemas`: each node gets a table of each input, for the same reason.

TLC evaluates all of them on the instances of the runs.

### Library

`QueueTheorems` says what `Append`, `Tail`, `Front`, `RemoveAt`, `\o` and the rotation
of a queue do to its messages and to their being distinct. The induction theorems of
the prover's library take the property as an operator, which no backend can
instantiate; here the property is a set of numbers (`SetInduction`, `InductionUpTo`),
and induction comes from `LeastNat`, the least number outside it, which the library's
`NatLessThanWellFounded` gives. With it `TotalIs` says what the recursive function in
`Total` computes, and `TotalConcat`, `TotalAppend`, `TotalRemove`, `TotalTail` how
totals change; the proofs use only these.

### Executor

* `ExecutorProofs!TypeCorrect`, from `TypeInv`, which adds to `TypeOK` that a
  kernel about to put a task, and a thread inside a lambda, does have a task.
* `ExecutorProofs!OneAtATime`, from `MutexInv`: a thread is inside a task iff it
  holds `memory_safety_mutex`, and `active_tasks_counter` is 1 while the mutex is
  held after the gate and 0 while it is free. The counter makes the invariant
  inductive: the gate sleeps, and frees the mutex, only if it finds it above 0.
* `ExecutorResults!TasksAreConserved`, from `ConservationInv`. `Places` talks about
  positions in sequences; the inductive form (`PlaceInv`) says that queue, pool
  and the monitor's vector have no repetitions and are disjoint from one another
  and from what threads and kernels hold, `OwnerInv` that what is in one of them is
  exactly what some kernel waits for or the monitor destroyed, `RaisedInv` that a task that threw, or
  has no attempt left, is live only in the thread that deals with its exception.
* `ExecutorResults!RetriesEnd`, `ExceptionsAreConserved` (`ExceptionInv` adds
  that only a kernel that threw has rethrown; that a task about to be held was not
  held before comes from `RaisedInv`) and `ReturnMeansDrained` (`DrainedInv`: the
  same already holds between the wait and the return).

### CacheMachine

* `TypeCorrect`, from `TypeOK /\ InHand` (a producer in the middle of an add still
  has the batch it is adding).
* `NoNullDereferenced`, from `SeenIsThere`: between `wait_for_next` and the pull a
  message stays in the queue, unless a downgrade threw.
* `SchemaIsKept` and `ConcatAllGivesOne`, from `FlowInv`. `ProducersInv`: a producer
  that has gone past a batch has set `something_added` or found it set, and once it
  is set something was put, unless a table was lost; a cache that was finished, and not
  aborted, was added to by everybody. `ConsumerInv`: what the consumer
  holds at each point of its pull, and that it goes to its end only when the queue is
  finished and empty. `ConcatAllInv`: a cache with `concat_all` is read only after its
  end, and in one go.
* `CacheIsFifo`: the specification implements `BatchChannel` where a kernel reads and
  the tiers have room (`RoomInv`: nothing is lost, nothing is written to disk and no downgrade fails;
  `KernelInv`: the kernel's loop never puts back). Each action is shown to be a step of
  the channel or a stutter: an add is a put, or nothing when the table is skipped;
  an add that throws is nothing; `finish` is a close and `finish_aborted` an abort;
  a pop is a take, whatever is concatenated afterwards; a downgrade changes tiers and
  not the sequence of batches.
* `BatchesAreConserved`, from `TodoInv` and `PlaceInv`: waiting, queued, collected,
  taken, skipped and lost batches partition the input, and each of the sequences is
  without repetitions. The property counts occurrences in sequences; the partition of
  sets is what every action can be checked against.
* `ConcatKeepsItsBound`, from `CollectInv`: whenever the pull goes for one more
  message, what it has is within the bound; after the pop, all but the last is.
* `TheEndMeansEverything`, from `EndInv`. `RowsInv`: `num_rows_added` is the total of
  the rows taken, collected and queued, plus those of adds that have counted their
  table and not yet put it, plus what `recounted` batches counted too often; `SkippedInv`: only empty tables are skipped; `SeenInv`:
  what was taken is in a table that was delivered; `ProcessedInv`: `processed` counts
  what was put.

### DistributingKernel

`DistributionTypes`, `DecisionsAlike`, `CountsMatch`, `PartitionsSentOnce`,
`ReturnIsComplete` and `SchemasArrive`, all from `DistInv`. `ReturnIsComplete`,
`CountsMatch` and `SchemasArrive` are about clusters where no task threw: `leave_wait`
is the step that breaks each of them. The other three hold whatever throws.

* `DecisionInv`: an estimate under way is its sender's, so that a node that has heard
  of all decides as every other does.
* `CountInv`: `node_count[n][k][m]` is the number of tables that `n` sent to `m` for
  tracker `k`. Every table is a new one (`TableInv`, by its id), so counting up is
  adding an element to a set.
* `AnnouncedInv`: a count is sent by a node that is through with its tasks, so that
  it is final, as long as nothing threw. `SumInv`: the sum so far is the number of tables from the nodes that
  are no longer in `to_ask`. Hence a wait never finds more tables than announced, and
  one that finds as many has them all, since the tables in the cache are some of
  those sent.
* `DeliveredInv`: a task that is not in the queue has sent, or has still in `sends`,
  every part that belongs to somebody. `OnceInv`: without a rerun no part is sent
  twice. `SchemaInv`: a node keeps a table of each input, an empty one if need be.

### AllocationPool

* `ChunksHaveOneOwner`, `MemoryInUseStays` and `GrownMemoryIsReturned`, from
  `PoolInv`. `VectorInv` says that `index` is the position of every
  allocation in the vector and that its free chunks are its own, `HeldInv` that a
  chunk in use is of an allocation in the vector and not free, `UniqueInv` that it is
  in use once. The step that matters is the erase in `free_chunk`: all chunks
  of the allocation are free, and a chunk in use is not, so none of them was in use
  but the one that came back (`ReturnErases`); the positions behind it shift by one,
  which is what `Renumbered` does to `index`. `IdleInv` is there for `free_all`.
* `CounterIsRight`, from `CountInv`: the chunks in use are a finite set, and every
  step of the counter adds an element to it or takes one away. That needs
  `LeakedInv`: a leaked chunk is not free, so its allocation is never emptied, its
  address is not used again and nobody gets the chunk a second time.
* `SplitsAreWhole`, from `SplitInv`. `Written`: the pieces of the buffers before the
  current one add up to their sizes, those of the current one to `buffer_position`,
  and there is none of a later one. `Apart` and `InChunk`: the pieces of the last
  chunk end before `allocation_position`, so the next one lies behind them; the
  minimum in `piece_size` keeps both positions within their bounds.
* `TypeCorrect`, from the above and `NumberInv`: the renumbering lowers only the
  index of allocations behind another, and `allocation_counter` is a cardinality.

### PartwiseJoin

`JoinTypes`, `JoinIsComplete` and `JoinRepeatsNothing` from `JoinInv`,
`JoinKeepsBatches` from `PlaceInv` besides.

* `RunInv` is about `run()`: what it has in its hands at each point (`HandInv`), that
  a batch just loaded is in no marked pair (`FreshInv`), that the pair it has chosen
  was never marked (`ChosenInv`), and that it waits for its tasks only when both
  inputs are exhausted and every pair is marked (`ExhaustedInv`).
* `TaskInv` says what a mark means: the pair was added to the output, a task will do
  so, or some task of the process has failed; and no two tasks have the same pair.
* `PlaceInv`: a loaded batch is in its array cache, with `run()` or with one task, as
  long as nothing has failed or was rerun after its output.

### MessageTransport

`TransportTypes`, `TablesArriveWhole`, `NoRequestOutlivesTask`, `OnlyFailuresSpin` and
`ReceiverIsKept`, from `TransportInv`:

* `SendInv`: what a task has heard of and what is still under way never exceed what it
  asked for, so that a task that ends normally leaves no request behind.
* `TcpOf`: the frames in a connection are consecutive and go on where its reader
  stands, up to the last one written; only a reader whose sender failed spins.
* `UcxOf`: the frames received are the ones counted and the ones a thread is about to
  count, so that exactly the thread that counts the last one delivers, finds the table
  whole and the receiver registered.
* `WholeInv` and `QueueInv`: a message is delivered once at most, and a connection
  waits once for a thread of the pool. `ModeInv`: a cluster uses one protocol.

### Only model-checked

`KernelsReturn` (of the executor and of the distributing kernels), `ConsumerEnds`,
`JoinReturns` and `MessagesArrive`: liveness under fairness is out of the prover's
reach. So are the properties of the violation runs, which do not hold.

## 6. Disagreements between code and documents

With a run (`findings` in `PROJECT.json`):

1. `executor.cpp:249` locks `kernel_mutex` under `exception_holder_mutex`, the
   kernel's wait locks them the other way round: a failing task can hang its query.
2. `executor.cpp:258` gives any kernel of any query the oldest exception.
3. `CacheDataLocalFile.cpp:39` never leaves its loop after a successful write.
4. `BatchJoinProcessing.cpp:842` may broadcast the preserved side of a RIGHT JOIN.
5. `BatchJoinProcessing.cpp:503` reruns a join task whose output was already added.
6. `initialize.cpp:593` sizes the receiving pools by the option for sending: with as
   many broadcasts under way as threads the nodes can block one another for good.

Seen in the models, without a run of their own:

* `executor.cpp:226` locks `memory_safety_mutex` until the lambda ends, `run()`
  included: tasks run one at a time. `apiv2/context.py:1399-1401` ("The number of
  threads available to run executor tasks simultaneously."), `executor.rst:15-21` (a
  "hard maximum number of concurrent tasks", and a task waits only if it "will take it
  over the threshold") and the comment at `executor.cpp:225` describe concurrent tasks
  behind a memory gate. The passing property `TasksRunOneAtATime` and its theorem
  `OneAtATime` are this disagreement, seen from the code: they say that the gate never
  waits and that a thread with a task waits for the other task instead. The
  one-task-at-a-time nodes of `DistributingKernel` rest on it; a repair of the lock
  would have to drop both.
* `MemoryMonitor.cpp:55` downgrades the inputs of tasks that it has taken off the
  queue, and nothing catches: if that throws, or does not end because it writes to disk
  (finding 3), the tasks are not put back as `MemoryMonitor.cpp:63-64` says, and their
  kernels wait for ever. `TasksConserved` lists these tasks (`destroyed`), and
  `KernelsReturn` is stated for a monitor that neither throws nor writes to disk.
* `executor.cpp:219`: after one exception the dispatcher returns for good, so the
  tasks of other queries stay queued; `KernelsReturn` is stated without failures.
* `MemoryMonitor.cpp:67` puts a taken task behind younger ones; `executor.rst:27`
  says FIFO.
* `graph.cpp:73` finishes a kernel's output cache whatever `run()` threw, and
  `graph.cpp:59` after a `run()` that returned early because of finding 2: the consumer
  sees a normal end of an incomplete, perhaps empty, cache, without a schema even
  (`SchemaSurvives` is stated for kernels that did not abort).
* `BatchAggregationProcessing.cpp:238`, `BatchJoinProcessing.cpp:920`,
  `BatchOrderByProcessing.cpp:437`, `BatchJoinProcessing.cpp:611`: a kernel that
  `has_exception()` releases, and whose exception another kernel took, sends counts that
  are too small or returns with pairs missing.
* `CacheMachine.cpp:320` counts the rows before the steps that can throw: an add that
  is run again counts them twice (`recounted`).
* `CacheMachine.cpp:307`: two producers of empty tables both see
  `something_added` false and both tables are added, against the comment above it.
* `CacheMachine.cpp:323`: with no tier below its limit an add returns true and the
  table is gone; the model counts it in `lost`.
* `CacheMachine.cpp:656`: a downgrade moves every message in the GPU, its comment
  says the first it finds.
* `CacheMachine.cpp:497`: `pullFromCache` uses a message before it tests it for
  nullptr; it gets one only after a failed downgrade (`NoNullPulled`).
* `CacheMachine.cpp:779`: the size of an empty queue's next message is 0, so that a
  concatenated table can pass `concat_cache_num_bytes` by its last batch, against
  `apiv2/context.py:1341` ("the max size in bytes").
* `BufferProvider.cpp:139`: a pool of one buffer grows by none, and the second
  `get_chunk` throws.
* `BufferProvider.cpp:275`: the chunks of a conversion that throws are not returned.
* `protocols.cpp:33`: `read` returning 0 is taken for no progress; after a sender
  failed, a thread of the listener's pool reads for ever.
* `protocols.cpp:415`: a constructor that throws at a later destination leaves the
  sockets it opened, and the receivers behind them, waiting.
* `protocols.cpp:320`: an error for one destination destroys the transport whose
  `this` the earlier requests' callbacks hold.
* `protocols.cpp:294`, `messageReceiver.hpp:35`: frame ids of 16 bits, which wrap
  for a table of more than 65535 buffers.
* `messageListener.cpp:180`: a connection whose `finish()` threw is closed twice. A
  descriptor that was given out again in between would be somebody else's.
* `BufferProvider.cpp:40` tests the argument of `aligned_alloc`, never null, not its
  result: chunks of memory that is not there are handed out (`data` is `"null"`).
* `BufferProvider.cpp:63`: one `mem_handle` for all growths, so that an erase unmaps
  whichever allocation was mapped last; the mapping is not in the model.
* `protocols.cpp:194`: one request with an error status ends the progress thread, and
  with it the process.
* `WaitingQueue.h:332`: `get_or_wait` on a finished queue without the message would
  never end; `PartwiseJoin` does not do that.
* `BatchJoinProcessing.cpp:570`: when a task threw, its batches never come back and
  `run()` stays in `get_or_wait`; `JoinReturns` ends at the failure.
* A task that runs out of memory in the middle of a scatter is run again and sends
  the first partitions twice; `PartitionsOnce` is stated without retries.

## 7. Not modelled

* Columns and what cudf computes on them; logging; timeouts that only log; CUDA
  streams; configuration.
* A second close of a descriptor that was reused in between, and more buffers than
  frame ids (section 6).
* The graph (`start_execute`, `finish_execute`, `set_kernels_order`) and the query's
  lifecycle (`engine.cpp`): a short sequence of calls from one thread; what can go
  wrong in it, an exception that skips the rest, is visible in the code and listed
  under the hazards.
* The exchanges of SortAndSample, Limit and the window functions, MergeStream, Union
  and the scan's LIMIT: on top of the messages and tasks modelled here they add
  computations on row counts and samples.
* The plan generator, expressions and skip data: sequential rewriting of strings
  and trees.
* `serializer.cpp`, the byte layout of a message's metadata, and acknowledgements,
  which `initialize.cpp` switches off.
* The Java planner, the Python layer and the file systems: a third-party optimiser,
  orchestration of dask workers, and input/output.
* `docs/_static`: the JavaScript of the generated documentation pages (jQuery,
  Underscore, Sphinx's search and theme). It is vendored or generated and no part of
  the engine.

`PROJECT.json` lists every component with its status and reason, and the hazards
of the parts without a model.
