----------------------------- MODULE PartwiseJoin -----------------------------
(***************************************************************************)
(* The kernel that joins two streams of batches by pairs: PartwiseJoin     *)
(* (execution_kernels/BatchJoinProcessing.cpp), its tasks (do_process, and *)
(* the retry of task::run in execution_graph/executor.cpp) and its two     *)
(* array caches, where a batch is found again by its index                 *)
(* (CacheMachine::put, get_all_indexes and get_or_wait_CacheData over      *)
(* WaitingQueue::get_or_wait).                                             *)
(*                                                                         *)
(* Actors: the kernel's run(), the tasks, which may run side by side, the  *)
(* kernels that feed the two inputs and the tasks of any other kernel of   *)
(* the process, which may throw.  A batch that a task has is in neither    *)
(* array cache until the task puts it back, and run() waits for it there.  *)
(*                                                                         *)
(* Abstracted: a batch is its index; what a join computes is the pair of   *)
(* indexes; whether the data of a task that ran out of memory is on the    *)
(* GPU, and so lost, is a free choice at that moment.                      *)
(***************************************************************************)
EXTENDS Integers, Sequences, FiniteSets, SequencesExt, FiniteSetsExt

CONSTANTS
    BatchCounts,     \* how many batches the left and the right input may have
    MaxBatches,      \* bound on the batches of an input
    MaxFaults,       \* bound on the exceptions of tasks, of any kernel
    attempts_limit   \* of the executor (10)

Sides == {"left", "right"}

ASSUME JoinAssumption ==
    /\ BatchCounts \subseteq [Sides -> 0 .. MaxBatches]
    /\ MaxBatches \in Nat
    /\ MaxFaults \in Nat
    /\ attempts_limit \in Nat \ {0}

VARIABLES
    batches,     \* how many batches each input will have; it never changes
    arrived,     \* how many of them have been put in the input's cache
    closed,      \* the input's cache is finished
    loaded,      \* max_left_ind + 1 and max_right_ind + 1
    array,       \* leftArrayCache and rightArrayCache, as queues of indexes
    completion_matrix,  \* the pairs that are marked
    pc,          \* where run() stands
    ind,         \* left_ind and right_ind
    in_hand,     \* the sides whose cache_data is set
    left_indices,  \* the local of check_for_another_set...
    tasks,       \* the tasks that are not completed
    outputs,     \* history: how often a pair was added to the output
    reput,       \* history: pairs whose task was rerun after its output
    failed,      \* a task of this kernel, or of another one, threw: the
                 \* exception is with the executor or was taken by a kernel
    faults       \* history: the exceptions of tasks

Indexes == 0 .. MaxBatches - 1
Pairs == Indexes \X Indexes

inputVars == <<batches, arrived, closed>>
runVars == <<loaded, completion_matrix, pc, ind, in_hand, left_indices>>
faultVars == <<reput, failed, faults>>
vars == <<inputVars, runVars, array, tasks, outputs, faultVars>>

Init ==
    /\ batches \in BatchCounts
    /\ arrived = [s \in Sides |-> 0]
    /\ closed = [s \in Sides |-> FALSE]
    /\ loaded = [s \in Sides |-> 0]
    /\ array = [s \in Sides |-> <<>>]
    /\ completion_matrix = {}
    /\ pc = "first"
    /\ ind = [s \in Sides |-> -1]
    /\ in_hand = {}
    /\ left_indices = <<>>
    /\ tasks = {}
    /\ outputs = [p \in Pairs |-> 0]
    /\ reput = {}
    /\ failed = FALSE
    /\ faults = 0

-----------------------------------------------------------------------------
(* The inputs.                                                             *)

arrive(s) ==
    /\ arrived[s] < batches[s]
    /\ arrived' = [arrived EXCEPT ![s] = @ + 1]
    /\ UNCHANGED <<batches, closed, runVars, array, tasks, outputs, faultVars>>

\* finish() of the input's cache: after its last batch, or before it when the
\* kernel that feeds it threw or returned early because of an exception.
close(s) ==
    /\ arrived[s] = batches[s] \/ failed
    /\ ~closed[s]
    /\ closed' = [closed EXCEPT ![s] = TRUE]
    /\ UNCHANGED <<batches, arrived, runVars, array, tasks, outputs, faultVars>>

\* What wait_for_next waits for, and what it returns.
HasNext(s) == loaded[s] < arrived[s]
NextKnown(s) == HasNext(s) \/ closed[s]

-----------------------------------------------------------------------------
(* run().                                                                  *)

runUnchanged == <<inputVars, tasks, outputs, faultVars>>

\* The first turn waits for both inputs and loads a batch of each; an input
\* without any is an exception.
load_first ==
    /\ pc = "first"
    /\ \A s \in Sides : NextKnown(s)
    /\ \/ /\ \A s \in Sides : HasNext(s)
          /\ loaded' = [s \in Sides |-> 1]
          /\ ind' = [s \in Sides |-> 0]
          /\ in_hand' = Sides
          /\ pc' = "add"
       \/ /\ \E s \in Sides : ~HasNext(s)
          /\ pc' = "threw"
          /\ UNCHANGED <<loaded, ind, in_hand>>
    /\ UNCHANGED <<completion_matrix, left_indices, array, runUnchanged>>

\* A turn begins: leftArrayCache->get_all_indexes().
check_left ==
    /\ pc = "check"
    /\ left_indices' = array["left"]
    /\ pc' = "check_right"
    /\ UNCHANGED <<loaded, completion_matrix, ind, in_hand, array, runUnchanged>>

\* The order of the nested loops over the left and over the right.
NotAfter(p, q) == p[1] < q[1] \/ (p[1] = q[1] /\ p[2] <= q[2])

\* Mutant: a pair whose batches are both there is taken, completed or not.
FirstPair_any(ls, rs) ==
    IF ls = <<>> \/ rs = <<>> THEN <<-1, -1>> ELSE <<ls[1], rs[1]>>

\* The first pair that is not completed, by position in the two lists.
FirstPair(ls, rs) ==
    LET todo == {p \in (DOMAIN ls) \X (DOMAIN rs) :
                     <<ls[p[1]], rs[p[2]]>> \notin completion_matrix}
    IN  IF todo = {} THEN <<-1, -1>>
        ELSE LET first == CHOOSE p \in todo : \A q \in todo :
                              NotAfter(p, q)
             IN  <<ls[first[1]], rs[first[2]]>>

\* check_for_another_set_to_do_with_data_we_already_have()
check_right ==
    /\ pc = "check_right"
    /\ LET p == FirstPair(left_indices, array["right"]) IN
       /\ ind' = [s \in Sides |-> IF s = "left" THEN p[1] ELSE p[2]]
       /\ pc' = IF p[1] >= 0 THEN "take_left" ELSE "load_left"
    /\ UNCHANGED <<loaded, completion_matrix, in_hand, left_indices, array,
                   runUnchanged>>

\* Mutant: the index is one ahead of the count of the batches loaded before.
load_ahead(s, here, next) ==
    /\ pc = here
    /\ NextKnown(s)
    /\ pc' = next
    /\ \/ /\ HasNext(s)
          /\ ind' = [ind EXCEPT ![s] = loaded[s] + 1]
          /\ loaded' = [loaded EXCEPT ![s] = @ + 1]
          /\ in_hand' = in_hand \cup {s}
       \/ /\ ~HasNext(s)
          /\ UNCHANGED <<ind, loaded, in_hand>>
    /\ UNCHANGED <<completion_matrix, left_indices, array, runUnchanged>>

\* wait_for_next, and then load_left_set or load_right_set.
load(s, here, next) ==
    /\ pc = here
    /\ NextKnown(s)
    /\ pc' = next
    /\ \/ /\ HasNext(s)
          /\ ind' = [ind EXCEPT ![s] = loaded[s]]
          /\ loaded' = [loaded EXCEPT ![s] = @ + 1]
          /\ in_hand' = in_hand \cup {s}
       \/ /\ ~HasNext(s)
          /\ UNCHANGED <<ind, loaded, in_hand>>
    /\ UNCHANGED <<completion_matrix, left_indices, array, runUnchanged>>

\* The index to pair a new batch with: of the batch that is first in the other
\* array cache, or the first batch of all.
Partner(s) == IF array[s] = <<>> THEN 0 ELSE Head(array[s])

\* Mutant: the last row of the matrix is not looked at.
Uncompleted_short ==
    {p \in (0 .. loaded["left"] - 2) \X (0 .. loaded["right"] - 1) :
        p \notin completion_matrix}

\* check_for_set_that_has_not_been_completed(), all of them
Uncompleted ==
    {p \in (0 .. loaded["left"] - 1) \X (0 .. loaded["right"] - 1) :
        p \notin completion_matrix}

\* What to pair what was loaded with; when nothing was, the first pair that is
\* left, or the end.
pair ==
    /\ pc = "pair"
    /\ \/ /\ in_hand = Sides
          /\ pc' = "add"
          /\ UNCHANGED ind
       \/ /\ in_hand = {"left"}
          /\ ind' = [ind EXCEPT !["right"] = Partner("right")]
          /\ pc' = "take_right"
       \/ /\ in_hand = {"right"}
          /\ ind' = [ind EXCEPT !["left"] = Partner("left")]
          /\ pc' = "take_left"
       \/ /\ in_hand = {}
          /\ \E p \in Uncompleted :
             /\ \A q \in Uncompleted : NotAfter(p, q)
             /\ ind' = [s \in Sides |-> IF s = "left" THEN p[1] ELSE p[2]]
          /\ pc' = "take_left"
       \/ /\ in_hand = {}
          /\ Uncompleted = {}
          /\ pc' = "wait"
          /\ UNCHANGED ind
    /\ UNCHANGED <<loaded, completion_matrix, in_hand, left_indices, array,
                   runUnchanged>>

\* WaitingQueue::get_or_wait: the messages before the one that is wanted go to
\* the back of the queue.
get_or_wait(s, k) ==
    \E i \in DOMAIN array[s] :
        /\ array[s][i] = k
        /\ \A j \in 1 .. i - 1 : array[s][j] # k
        /\ array' = [array EXCEPT ![s] =
                         SubSeq(@, i + 1, Len(@)) \o SubSeq(@, 1, i - 1)]

\* get_or_wait_CacheData on the left, and then on the right if need be.
take(s, here) ==
    /\ pc = here
    /\ get_or_wait(s, ind[s])
    /\ in_hand' = in_hand \cup {s}
    /\ pc' = IF in_hand \cup {s} = Sides THEN "add" ELSE "take_right"
    /\ UNCHANGED <<loaded, completion_matrix, ind, left_indices, runUnchanged>>

mark_set_completed(p) == completion_matrix' = completion_matrix \cup {p}

\* executor::add_task, then mark_set_completed.
add_task ==
    /\ pc = "add"
    /\ LET p == <<ind["left"], ind["right"]>> IN
       /\ tasks' = tasks \cup {[pair |-> p, stage |-> "join", attempts |-> 0]}
       /\ mark_set_completed(p)
    /\ in_hand' = {}
    /\ ind' = [s \in Sides |-> -1]
    /\ pc' = "check"
    /\ UNCHANGED <<loaded, left_indices, array, inputVars, outputs, faultVars>>

\* The wait for tasks.empty() || has_exception().  last_exception() gives what
\* any kernel's task threw, and it is rethrown; when there is none, or another
\* kernel has taken it, both array caches are cleared and run() returns.
finish ==
    /\ pc = "wait"
    /\ tasks = {} \/ failed
    /\ \/ /\ failed
          /\ pc' = "threw"
          /\ UNCHANGED array
       \/ /\ pc' = "done"
          /\ array' = [s \in Sides |-> <<>>]
    /\ UNCHANGED <<loaded, completion_matrix, ind, in_hand, left_indices,
                   runUnchanged>>

-----------------------------------------------------------------------------
(* The tasks.                                                              *)

taskUnchanged == <<inputVars, runVars>>

\* The join and add_to_output_cache.  A task that is in the executor's pool
\* runs even after one has thrown; the others may be left on its queue.
join_set(t) ==
    /\ t.stage = "join"
    /\ outputs' = [outputs EXCEPT ![t.pair] = @ + 1]
    /\ tasks' = (tasks \ {t}) \cup {[t EXCEPT !.stage = "put_left"]}
    /\ UNCHANGED <<array, taskUnchanged, faultVars>>

\* Mutant: the left batch is put under the right one's index.
put_left_swapped(t) ==
    /\ t.stage = "put_left"
    /\ array' = [array EXCEPT !["left"] = Append(@, t.pair[2])]
    /\ tasks' = (tasks \ {t}) \cup {[t EXCEPT !.stage = "put_right"]}
    /\ UNCHANGED <<outputs, taskUnchanged, faultVars>>

put_left(t) ==
    /\ t.stage = "put_left"
    /\ array' = [array EXCEPT !["left"] = Append(@, t.pair[1])]
    /\ tasks' = (tasks \ {t}) \cup {[t EXCEPT !.stage = "put_right"]}
    /\ UNCHANGED <<outputs, taskUnchanged, faultVars>>

\* Mutant: the right batch is not put back.
put_right_forgets(t) ==
    /\ t.stage = "put_right"
    /\ tasks' = tasks \ {t}
    /\ UNCHANGED <<array, outputs, taskUnchanged, faultVars>>

\* The right batch is put back and the task is complete.
put_right(t) ==
    /\ t.stage = "put_right"
    /\ array' = [array EXCEPT !["right"] = Append(@, t.pair[2])]
    /\ tasks' = tasks \ {t}
    /\ UNCHANGED <<outputs, taskUnchanged, faultVars>>

\* RETRY, from whatever stage: the task runs again from the start, if it has
\* attempts left.
rerun(t) ==
    /\ t.attempts + 1 < attempts_limit
    /\ tasks' = (tasks \ {t}) \cup
                {[t EXCEPT !.stage = "join", !.attempts = @ + 1]}

\* FAIL, or what a RETRY cannot recover.
throw(t) ==
    /\ failed' = TRUE
    /\ tasks' = tasks \ {t}
    /\ UNCHANGED reput

\* A step of the task throws.  rmm::bad_alloc before the output loses nothing;
\* after it, the batches that were moved into put() are lost, and the task is
\* rerun only if their CacheData can be decached again.  The task throws when
\* it cannot be rerun, and on any other exception.
exception(t) ==
    /\ faults < MaxFaults
    /\ faults' = faults + 1
    /\ \/ /\ rerun(t)
          /\ reput' = IF t.stage = "join" THEN reput ELSE reput \cup {t.pair}
          /\ UNCHANGED failed
       \/ throw(t)
    /\ UNCHANGED <<outputs, array, taskUnchanged>>

\* A task of another kernel throws: exception_holder is the whole process's.
other_throws ==
    /\ faults < MaxFaults
    /\ faults' = faults + 1
    /\ failed' = TRUE
    /\ UNCHANGED <<outputs, array, tasks, reput, taskUnchanged>>

-----------------------------------------------------------------------------
Run ==
    \/ load_first \/ check_left \/ check_right
    \/ load("left", "load_left", "load_right")
    \/ load("right", "load_right", "pair")
    \/ pair
    \/ take("left", "take_left") \/ take("right", "take_right")
    \/ add_task \/ finish

Process(t) == join_set(t) \/ put_left(t) \/ put_right(t)

Next ==
    \/ \E s \in Sides : arrive(s) \/ close(s)
    \/ Run
    \/ \E t \in tasks : Process(t) \/ exception(t)
    \/ other_throws

Spec == Init /\ [][Next]_vars

\* The kernels above feed and finish the inputs, run() goes on when it can, and
\* the executor runs every task until one throws; nothing promises that memory
\* runs out.
Fairness ==
    /\ \A s \in Sides : WF_vars(arrive(s) \/ close(s))
    /\ WF_vars(Run)
    /\ \A p \in Pairs : 
           WF_vars(~failed /\ \E t \in tasks : t.pair = p /\ Process(t))

FairSpec == Spec /\ Fairness

-----------------------------------------------------------------------------
(* Properties.                                                             *)

Stages == {"join", "put_left", "put_right"}

TypeOK ==
    /\ batches \in BatchCounts
    /\ arrived \in [Sides -> 0 .. MaxBatches]
    /\ closed \in [Sides -> BOOLEAN]
    /\ loaded \in [Sides -> 0 .. MaxBatches]
    /\ array \in [Sides -> Seq(Indexes)]
    /\ completion_matrix \subseteq Pairs
    /\ pc \in {"first", "check", "check_right", "load_left", "load_right",
               "pair", "take_left", "take_right", "add", "wait", "done",
               "threw"}
    /\ ind \in [Sides -> Indexes \cup {-1}]
    /\ in_hand \subseteq Sides
    /\ left_indices \in Seq(Indexes)
    /\ tasks \subseteq [pair : Pairs, stage : Stages,
                        attempts : 0 .. attempts_limit - 1]
    /\ outputs \in [Pairs -> Nat]
    /\ reput \subseteq Pairs
    /\ failed \in BOOLEAN
    /\ faults \in 0 .. MaxFaults

AllPairs == (0 .. batches["left"] - 1) \X (0 .. batches["right"] - 1)

\* When the kernel returns and no task of the process has thrown, every batch of
\* the left was joined with every batch of the right: the matrix, marked when a
\* task is created, the indexes that happened to be in the array caches and the
\* tasks that were still running left no pair out.  (After an exception run()
\* may return normally with pairs not joined: another kernel took it.)
EndMeansAllPairs ==
    pc = "done" /\ ~failed => \A p \in AllPairs : outputs[p] > 0

\* No pair is joined twice, unless its task was rerun after it had added its
\* output (see PairsJoinedOnce).
PairsNotRepeated == \A p \in Pairs : p \in reput \/ outputs[p] <= 1

\* How often batch k of side s is anywhere.
Places(s, k) ==
    LET at(t) == t.pair[IF s = "left" THEN 1 ELSE 2]
    IN  Cardinality({i \in DOMAIN array[s] : array[s][i] = k})
        + (IF s \in in_hand /\ ind[s] = k THEN 1 ELSE 0)
        + Cardinality({t \in tasks : at(t) = k
                           /\ ~(s = "left" /\ t.stage = "put_right")})

\* A batch that was loaded is in its array cache, in run()'s hands or with one
\* task: what run() waits for in get_or_wait comes back, and no two tasks work
\* on the same batch.
BatchInOnePlace ==
    pc # "done" /\ ~failed /\ reput = {} =>
        \A s \in Sides : \A k \in 0 .. loaded[s] - 1 : Places(s, k) = 1

\* No pair of batches is joined twice: a task that runs out of memory while it
\* puts its batches back "can still recover if the input was not a
\* GPUCacheData" (BatchJoinProcessing.cpp:502).
PairsJoinedOnce == \A p \in Pairs : outputs[p] <= 1

\* run() returns, or run() itself or a task of some kernel has thrown.
JoinReturns == <>(pc \in {"done", "threw"} \/ failed)
=============================================================================
