------------------------------- MODULE Executor -------------------------------
(***************************************************************************)
(* The task executor (execution_graph/executor.{h,cpp}), the part of every *)
(* kernel that creates tasks and waits for them (execution_kernels/kernel  *)
(* .{h,cpp} and the tail of each kernel's run()), and the half of the      *)
(* MemoryMonitor that downgrades the inputs of tasks (bmr/MemoryMonitor    *)
(* .cpp), whose downgrade may throw or, to disk, never end.                *)
(*                                                                         *)
(* Actors: the detached dispatcher thread that runs executor::execute(),   *)
(* the threads of its ctpl pool, one thread per kernel, and the monitor.   *)
(* Every mutex that is held over more than one step is a variable:         *)
(* memory_safety_mutex, exception_holder_mutex and each kernel_mutex.      *)
(*                                                                         *)
(* Abstracted: the tables (a task is its id), the memory estimate (the     *)
(* gate's comparison is a free choice), and where inputs live (do_process  *)
(* may or may not hand the inputs back with a RETRY).                      *)
(***************************************************************************)
EXTENDS Integers, Sequences, FiniteSets, SequencesExt

CONSTANTS
    Kernels,         \* the kernels of every query that is running
    Threads,         \* the threads of executor::pool (EXECUTOR_THREADS)
    QueryOf,         \* the query a kernel belongs to
    attempts_limit,  \* executor::attempts_limit (10 in the code)
    NoOne,           \* a mutex nobody holds, a task of nobody
    MaxTasks,        \* bound: tasks created in all
    MaxFailures,     \* bound: tasks that throw
    MaxMonitorMoves  \* bound: tasks the MemoryMonitor takes off the queue

ASSUME ExecutorAssumption ==
    /\ attempts_limit \in Nat \ {0}
    /\ MaxTasks \in Nat
    /\ MaxFailures \in Nat
    /\ MaxMonitorMoves \in Nat
    /\ NoOne \notin Kernels \cup Threads \cup (0 .. MaxTasks)
    /\ Kernels \cap Threads = {}

TaskIds == 0 .. MaxTasks - 1

VARIABLES
    task_id_counter,        \* executor::task_id_counter
    kernel_of,              \* task::kernel, by task id
    attempts,               \* task::attempts, by task id
    task_queue,             \* executor::task_queue
    dispatcher,             \* where executor::execute() stands
    pool,                   \* the lambdas pushed on executor::pool, in order
    thread,                 \* where each pool thread stands in its lambda
    cur_task,               \* the task of that lambda
    active_tasks_counter,   \* executor::active_tasks_counter
    memory_safety_mutex,    \* its holder
    exception_holder,       \* executor::exception_holder: the ids that threw
    exception_holder_mutex, \* its holder
    tasks,                  \* kernel::tasks
    kernel_mutex,           \* the holder of each kernel::kernel_mutex
    kernel_pc,              \* where each kernel's run() stands
    new_task,               \* the task a kernel is about to put
    rethrown,               \* the exception a kernel's run() threw
    raised,                 \* history: the tasks that threw
    held,                   \* the MemoryMonitor's `tasks` vector and, while it
                            \* downgrades one, its local `task` at the end
    monitor,                \* where the MemoryMonitor stands
    monitor_moves,          \* tasks it has taken so far (bounded)
    destroyed               \* history: tasks it destroyed by throwing

queueVars   == <<task_id_counter, kernel_of, attempts, task_queue>>
poolVars    == <<pool, thread, cur_task, active_tasks_counter,
                 memory_safety_mutex>>
errorVars   == <<exception_holder, exception_holder_mutex, raised>>
kernelVars  == <<tasks, kernel_mutex, kernel_pc, new_task, rethrown>>
monitorVars == <<held, monitor, monitor_moves, destroyed>>
vars == <<queueVars, dispatcher, poolVars, errorVars, kernelVars, monitorVars>>

ThreadPcs == {"idle", "lock", "asleep", "decache", "process", "complete",
              "throw", "fail", "release"}
KernelPcs == {"run", "put", "lock", "has_exception", "blocked",
              "last_exception", "done", "threw"}
MonitorPcs == {"take", "host", "disk", "return", "threw"}

Init ==
    /\ task_id_counter = 0
    /\ kernel_of = [t \in TaskIds |-> NoOne]
    /\ attempts = [t \in TaskIds |-> 0]
    /\ task_queue = <<>>
    /\ dispatcher = "check"
    /\ pool = <<>>
    /\ thread = [w \in Threads |-> "idle"]
    /\ cur_task = [w \in Threads |-> NoOne]
    /\ active_tasks_counter = 0
    /\ memory_safety_mutex = NoOne
    /\ exception_holder = <<>>
    /\ exception_holder_mutex = NoOne
    /\ tasks = [k \in Kernels |-> {}]
    /\ kernel_mutex = [k \in Kernels |-> NoOne]
    /\ kernel_pc = [k \in Kernels |-> "run"]
    /\ new_task = [k \in Kernels |-> NoOne]
    /\ rethrown = [k \in Kernels |-> NoOne]
    /\ raised = {}
    /\ held = <<>>
    /\ monitor = "take"
    /\ monitor_moves = 0
    /\ destroyed = {}

-----------------------------------------------------------------------------
(* A kernel's thread.                                                      *)

\* executor::add_task, first half: take an id, insert it in kernel::tasks.
add_task_begin(k) ==
    /\ kernel_pc[k] = "run"
    /\ task_id_counter < MaxTasks
    /\ kernel_mutex[k] = NoOne
    /\ task_id_counter' = task_id_counter + 1
    /\ kernel_of' = [kernel_of EXCEPT ![task_id_counter] = k]
    /\ tasks' = [tasks EXCEPT ![k] = @ \cup {task_id_counter}]
    /\ new_task' = [new_task EXCEPT ![k] = task_id_counter]
    /\ kernel_pc' = [kernel_pc EXCEPT ![k] = "put"]
    /\ UNCHANGED <<attempts, task_queue, dispatcher, poolVars, errorVars,
                   kernel_mutex, rethrown, monitorVars>>

\* Mutant: the task is put after it was moved from.
add_task_put_moved(k) ==
    /\ kernel_pc[k] = "put"
    /\ task_queue' = Append(task_queue, NoOne)
    /\ new_task' = [new_task EXCEPT ![k] = NoOne]
    /\ kernel_pc' = [kernel_pc EXCEPT ![k] = "run"]
    /\ UNCHANGED <<task_id_counter, kernel_of, attempts, dispatcher, poolVars,
                   errorVars, tasks, kernel_mutex, rethrown, monitorVars>>

\* executor::add_task, second half: task_queue.put.
add_task_put(k) ==
    /\ kernel_pc[k] = "put"
    /\ task_queue' = Append(task_queue, new_task[k])
    /\ new_task' = [new_task EXCEPT ![k] = NoOne]
    /\ kernel_pc' = [kernel_pc EXCEPT ![k] = "run"]
    /\ UNCHANGED <<task_id_counter, kernel_of, attempts, dispatcher, poolVars,
                   errorVars, tasks, kernel_mutex, rethrown, monitorVars>>

\* The input cache is drained: run() goes on to wait for its tasks.
start_wait(k) ==
    /\ kernel_pc[k] = "run"
    /\ kernel_pc' = [kernel_pc EXCEPT ![k] = "lock"]
    /\ UNCHANGED <<queueVars, dispatcher, poolVars, errorVars, tasks,
                   kernel_mutex, new_task, rethrown, monitorVars>>

\* kernel_cv.wait: with kernel_mutex held, the predicate's tasks.empty().
wait_tasks_empty(k) ==
    /\ kernel_pc[k] = "lock"
    /\ kernel_mutex[k] = NoOne
    /\ kernel_mutex' = [kernel_mutex EXCEPT ![k] = k]
    /\ kernel_pc' = [kernel_pc EXCEPT
          ![k] = IF tasks[k] = {} THEN "last_exception" ELSE "has_exception"]
    /\ UNCHANGED <<queueVars, dispatcher, poolVars, errorVars, tasks,
                   new_task, rethrown, monitorVars>>

\* The predicate's second operand, executor::has_exception(), which locks
\* exception_holder_mutex while kernel_mutex is held; if it is false the wait
\* releases kernel_mutex and sleeps.
wait_has_exception(k) ==
    /\ kernel_pc[k] = "has_exception"
    /\ exception_holder_mutex = NoOne
    /\ IF exception_holder # <<>>
       THEN /\ kernel_pc' = [kernel_pc EXCEPT ![k] = "last_exception"]
            /\ UNCHANGED kernel_mutex
       ELSE /\ kernel_pc' = [kernel_pc EXCEPT ![k] = "blocked"]
            /\ kernel_mutex' = [kernel_mutex EXCEPT ![k] = NoOne]
    /\ UNCHANGED <<queueVars, dispatcher, poolVars, errorVars, tasks,
                   new_task, rethrown, monitorVars>>

\* Mutant: last_exception() copies the front exception and forgets the pop.
last_exception_no_pop(k) ==
    /\ kernel_pc[k] = "last_exception"
    /\ exception_holder_mutex = NoOne
    /\ kernel_mutex' = [kernel_mutex EXCEPT ![k] = NoOne]
    /\ IF exception_holder # <<>>
       THEN /\ rethrown' = [rethrown EXCEPT ![k] = Head(exception_holder)]
            /\ kernel_pc' = [kernel_pc EXCEPT ![k] = "threw"]
       ELSE /\ kernel_pc' = [kernel_pc EXCEPT ![k] = "done"]
            /\ UNCHANGED rethrown
    /\ UNCHANGED <<queueVars, dispatcher, poolVars, errorVars, tasks, new_task,
                   monitorVars>>

\* executor::last_exception(): pop the oldest exception of any kernel and
\* rethrow it; with none, run() returns normally. kernel_mutex is released.
last_exception(k) ==
    /\ kernel_pc[k] = "last_exception"
    /\ exception_holder_mutex = NoOne
    /\ kernel_mutex' = [kernel_mutex EXCEPT ![k] = NoOne]
    /\ IF exception_holder # <<>>
       THEN /\ rethrown' = [rethrown EXCEPT ![k] = Head(exception_holder)]
            /\ exception_holder' = Tail(exception_holder)
            /\ kernel_pc' = [kernel_pc EXCEPT ![k] = "threw"]
       ELSE /\ kernel_pc' = [kernel_pc EXCEPT ![k] = "done"]
            /\ UNCHANGED <<rethrown, exception_holder>>
    /\ UNCHANGED <<queueVars, dispatcher, poolVars, exception_holder_mutex,
                   raised, tasks, new_task, monitorVars>>

-----------------------------------------------------------------------------
(* The dispatcher thread: executor::execute().                             *)

\* The loop condition; exception_holder is read without its mutex.
execute_check ==
    /\ dispatcher = "check"
    /\ dispatcher' = IF exception_holder = <<>> THEN "pop" ELSE "stopped"
    /\ UNCHANGED <<queueVars, poolVars, errorVars, kernelVars, monitorVars>>

\* task_queue.pop_or_wait() and pool.push.
execute_dispatch ==
    /\ dispatcher = "pop"
    /\ task_queue # <<>>
    /\ pool' = Append(pool, Head(task_queue))
    /\ task_queue' = Tail(task_queue)
    /\ dispatcher' = "check"
    /\ UNCHANGED <<task_id_counter, kernel_of, attempts, thread, cur_task,
                   active_tasks_counter, memory_safety_mutex, errorVars,
                   kernelVars, monitorVars>>

-----------------------------------------------------------------------------
(* A pool thread: the lambda of executor::execute() and task::run().       *)

\* The pool hands the oldest lambda to an idle thread.
pool_take(w) ==
    /\ thread[w] = "idle"
    /\ pool # <<>>
    /\ cur_task' = [cur_task EXCEPT ![w] = Head(pool)]
    /\ pool' = Tail(pool)
    /\ thread' = [thread EXCEPT ![w] = "lock"]
    /\ UNCHANGED <<queueVars, dispatcher, active_tasks_counter,
                   memory_safety_mutex, errorVars, kernelVars, monitorVars>>

\* The predicate of memory_safety_cv.wait; `fits` stands for
\* memory_needed < processing_memory_limit - get_memory_used().
may_start(fits) == fits \/ active_tasks_counter = 0

\* Mutant: the lock guards the wait only and is released before task::run().
memory_gate_unlocked(w) ==
    /\ thread[w] = "lock"
    /\ memory_safety_mutex = NoOne
    /\ \E fits \in BOOLEAN :
          IF may_start(fits)
          THEN /\ active_tasks_counter' = active_tasks_counter + 1
               /\ thread' = [thread EXCEPT ![w] = "decache"]
          ELSE /\ thread' = [thread EXCEPT ![w] = "asleep"]
               /\ UNCHANGED active_tasks_counter
    /\ UNCHANGED <<queueVars, dispatcher, pool, cur_task, memory_safety_mutex,
                   errorVars, kernelVars, monitorVars>>

\* unique_lock lock(memory_safety_mutex); memory_safety_cv.wait(lock, pred);
\* active_tasks_counter++. The lock is not released before the lambda ends.
memory_gate(w) ==
    /\ thread[w] = "lock"
    /\ memory_safety_mutex = NoOne
    /\ \E fits \in BOOLEAN :
          IF may_start(fits)
          THEN /\ memory_safety_mutex' = w
               /\ active_tasks_counter' = active_tasks_counter + 1
               /\ thread' = [thread EXCEPT ![w] = "decache"]
          ELSE /\ thread' = [thread EXCEPT ![w] = "asleep"]
               /\ UNCHANGED <<memory_safety_mutex, active_tasks_counter>>
    /\ UNCHANGED <<queueVars, dispatcher, pool, cur_task, errorVars,
                   kernelVars, monitorVars>>

\* One more task may still throw (bounded by MaxFailures).
CanThrow == Cardinality(raised) < MaxFailures

Throw(w) ==
    /\ CanThrow
    /\ thread' = [thread EXCEPT ![w] = "throw"]

\* Mutant: one attempt too many.
retry_or_throw_late(w) ==
    LET t == cur_task[w] IN
    /\ attempts' = [attempts EXCEPT ![t] = @ + 1]
    /\ IF attempts[t] + 1 <= attempts_limit
       THEN /\ task_queue' = Append(task_queue, t)
            /\ thread' = [thread EXCEPT ![w] = "release"]
       ELSE /\ Throw(w)
            /\ UNCHANGED task_queue

\* attempts++; put the task back on the queue, or throw at the limit.
retry_or_throw(w) ==
    LET t == cur_task[w] IN
    /\ attempts' = [attempts EXCEPT ![t] = @ + 1]
    /\ IF attempts[t] + 1 < attempts_limit
       THEN /\ task_queue' = Append(task_queue, t)
            /\ thread' = [thread EXCEPT ![w] = "release"]
       ELSE /\ Throw(w)
            /\ UNCHANGED task_queue

runFrame == <<task_id_counter, kernel_of, dispatcher, pool, cur_task,
              active_tasks_counter, memory_safety_mutex, errorVars, kernelVars,
              monitorVars>>

\* Every input is decached, or the limit stops the loop (then process() is
\* given no inputs and succeeds).
decache(w) ==
    /\ thread[w] = "decache"
    /\ thread' = [thread EXCEPT ![w] = "process"]
    /\ UNCHANGED <<attempts, task_queue, runFrame>>

\* rmm::bad_alloc while decaching: the inputs are restored.
decache_bad_alloc(w) ==
    /\ thread[w] = "decache"
    /\ retry_or_throw(w)
    /\ UNCHANGED runFrame

\* Any other exception while decaching is rethrown.
decache_error(w) ==
    /\ thread[w] = "decache"
    /\ Throw(w)
    /\ UNCHANGED <<attempts, task_queue, runFrame>>

\* kernel->process() returns SUCCESS.
process_success(w) ==
    /\ thread[w] = "process"
    /\ thread' = [thread EXCEPT ![w] = "complete"]
    /\ UNCHANGED <<attempts, task_queue, runFrame>>

\* Mutant: the re-queued task is also completed (a missing return).
process_retry_completes(w) ==
    /\ thread[w] = "process"
    /\ task_queue' = Append(task_queue, cur_task[w])
    /\ thread' = [thread EXCEPT ![w] = "complete"]
    /\ UNCHANGED <<attempts, runFrame>>

\* kernel->process() returns RETRY and every GPU input can be restored.
process_retry(w) ==
    /\ thread[w] = "process"
    /\ retry_or_throw(w)
    /\ UNCHANGED runFrame

\* RETRY with a GPU input lost, FAIL, or an exception out of process().
process_fail(w) ==
    /\ thread[w] = "process"
    /\ Throw(w)
    /\ UNCHANGED <<attempts, task_queue, runFrame>>

\* Mutants: a wake-up that does not test the predicate again, and none at all.
notify_kernel_no_predicate(k) ==
    kernel_pc' = [kernel_pc EXCEPT
        ![k] = IF @ = "blocked" THEN "last_exception" ELSE @]
notify_kernel_missing(k) == UNCHANGED kernel_pc

\* kernel_cv.notify_one(): a kernel asleep in its wait re-evaluates.
notify_kernel(k) ==
    kernel_pc' = [kernel_pc EXCEPT ![k] = IF @ = "blocked" THEN "lock" ELSE @]

\* task::complete() -> kernel::notify_complete().
notify_complete(w) ==
    LET t == cur_task[w]
        k == kernel_of[t] IN
    /\ thread[w] = "complete"
    /\ kernel_mutex[k] = NoOne
    /\ tasks' = [tasks EXCEPT ![k] = @ \ {t}]
    /\ notify_kernel(k)
    /\ thread' = [thread EXCEPT ![w] = "release"]
    /\ UNCHANGED <<queueVars, dispatcher, pool, cur_task, active_tasks_counter,
                   memory_safety_mutex, errorVars, kernel_mutex, new_task,
                   rethrown, monitorVars>>

\* catch(...): lock exception_holder_mutex and push the exception.
hold_exception(w) ==
    /\ thread[w] = "throw"
    /\ exception_holder_mutex = NoOne
    /\ exception_holder_mutex' = w
    /\ exception_holder' = Append(exception_holder, cur_task[w])
    /\ raised' = raised \cup {cur_task[w]}
    /\ thread' = [thread EXCEPT ![w] = "fail"]
    /\ UNCHANGED <<queueVars, dispatcher, pool, cur_task, active_tasks_counter,
                   memory_safety_mutex, kernelVars, monitorVars>>

\* task::fail() -> kernel::notify_fail(), exception_holder_mutex still held;
\* the end of the catch block releases it.
notify_fail(w) ==
    LET t == cur_task[w]
        k == kernel_of[t] IN
    /\ thread[w] = "fail"
    /\ kernel_mutex[k] = NoOne
    /\ tasks' = [tasks EXCEPT ![k] = @ \ {t}]
    /\ notify_kernel(k)
    /\ exception_holder_mutex' = NoOne
    /\ thread' = [thread EXCEPT ![w] = "release"]
    /\ UNCHANGED <<queueVars, dispatcher, pool, cur_task, active_tasks_counter,
                   memory_safety_mutex, exception_holder, raised, kernel_mutex,
                   new_task, rethrown, monitorVars>>

\* memory_safety_cv.notify_all(): sleepers contend for the mutex again.
WakeSleepers(th) ==
    [w \in Threads |-> IF th[w] = "asleep" THEN "lock" ELSE th[w]]

\* active_tasks_counter--, notify_all, and the lock's destructor.
release(w) ==
    /\ thread[w] = "release"
    /\ active_tasks_counter' = active_tasks_counter - 1
    /\ memory_safety_mutex' = NoOne
    /\ thread' = WakeSleepers([thread EXCEPT ![w] = "idle"])
    /\ cur_task' = [cur_task EXCEPT ![w] = NoOne]
    /\ UNCHANGED <<queueVars, dispatcher, pool, errorVars, kernelVars,
                   monitorVars>>

-----------------------------------------------------------------------------
(* The MemoryMonitor thread, once its caches are downgraded and memory is  *)
(* still short.                                                            *)

\* executor::remove_task_from_back() into the local `task`; its GPU inputs go to
\* the host when it has room, else to a file.
monitor_take ==
    /\ monitor = "take"
    /\ monitor_moves < MaxMonitorMoves
    /\ task_queue # <<>>
    /\ held' = Append(held, Last(task_queue))
    /\ task_queue' = Front(task_queue)
    /\ monitor' \in {"host", "disk"}
    /\ monitor_moves' = monitor_moves + 1
    /\ UNCHANGED <<task_id_counter, kernel_of, attempts, dispatcher, poolVars,
                   errorVars, kernelVars, destroyed>>

\* Every input is in host memory (or was not on the GPU): tasks.push_back.
monitor_downgraded ==
    /\ monitor = "host"
    /\ monitor' = "take"
    /\ UNCHANGED <<queueVars, dispatcher, poolVars, errorVars, kernelVars,
                   held, monitor_moves, destroyed>>

\* The downgrade throws (decache, the chunks of CPUCacheData, ten failed
\* write_orc): the exception leaves the thread's lambda for good and destroys
\* `task` and `tasks`. The constructor of CacheDataLocalFile has no other exit.
monitor_throws ==
    /\ monitor \in {"host", "disk"}
    /\ monitor' = "threw"
    /\ destroyed' = destroyed \cup ToSet(held)
    /\ held' = <<>>
    /\ UNCHANGED <<queueVars, dispatcher, poolVars, errorVars, kernelVars,
                   monitor_moves>>

\* Memory is low enough, or the queue is empty: leave the loop.
monitor_stop_taking ==
    /\ monitor = "take"
    /\ held # <<>>
    /\ monitor' = "return"
    /\ UNCHANGED <<queueVars, dispatcher, poolVars, errorVars, kernelVars,
                   held, monitor_moves, destroyed>>

\* executor::add_task(tasks[i]), the last one taken first; after the last one
\* notify_memory_safety_cv().
monitor_return ==
    /\ monitor = "return"
    /\ task_queue' = Append(task_queue, Last(held))
    /\ held' = Front(held)
    /\ IF Len(held) = 1
       THEN /\ monitor' = "take"
            /\ thread' = WakeSleepers(thread)
       ELSE UNCHANGED <<monitor, thread>>
    /\ UNCHANGED <<task_id_counter, kernel_of, attempts, dispatcher, pool,
                   cur_task, active_tasks_counter, memory_safety_mutex,
                   errorVars, kernelVars, monitor_moves, destroyed>>

-----------------------------------------------------------------------------
KernelNext(k) ==
    \/ add_task_begin(k)
    \/ add_task_put(k)
    \/ start_wait(k)
    \/ wait_tasks_empty(k)
    \/ wait_has_exception(k)
    \/ last_exception(k)

DispatcherNext == execute_check \/ execute_dispatch

ThreadNext(w) ==
    \/ pool_take(w)
    \/ memory_gate(w)
    \/ decache(w)
    \/ decache_bad_alloc(w)
    \/ decache_error(w)
    \/ process_success(w)
    \/ process_retry(w)
    \/ process_fail(w)
    \/ notify_complete(w)
    \/ hold_exception(w)
    \/ notify_fail(w)
    \/ release(w)

MonitorNext ==
    \/ monitor_take
    \/ monitor_downgraded
    \/ monitor_throws
    \/ monitor_stop_taking
    \/ monitor_return

Next ==
    \/ \E k \in Kernels : KernelNext(k)
    \/ DispatcherNext
    \/ \E w \in Threads : ThreadNext(w)
    \/ MonitorNext

Spec == Init /\ [][Next]_vars

(***************************************************************************)
(* The operating system runs every thread that can run. A kernel is fed a  *)
(* finite input, so it stops adding tasks; the monitor leaves its loop once*)
(* memory is freed or the queue is empty. Nothing makes the write of an    *)
(* input to disk end: its loop is left only by throwing.                   *)
(***************************************************************************)
FairSpec ==
    /\ Spec
    /\ WF_vars(DispatcherNext)
    /\ \A w \in Threads : WF_vars(ThreadNext(w))
    /\ \A k \in Kernels : WF_vars(KernelNext(k)) /\ WF_vars(start_wait(k))
    /\ WF_vars(monitor_downgraded)
    /\ WF_vars(monitor_stop_taking) /\ WF_vars(monitor_return)

-----------------------------------------------------------------------------
(* Properties.                                                             *)

\* Every variable keeps its type: the queues hold ids of real tasks (never a
\* moved-from pointer), a mutex is held by an actor that can hold it.
TypeOK ==
    /\ task_id_counter \in 0 .. MaxTasks
    /\ kernel_of \in [TaskIds -> Kernels \cup {NoOne}]
    /\ attempts \in [TaskIds -> Nat]
    /\ task_queue \in Seq(TaskIds)
    /\ dispatcher \in {"check", "pop", "stopped"}
    /\ pool \in Seq(TaskIds)
    /\ thread \in [Threads -> ThreadPcs]
    /\ cur_task \in [Threads -> TaskIds \cup {NoOne}]
    /\ active_tasks_counter \in Int
    /\ memory_safety_mutex \in Threads \cup {NoOne}
    /\ exception_holder \in Seq(TaskIds)
    /\ exception_holder_mutex \in Threads \cup {NoOne}
    /\ tasks \in [Kernels -> SUBSET TaskIds]
    /\ kernel_mutex \in [Kernels -> Kernels \cup {NoOne}]
    /\ kernel_pc \in [Kernels -> KernelPcs]
    /\ new_task \in [Kernels -> TaskIds \cup {NoOne}]
    /\ rethrown \in [Kernels -> TaskIds \cup {NoOne}]
    /\ raised \in SUBSET TaskIds
    /\ held \in Seq(TaskIds)
    /\ monitor \in MonitorPcs
    /\ monitor_moves \in 0 .. MaxMonitorMoves
    /\ destroyed \subseteq TaskIds

\* The steps of the lambda that run with memory_safety_mutex held.
InTask == {"decache", "process", "complete", "throw", "fail", "release"}

\* Two pool threads are never inside task::run() together, whatever
\* EXECUTOR_THREADS is, because execute()'s lambda keeps memory_safety_mutex
\* until it ends; and the memory gate never makes a task sleep, because the
\* counter it tests is then always 0. This is what the code does, and not what
\* context.py (EXECUTOR_THREADS: "to run executor tasks simultaneously"),
\* executor.rst and the comment above the lock say: see the README.
TasksRunOneAtATime ==
    /\ \A v, w \in Threads : thread[v] \in InTask /\ thread[w] \in InTask => v = w
    /\ \A w \in Threads : thread[w] # "asleep"

\* The places a live task can be: not yet put, queued, taken by the monitor,
\* pushed on the pool, or in a pool thread's lambda before that lambda
\* completes, fails or re-queues it.
Places(t) ==
    {<<"new", k>> : k \in {j \in Kernels : new_task[j] = t}}
    \cup {<<"queue", i>> : i \in {j \in 1 .. Len(task_queue) : task_queue[j] = t}}
    \cup {<<"held", i>> : i \in {j \in 1 .. Len(held) : held[j] = t}}
    \cup {<<"pool", i>> : i \in {j \in 1 .. Len(pool) : pool[j] = t}}
    \cup {<<"thread", w>> : w \in {v \in Threads :
             cur_task[v] = t /\ thread[v] \notin {"idle", "release"}}}

\* No task is lost or duplicated by add_task, dispatch, retry or the
\* MemoryMonitor's remove_task_from_back/add_task: each id in a kernel's set
\* is in exactly one place, and nothing is anywhere that its kernel does not
\* wait for. The one exception is the monitor's own: the tasks its thread held
\* when a downgrade threw are nowhere, and their kernels still wait for them.
TasksConserved ==
    /\ \A t \in TaskIds :
        /\ \A p, q \in Places(t) : p = q
        /\ t \in destroyed => Places(t) = {}
        /\ \A k \in Kernels :
              t \in tasks[k] <=> k = kernel_of[t] /\ (Places(t) # {} \/ t \in destroyed)
    /\ destroyed # {} => monitor = "threw"

\* An exception caught in execute() is delivered exactly once: it waits in
\* exception_holder or was rethrown by exactly one kernel's run().
ExceptionsConserved ==
    /\ raised = ToSet(exception_holder) \cup ({rethrown[k] : k \in Kernels} \ {NoOne})
    /\ IsInjective(exception_holder)
    /\ \A k \in Kernels : rethrown[k] \notin ToSet(exception_holder)
    /\ \A j, k \in Kernels : rethrown[j] = rethrown[k] => j = k \/ rethrown[j] = NoOne

\* A task that has used up attempts_limit attempts is not queued once more: its
\* exception is in flight to, or has reached, exception_holder.
RetriesEndInException ==
    \A t \in TaskIds :
        attempts[t] >= attempts_limit =>
            \/ t \in raised
            \/ \E w \in Threads : cur_task[w] = t /\ thread[w] = "throw"

\* A kernel's run() returns normally with tasks outstanding only when some task
\* has thrown: until then its wait is left only once its set is empty.
NormalReturnMeansDrained ==
    raised = {} => \A k \in Kernels : kernel_pc[k] = "done" => tasks[k] = {}

\* Unless some task throws, or the MemoryMonitor is writing or has destroyed the
\* inputs of a task it took, every kernel's wait ends and its run() returns: no
\* wake-up is lost between notify_one and the wait, retries included.
KernelsReturn ==
    \A k \in Kernels : <>(\/ kernel_pc[k] = "done"
                           \/ raised # {}
                           \/ monitor \in {"disk", "threw"})

\* executor.rst: "If a task cannot be recreated, then the query will be
\* terminated with an error" - here: some kernel of its query rethrows.
FailedTaskEndsQuery ==
    \A t \in TaskIds :
        (t \in raised) ~>
            (\E k, j \in Kernels : /\ j = kernel_of[t]
                                   /\ QueryOf[k] = QueryOf[j]
                                   /\ kernel_pc[k] = "threw")

\* The same promise as a state property: once every kernel of a query has
\* returned, a query one of whose tasks threw has a kernel that threw.
FailedQueryReportsError ==
    \A t \in raised :
        LET q == {k \in Kernels : QueryOf[k] = QueryOf[kernel_of[t]]} IN
        (\A k \in q : kernel_pc[k] \in {"done", "threw"})
            => \E k \in q : kernel_pc[k] = "threw"

=============================================================================
