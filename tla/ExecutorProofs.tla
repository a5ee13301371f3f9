---------------------------- MODULE ExecutorProofs ----------------------------
(***************************************************************************)
(* Machine-checked proofs about Executor, for every number of kernels,     *)
(* pool threads, tasks, failures and monitor moves.                        *)
(***************************************************************************)
EXTENDS Executor, QueueTheorems

-----------------------------------------------------------------------------
(* Type correctness. *)

\* What TypeOK needs to be inductive: a thread past pool_take has a task, a
\* kernel in the middle of add_task has one, and the monitor returns tasks only
\* while it holds some. It has destroyed tasks only once it threw.
TypeAux ==
    /\ \A w \in Threads : thread[w] # "idle" => cur_task[w] \in TaskIds
    /\ \A k \in Kernels : kernel_pc[k] = "put" => new_task[k] \in TaskIds
    /\ \A k \in Kernels : kernel_pc[k] # "put" => new_task[k] = NoOne
    /\ monitor = "return" => held # <<>>
    /\ destroyed # {} => monitor = "threw"

TypeInv == TypeOK /\ TypeAux

LEMMA TypeInit == Init => TypeInv
  BY ExecutorAssumption
     DEF Init, TypeInv, TypeOK, TypeAux, TaskIds, ThreadPcs, KernelPcs, MonitorPcs

LEMMA TypeKernel ==
    ASSUME TypeInv, NEW k \in Kernels, KernelNext(k)
    PROVE  TypeInv'
  <1> USE ExecutorAssumption DEF TypeInv, TypeOK, TypeAux, KernelPcs,
          queueVars, poolVars, errorVars, kernelVars, monitorVars
  <1>1. CASE add_task_begin(k)
    <2>1. /\ task_id_counter \in TaskIds
          /\ task_id_counter' \in 0 .. MaxTasks
      BY <1>1 DEF add_task_begin, TaskIds
    <2>2. QED
      BY <1>1, <2>1 DEF add_task_begin
  <1>2. CASE add_task_put(k)
    <2>1. task_queue' \in Seq(TaskIds)
      BY <1>2, AppendQueue DEF add_task_put
    <2>2. QED
      BY <1>2, <2>1 DEF add_task_put
  <1>3. CASE start_wait(k)
    BY <1>3 DEF start_wait
  <1>4. CASE wait_tasks_empty(k)
    BY <1>4 DEF wait_tasks_empty
  <1>5. CASE wait_has_exception(k)
    BY <1>5 DEF wait_has_exception
  <1>6. CASE last_exception(k)
    <2>1. CASE exception_holder # <<>>
      <3>1. /\ Head(exception_holder) \in TaskIds
            /\ Tail(exception_holder) \in Seq(TaskIds)
        BY <2>1, TailQueue
      <3>2. /\ rethrown' = [rethrown EXCEPT ![k] = Head(exception_holder)]
            /\ exception_holder' = Tail(exception_holder)
            /\ kernel_pc' = [kernel_pc EXCEPT ![k] = "threw"]
            /\ kernel_mutex' = [kernel_mutex EXCEPT ![k] = NoOne]
            /\ UNCHANGED <<queueVars, dispatcher, poolVars, exception_holder_mutex,
                           raised, tasks, new_task, monitorVars>>
        BY <1>6, <2>1 DEF last_exception
      <3>3. /\ rethrown' \in [Kernels -> TaskIds \cup {NoOne}]
            /\ kernel_pc' \in [Kernels -> KernelPcs]
            /\ \A j \in Kernels : kernel_pc'[j] = "put" <=> kernel_pc[j] = "put"
        BY <1>6, <3>1, <3>2 DEF last_exception
      <3>4. kernel_mutex' \in [Kernels -> Kernels \cup {NoOne}]
        BY <3>2
      <3>5. QED
        BY <3>1, <3>2, <3>3, <3>4
    <2>2. CASE exception_holder = <<>>
      BY <1>6, <2>2 DEF last_exception
    <2>3. QED
      BY <2>1, <2>2
  <1>7. QED
    BY <1>1, <1>2, <1>3, <1>4, <1>5, <1>6 DEF KernelNext

LEMMA TypeDispatcher ==
    ASSUME TypeInv, DispatcherNext
    PROVE  TypeInv'
  <1> USE ExecutorAssumption DEF TypeInv, TypeOK, TypeAux,
          queueVars, poolVars, errorVars, kernelVars, monitorVars
  <1>1. CASE execute_check
    BY <1>1 DEF execute_check
  <1>2. CASE execute_dispatch
    BY <1>2, TailQueue, AppendQueue DEF execute_dispatch
  <1>3. QED
    BY <1>1, <1>2 DEF DispatcherNext

LEMMA TypeThread ==
    ASSUME TypeInv, NEW w \in Threads, ThreadNext(w)
    PROVE  TypeInv'
  <1> USE ExecutorAssumption DEF TypeInv, TypeOK, TypeAux, ThreadPcs, KernelPcs,
          queueVars, poolVars, errorVars, kernelVars, monitorVars, runFrame
  <1>1. CASE pool_take(w)
    BY <1>1, TailQueue DEF pool_take
  <1>2. CASE memory_gate(w)
    <2>1. PICK fits \in BOOLEAN :
            IF may_start(fits)
            THEN /\ memory_safety_mutex' = w
                 /\ active_tasks_counter' = active_tasks_counter + 1
                 /\ thread' = [thread EXCEPT ![w] = "decache"]
            ELSE /\ thread' = [thread EXCEPT ![w] = "asleep"]
                 /\ UNCHANGED <<memory_safety_mutex, active_tasks_counter>>
      BY <1>2 DEF memory_gate
    <2>2. /\ UNCHANGED <<queueVars, dispatcher, pool, cur_task, errorVars,
                         kernelVars, monitorVars>>
          /\ thread[w] = "lock"
      BY <1>2 DEF memory_gate
    <2>3. CASE may_start(fits)
      <3>1. /\ memory_safety_mutex' = w
            /\ active_tasks_counter' = active_tasks_counter + 1
            /\ thread' = [thread EXCEPT ![w] = "decache"]
        BY <2>1, <2>3
      <3>2. QED
        BY <2>2, <3>1
    <2>4. CASE ~may_start(fits)
      <3>1. /\ thread' = [thread EXCEPT ![w] = "asleep"]
            /\ UNCHANGED <<memory_safety_mutex, active_tasks_counter>>
        BY <2>1, <2>4
      <3>2. QED
        BY <2>2, <3>1
    <2>5. QED
      BY <2>3, <2>4
  <1>3. CASE decache(w)
    BY <1>3 DEF decache
  <1>4. CASE decache_bad_alloc(w) \/ process_retry(w)
    <2>0. /\ cur_task[w] \in TaskIds
          /\ attempts' = [attempts EXCEPT ![cur_task[w]] = @ + 1]
      BY <1>4 DEF decache_bad_alloc, process_retry, retry_or_throw
    <2>1. /\ cur_task[w] \in TaskIds
          /\ attempts' \in [TaskIds -> Nat]
      BY <2>0
    <2>2. Append(task_queue, cur_task[w]) \in Seq(TaskIds)
      BY <2>1, AppendQueue
    <2>3. /\ task_queue' \in Seq(TaskIds)
          /\ \/ thread' = [thread EXCEPT ![w] = "release"]
             \/ thread' = [thread EXCEPT ![w] = "throw"]
      BY <1>4, <2>2 DEF decache_bad_alloc, process_retry, retry_or_throw, Throw
    <2>4. QED
      BY <1>4, <2>1, <2>3 DEF decache_bad_alloc, process_retry
  <1>5. CASE decache_error(w) \/ process_fail(w)
    BY <1>5 DEF decache_error, process_fail, Throw
  <1>6. CASE process_success(w)
    BY <1>6 DEF process_success
  <1>7. CASE notify_complete(w)
    BY <1>7 DEF notify_complete, notify_kernel
  <1>8. CASE hold_exception(w)
    BY <1>8, AppendQueue DEF hold_exception
  <1>9. CASE notify_fail(w)
    BY <1>9 DEF notify_fail, notify_kernel
  <1>10. CASE release(w)
    BY <1>10 DEF release, WakeSleepers
  <1>11. QED
    BY <1>1, <1>2, <1>3, <1>4, <1>5, <1>6, <1>7, <1>8, <1>9, <1>10
       DEF ThreadNext

LEMMA TypeMonitor ==
    ASSUME TypeInv, MonitorNext
    PROVE  TypeInv'
  <1> USE ExecutorAssumption DEF TypeInv, TypeOK, TypeAux, ThreadPcs, MonitorPcs,
          queueVars, poolVars, errorVars, kernelVars, monitorVars
  <1>1. CASE monitor_take
    <2>1. /\ held' \in Seq(TaskIds)
          /\ task_queue' \in Seq(TaskIds)
      BY <1>1, FrontQueue, AppendQueue DEF monitor_take
    <2>2. monitor_moves' \in 0 .. MaxMonitorMoves
      BY <1>1 DEF monitor_take
    <2>3. monitor = "take" /\ monitor' \in {"host", "disk"}
      BY <1>1 DEF monitor_take
    <2>4. UNCHANGED <<task_id_counter, kernel_of, attempts, dispatcher, poolVars,
                      errorVars, kernelVars, destroyed>>
      BY <1>1 DEF monitor_take
    <2>5. QED
      BY <2>1, <2>2, <2>3, <2>4
  <1>2. CASE monitor_stop_taking
    BY <1>2 DEF monitor_stop_taking
  <1>3. CASE monitor_return
    <2>1. /\ held' \in Seq(TaskIds)
          /\ task_queue' \in Seq(TaskIds)
          /\ Len(held) # 1 => held' # <<>>
      <3>1. held # <<>>
        BY <1>3 DEF monitor_return
      <3>2. /\ Last(held) \in TaskIds
            /\ Len(held) \in Nat \ {0}
            /\ Front(held) \in Seq(TaskIds)
            /\ Len(Front(held)) = Len(held) - 1
        BY <3>1, FrontQueue
      <3>3. Append(task_queue, Last(held)) \in Seq(TaskIds)
        BY <3>2, AppendQueue
      <3>4. QED
        BY <1>3, <3>2, <3>3 DEF monitor_return
    <2>2. thread' \in [Threads -> ThreadPcs]
          /\ \A v \in Threads : thread'[v] # "idle" => thread[v] # "idle"
      BY <1>3 DEF monitor_return, WakeSleepers
    <2>3. monitor' = "return" => held' # <<>>
      BY <1>3, <2>1 DEF monitor_return
    <2>4. monitor' \in {"take", "return"}
      BY <1>3 DEF monitor_return
    <2>5. QED
      BY <1>3, <2>1, <2>2, <2>3, <2>4 DEF monitor_return
  <1>4. CASE monitor_downgraded
    BY <1>4 DEF monitor_downgraded
  <1>5. CASE monitor_throws
    <2>1. /\ destroyed' \subseteq TaskIds
          /\ held' \in Seq(TaskIds)
      BY <1>5, MessagesTyped DEF monitor_throws
    <2>2. QED
      BY <1>5, <2>1 DEF monitor_throws
  <1>6. QED
    BY <1>1, <1>2, <1>3, <1>4, <1>5 DEF MonitorNext

LEMMA TypeStep == TypeInv /\ [Next]_vars => TypeInv'
  <1> SUFFICES ASSUME TypeInv, [Next]_vars
               PROVE  TypeInv'
    OBVIOUS
  <1>1. CASE UNCHANGED vars
    BY <1>1 DEF TypeInv, TypeOK, TypeAux, vars, queueVars, poolVars,
                errorVars, kernelVars, monitorVars
  <1>2. QED
    BY <1>1, TypeKernel, TypeDispatcher, TypeThread, TypeMonitor DEF Next

\* The type invariant of Executor holds in every reachable state: whatever the
\* interleaving of kernels, dispatcher, pool threads and memory monitor, the
\* queues of executor hold real tasks.
THEOREM TypeCorrect == Spec => []TypeOK
  <1>1. TypeInv => TypeOK
    BY DEF TypeInv
  <1>2. QED
    BY <1>1, TypeInit, TypeStep, PTL DEF Spec

-----------------------------------------------------------------------------
(* One task at a time. *)

\* memory_safety_mutex is held exactly by the thread inside task::run(), the
\* counter counts that thread, and nobody sleeps at the gate.
MutexInv ==
    /\ \A w \in Threads : thread[w] \in InTask <=> memory_safety_mutex = w
    /\ \A w \in Threads : thread[w] # "asleep"
    /\ memory_safety_mutex = NoOne => active_tasks_counter = 0
    /\ memory_safety_mutex # NoOne => active_tasks_counter = 1

LEMMA MutexStep == TypeOK /\ MutexInv /\ [Next]_vars => MutexInv'
  <1> SUFFICES ASSUME TypeOK, MutexInv, [Next]_vars
               PROVE  MutexInv'
    OBVIOUS
  <1> USE ExecutorAssumption DEF MutexInv, InTask, queueVars, poolVars,
          errorVars, kernelVars, monitorVars, runFrame
  <1>0. /\ thread \in [Threads -> ThreadPcs]
        /\ memory_safety_mutex \in Threads \cup {NoOne}
        /\ active_tasks_counter \in Int
    BY DEF TypeOK
  <1>1. ASSUME NEW k \in Kernels, KernelNext(k) PROVE MutexInv'
    <2>1. UNCHANGED <<thread, memory_safety_mutex, active_tasks_counter>>
      BY <1>1 DEF KernelNext, add_task_begin, add_task_put, start_wait,
                  wait_tasks_empty, wait_has_exception, last_exception
    <2>2. QED
      BY <2>1
  <1>2. CASE DispatcherNext
    BY <1>2 DEF DispatcherNext, execute_check, execute_dispatch
  <1>3. ASSUME NEW w \in Threads, ThreadNext(w) PROVE MutexInv'
    <2>1. CASE pool_take(w)
      BY <1>0, <2>1 DEF pool_take
    <2>2. CASE memory_gate(w)
      <3>1. /\ memory_safety_mutex = NoOne
            /\ active_tasks_counter = 0
        BY <2>2 DEF memory_gate
      <3>2. \A fits \in BOOLEAN : may_start(fits)
        BY <3>1 DEF may_start
      <3>3. /\ memory_safety_mutex' = w
            /\ active_tasks_counter' = active_tasks_counter + 1
            /\ thread' = [thread EXCEPT ![w] = "decache"]
        BY <2>2, <3>2 DEF memory_gate
      <3>4. \A v \in Threads : v # w => thread[v] \notin InTask /\ thread'[v] = thread[v]
        BY <1>0, <3>1, <3>3
      <3>5. thread'[w] = "decache"
        BY <1>0, <3>3
      <3>6. QED
        BY <1>0, <3>1, <3>3, <3>4, <3>5
    <2>3. CASE \/ decache(w) \/ decache_bad_alloc(w) \/ decache_error(w)
               \/ process_success(w) \/ process_retry(w) \/ process_fail(w)
               \/ notify_complete(w) \/ hold_exception(w) \/ notify_fail(w)
      <3>1. /\ UNCHANGED <<memory_safety_mutex, active_tasks_counter>>
            /\ thread[w] \in InTask
            /\ \E pc \in InTask : thread' = [thread EXCEPT ![w] = pc]
        BY <2>3 DEF decache, decache_bad_alloc, decache_error, process_success,
             process_retry, process_fail, notify_complete, hold_exception,
             notify_fail, retry_or_throw, Throw
      <3>2. QED
        BY <1>0, <3>1
    <2>4. CASE release(w)
      <3>1. /\ memory_safety_mutex = w
            /\ w # NoOne
            /\ active_tasks_counter' = 0
            /\ memory_safety_mutex' = NoOne
        BY <1>0, <2>4 DEF release
      <3>2. \A v \in Threads : thread'[v] = IF v = w THEN "idle" ELSE thread[v]
        BY <1>0, <2>4 DEF release, WakeSleepers
      <3>3. QED
        BY <1>0, <3>1, <3>2
    <2>5. QED
      BY <1>3, <2>1, <2>2, <2>3, <2>4 DEF ThreadNext
  <1>4. CASE MonitorNext
    <2>1. UNCHANGED <<memory_safety_mutex, active_tasks_counter>>
      BY <1>4 DEF MonitorNext, monitor_take, monitor_downgraded, monitor_throws,
                  monitor_stop_taking, monitor_return
    <2>2. thread' = thread
      BY <1>0, <1>4 DEF MonitorNext, monitor_take, monitor_downgraded, monitor_throws,
                        monitor_stop_taking, monitor_return, WakeSleepers
    <2>3. QED
      BY <2>1, <2>2
  <1>5. CASE UNCHANGED vars
    BY <1>5 DEF vars
  <1>6. QED
    BY <1>1, <1>2, <1>3, <1>4, <1>5 DEF Next

\* executor::execute() runs one task at a time whatever EXECUTOR_THREADS is,
\* and its memory gate never delays a task: the lambda keeps
\* memory_safety_mutex until it ends.
THEOREM OneAtATime == Spec => []TasksRunOneAtATime
  <1>1. Init => MutexInv
    BY ExecutorAssumption DEF Init, MutexInv, InTask
  <1>2. MutexInv => TasksRunOneAtATime
    BY DEF MutexInv, TasksRunOneAtATime
  <1>3. QED
    BY <1>1, <1>2, MutexStep, TypeCorrect, PTL DEF Spec

-----------------------------------------------------------------------------
(* Tasks and exceptions are conserved. *)

\* The steps of a pool thread at which its task is in its hands only.
Busy == ThreadPcs \ {"idle", "release"}

\* A task is somewhere between add_task and its completion or failure.
Live(t) ==
    \/ \E k \in Kernels : new_task[k] = t
    \/ t \in ToSet(task_queue) \cup ToSet(held) \cup ToSet(pool)
    \/ \E w \in Threads : thread[w] \in Busy /\ cur_task[w] = t

\* No queue holds a task twice, and no two places hold the same task.
PlaceInv ==
    /\ IsInjective(task_queue)
    /\ IsInjective(held)
    /\ IsInjective(pool)
    /\ ToSet(task_queue) \cap ToSet(held) = {}
    /\ ToSet(task_queue) \cap ToSet(pool) = {}
    /\ ToSet(held) \cap ToSet(pool) = {}
    /\ \A k \in Kernels :
          new_task[k] \notin ToSet(task_queue) \cup ToSet(held) \cup ToSet(pool)
    /\ \A w \in Threads : thread[w] \in Busy =>
          cur_task[w] \notin ToSet(task_queue) \cup ToSet(held) \cup ToSet(pool)
    /\ \A w \in Threads, k \in Kernels :
          thread[w] \in Busy => cur_task[w] # new_task[k]
    /\ \A j, k \in Kernels : new_task[j] = new_task[k] => j = k \/ new_task[j] = NoOne
    /\ \A v, w \in Threads :
          thread[v] \in Busy /\ thread[w] \in Busy /\ cur_task[v] = cur_task[w] => v = w

\* A kernel waits for exactly its live tasks and the ones the monitor destroyed;
\* ids not handed out are unused.
OwnerInv ==
    /\ \A t \in TaskIds, k \in Kernels :
          t \in tasks[k] <=> k = kernel_of[t] /\ (Live(t) \/ t \in destroyed)
    /\ \A t \in destroyed : ~Live(t)
    /\ \A t \in TaskIds : t < task_id_counter => kernel_of[t] \in Kernels
    /\ \A t \in TaskIds : t >= task_id_counter =>
          ~Live(t) /\ t \notin destroyed \cup raised /\ attempts[t] = 0

\* A task that has thrown is live only until fail() has removed it; a live task
\* that has not thrown, and is not about to, has attempts left.
RaisedInv ==
    /\ \A t \in raised : Live(t) => \E w \in Threads : thread[w] = "fail" /\ cur_task[w] = t
    /\ \A w \in Threads : thread[w] = "fail" => cur_task[w] \in raised
    /\ \A t \in TaskIds : Live(t) /\ attempts[t] >= attempts_limit =>
          \E w \in Threads : thread[w] \in {"throw", "fail"} /\ cur_task[w] = t

ConservationInv == PlaceInv /\ OwnerInv /\ RaisedInv

\* A step that moves a task from one place to another, or none, and leaves what
\* OwnerInv and RaisedInv say about it alone, preserves them.
LEMMA SameLiveTasks ==
    ASSUME TypeInv, OwnerInv, RaisedInv,
           \A t \in TaskIds : Live(t)' <=> Live(t),
           UNCHANGED <<tasks, destroyed, kernel_of, task_id_counter, raised, attempts>>,
           \A w \in Threads : thread[w] \in {"throw", "fail"} =>
              thread'[w] = thread[w] /\ cur_task'[w] = cur_task[w],
           \A w \in Threads : thread'[w] = "fail" =>
              thread[w] = "fail" /\ cur_task'[w] = cur_task[w]
    PROVE  OwnerInv' /\ RaisedInv'
  <1> USE DEF TypeInv, TypeOK
  <1>1. OwnerInv'
    BY DEF OwnerInv
  <1>2. \A t \in raised' : Live(t)' => \E w \in Threads : thread'[w] = "fail" /\ cur_task'[w] = t
    <2> SUFFICES ASSUME NEW t \in raised, Live(t)
                 PROVE  \E w \in Threads : thread'[w] = "fail" /\ cur_task'[w] = t
      OBVIOUS
    <2>1. PICK w \in Threads : thread[w] = "fail" /\ cur_task[w] = t
      BY DEF RaisedInv
    <2>2. QED
      BY <2>1
  <1>3. \A w \in Threads : thread'[w] = "fail" => cur_task'[w] \in raised'
    BY DEF RaisedInv
  <1>4. \A t \in TaskIds : Live(t)' /\ attempts'[t] >= attempts_limit =>
          \E w \in Threads : thread'[w] \in {"throw", "fail"} /\ cur_task'[w] = t
    <2> SUFFICES ASSUME NEW t \in TaskIds, Live(t), attempts[t] >= attempts_limit
                 PROVE  \E w \in Threads : thread'[w] \in {"throw", "fail"} /\ cur_task'[w] = t
      OBVIOUS
    <2>1. PICK w \in Threads : thread[w] \in {"throw", "fail"} /\ cur_task[w] = t
      BY DEF RaisedInv
    <2>2. QED
      BY <2>1
  <1>5. QED
    BY <1>1, <1>2, <1>3, <1>4 DEF RaisedInv

LEMMA ConservationKernel ==
    ASSUME TypeInv, ConservationInv, NEW k \in Kernels, KernelNext(k)
    PROVE  ConservationInv'
  <1> USE ExecutorAssumption DEF ConservationInv,
          queueVars, poolVars, errorVars, kernelVars, monitorVars
  <1>0. /\ new_task \in [Kernels -> TaskIds \cup {NoOne}]
        /\ kernel_pc \in [Kernels -> KernelPcs]
        /\ task_queue \in Seq(TaskIds)
        /\ tasks \in [Kernels -> SUBSET TaskIds]
        /\ kernel_of \in [TaskIds -> Kernels \cup {NoOne}]
        /\ task_id_counter \in Nat
        /\ NoOne \notin TaskIds
    BY DEF TypeInv, TypeOK, TaskIds
  <1>1. CASE add_task_begin(k)
    <2> DEFINE n == task_id_counter
    <2>1. /\ n \in TaskIds
          /\ ~Live(n)
          /\ n \notin destroyed \cup raised
          /\ attempts[n] = 0
          /\ \A j \in Kernels : n \notin tasks[j]
      BY <1>0, <1>1 DEF add_task_begin, TaskIds, OwnerInv
    <2>2. /\ kernel_of' = [kernel_of EXCEPT ![n] = k]
          /\ tasks' = [tasks EXCEPT ![k] = @ \cup {n}]
          /\ new_task' = [new_task EXCEPT ![k] = n]
          /\ task_id_counter' = n + 1
          /\ UNCHANGED <<attempts, task_queue, held, pool, thread, cur_task, raised,
                         destroyed>>
      BY <1>1 DEF add_task_begin
    <2>3. \A t \in TaskIds : /\ t < n + 1 => t < n \/ t = n
                             /\ t >= n + 1 => t >= n /\ t # n
      BY <1>0 DEF TaskIds
    <2>. HIDE DEF n
    <2>4. new_task[k] = NoOne
      BY <1>1 DEF add_task_begin, TypeInv, TypeAux
    <2>5. \A t \in TaskIds : Live(t)' <=> Live(t) \/ t = n
      BY <1>0, <2>1, <2>2, <2>4 DEF Live
    <2>6. PlaceInv'
      BY <1>0, <2>1, <2>2 DEF PlaceInv, Live
    <2>7. OwnerInv'
      <3>1. ASSUME NEW t \in TaskIds, NEW j \in Kernels
            PROVE  t \in tasks'[j] <=>
                      j = kernel_of'[t] /\ (Live(t)' \/ t \in destroyed')
        <4>1. CASE t = n
          BY <1>0, <2>1, <2>2, <2>5, <4>1
        <4>2. CASE t # n
          BY <1>0, <2>2, <2>5, <4>2 DEF OwnerInv
        <4>3. QED
          BY <4>1, <4>2
      <3>2. \A t \in TaskIds : t < task_id_counter' => kernel_of'[t] \in Kernels
        BY <1>0, <2>1, <2>2, <2>3 DEF OwnerInv, n
      <3>3. ASSUME NEW t \in TaskIds, t >= task_id_counter'
            PROVE  ~Live(t)' /\ t \notin destroyed' \cup raised' /\ attempts'[t] = 0
        <4>0. t >= n + 1
          BY <2>2, <3>3
        <4>1. t >= n /\ t # n
          BY <1>0, <4>0 DEF n, TaskIds
        <4>2. ~Live(t) /\ t \notin destroyed \cup raised /\ attempts[t] = 0
          BY <4>1 DEF OwnerInv, n
        <4>3. QED
          BY <2>2, <2>5, <4>1, <4>2
      <3>4. \A t \in destroyed' : ~Live(t)'
        BY <2>1, <2>2, <2>5 DEF OwnerInv, TypeInv, TypeOK
      <3>5. QED
        BY <3>1, <3>2, <3>3, <3>4 DEF OwnerInv
    <2>8. RaisedInv'
      <3>1. \A t \in raised : t \in TaskIds /\ t # n
        BY <2>1 DEF TypeInv, TypeOK
      <3>2. \A t \in TaskIds : attempts[t] >= attempts_limit => t # n
        BY <2>1
      <3>3. QED
        BY <2>2, <2>5, <3>1, <3>2 DEF RaisedInv
    <2>9. QED
      BY <2>6, <2>7, <2>8
  <1>2. CASE add_task_put(k)
    <2>1. /\ new_task[k] \in TaskIds
          /\ new_task' = [new_task EXCEPT ![k] = NoOne]
          /\ UNCHANGED <<held, pool, thread, cur_task, tasks, destroyed,
                         kernel_of, task_id_counter, raised, attempts>>
      BY <1>2 DEF add_task_put, TypeInv, TypeAux
    <2>2. /\ ToSet(task_queue') = ToSet(task_queue) \cup {new_task[k]}
          /\ IsInjective(task_queue')
      BY <1>0, <1>2, <2>1, AppendQueue DEF add_task_put, PlaceInv
    <2>3. \A q \in {task_queue, held, pool} : NoOne \notin ToSet(q)
      BY <1>0, MessagesTyped DEF TypeInv, TypeOK
    <2>4. \A w \in Threads : thread[w] \in Busy => cur_task[w] \in TaskIds
      BY DEF TypeInv, TypeOK, TypeAux, Busy
    <2>5. PlaceInv'
      BY <1>0, <2>1, <2>2, <2>3, <2>4 DEF PlaceInv
    <2>6. \A t \in TaskIds : Live(t)' <=> Live(t)
      BY <1>0, <2>1, <2>2 DEF Live
    <2>7. QED
      BY <2>1, <2>5, <2>6, SameLiveTasks
  <1>3. CASE \/ start_wait(k) \/ wait_tasks_empty(k)
             \/ wait_has_exception(k) \/ last_exception(k)
    <2>1. UNCHANGED <<new_task, task_queue, held, pool, thread, cur_task, tasks,
                      destroyed, kernel_of, task_id_counter, raised, attempts>>
      BY <1>3 DEF start_wait, wait_tasks_empty, wait_has_exception, last_exception
    <2>2. PlaceInv' /\ \A t \in TaskIds : Live(t)' <=> Live(t)
      BY <2>1 DEF PlaceInv, Live
    <2>3. QED
      BY <2>1, <2>2, SameLiveTasks
  <1>4. QED
    BY <1>1, <1>2, <1>3 DEF KernelNext

LEMMA ConservationDispatcher ==
    ASSUME TypeInv, ConservationInv, DispatcherNext
    PROVE  ConservationInv'
  <1> USE DEF ConservationInv, queueVars, poolVars, errorVars, kernelVars, monitorVars
  <1>1. CASE execute_check
    <2>1. UNCHANGED <<new_task, task_queue, held, pool, thread, cur_task, tasks,
                      destroyed, kernel_of, task_id_counter, raised, attempts>>
      BY <1>1 DEF execute_check
    <2>2. PlaceInv' /\ \A t \in TaskIds : Live(t)' <=> Live(t)
      BY <2>1 DEF PlaceInv, Live
    <2>3. QED
      BY <2>1, <2>2, SameLiveTasks
  <1>2. CASE execute_dispatch
    <2> DEFINE h == Head(task_queue)
    <2>1. /\ UNCHANGED <<new_task, held, thread, cur_task, tasks,
                         destroyed, kernel_of, task_id_counter, raised, attempts>>
          /\ pool' = Append(pool, h)
          /\ task_queue' = Tail(task_queue)
          /\ task_queue # <<>>
          /\ task_queue \in Seq(TaskIds)
          /\ pool \in Seq(TaskIds)
      BY <1>2 DEF execute_dispatch, TypeInv, TypeOK
    <2>2. /\ h \in TaskIds
          /\ ToSet(task_queue) = ToSet(task_queue') \cup {h}
          /\ IsInjective(task_queue')
          /\ h \notin ToSet(task_queue')
      BY <2>1, TailQueue DEF PlaceInv
    <2>3. h \notin ToSet(pool)
      BY <2>2 DEF PlaceInv
    <2>4. /\ ToSet(pool') = ToSet(pool) \cup {h}
          /\ IsInjective(pool')
      BY <2>1, <2>2, <2>3, AppendQueue DEF PlaceInv
    <2> HIDE DEF h
    <2>5. PlaceInv'
      BY <2>1, <2>2, <2>4 DEF PlaceInv
    <2>6. \A t \in TaskIds : Live(t)' <=> Live(t)
      BY <2>1, <2>2, <2>4 DEF Live
    <2>7. QED
      BY <2>1, <2>5, <2>6, SameLiveTasks
  <1>3. QED
    BY <1>1, <1>2 DEF DispatcherNext

LEMMA ConservationThread ==
    ASSUME TypeInv, MutexInv, ConservationInv, NEW w \in Threads, ThreadNext(w)
    PROVE  ConservationInv'
  <1> USE DEF ConservationInv, queueVars, poolVars, errorVars, kernelVars,
              monitorVars, runFrame
  <1>0. /\ thread \in [Threads -> ThreadPcs]
        /\ cur_task \in [Threads -> TaskIds \cup {NoOne}]
        /\ task_queue \in Seq(TaskIds)
        /\ pool \in Seq(TaskIds)
        /\ attempts \in [TaskIds -> Nat]
        /\ attempts_limit \in Nat \ {0}
        /\ tasks \in [Kernels -> SUBSET TaskIds]
        /\ raised \subseteq TaskIds
        /\ \A v \in Threads : thread[v] \in Busy => cur_task[v] \in TaskIds
    BY ExecutorAssumption DEF TypeInv, TypeOK, TypeAux, Busy
  <1>1. CASE pool_take(w)
    <2> DEFINE h == Head(pool)
    <2>1. /\ UNCHANGED <<new_task, task_queue, held, tasks, destroyed,
                         kernel_of, task_id_counter, raised, attempts>>
          /\ cur_task' = [cur_task EXCEPT ![w] = h]
          /\ thread' = [thread EXCEPT ![w] = "lock"]
          /\ thread[w] = "idle"
      BY <1>1 DEF pool_take
    <2>2. /\ h \in TaskIds
          /\ ToSet(pool) = ToSet(pool') \cup {h}
          /\ IsInjective(pool')
          /\ h \notin ToSet(pool')
      BY <1>0, <1>1, TailQueue DEF pool_take, PlaceInv
    <2> HIDE DEF h
    <2>3. /\ "lock" \in Busy
          /\ "idle" \notin Busy
      BY DEF Busy, ThreadPcs
    <2>4. PlaceInv'
      BY <1>0, <2>1, <2>2, <2>3 DEF PlaceInv
    <2>5. \A t \in TaskIds : Live(t)' <=> Live(t)
      BY <1>0, <2>1, <2>2, <2>3 DEF Live
    <2>6. QED
      BY <1>0, <2>1, <2>4, <2>5, SameLiveTasks
  <1>2. CASE memory_gate(w) \/ decache(w) \/ process_success(w)
    <2>1. /\ UNCHANGED <<new_task, task_queue, held, pool, cur_task, tasks,
                         destroyed, kernel_of, task_id_counter, raised, attempts>>
          /\ thread[w] \in {"lock", "decache", "process"}
      BY <1>2 DEF memory_gate, decache, process_success
    <2>2. /\ \A v \in Threads : v # w => thread'[v] = thread[v]
          /\ thread'[w] \in {"asleep", "decache", "process", "complete"}
      BY <1>0, <1>2 DEF memory_gate, decache, process_success
    <2>3. \A v \in Threads : thread'[v] \in Busy <=> thread[v] \in Busy
      BY <2>1, <2>2 DEF Busy, ThreadPcs
    <2>4. PlaceInv'
      BY <2>1, <2>3 DEF PlaceInv
    <2>5. \A t \in TaskIds : Live(t)' <=> Live(t)
      BY <2>1, <2>3 DEF Live
    <2>6. /\ UNCHANGED <<tasks, destroyed, kernel_of, task_id_counter, raised, attempts, cur_task>>
          /\ TypeInv /\ OwnerInv /\ RaisedInv
      BY <2>1
    <2>7. ASSUME NEW v \in Threads, thread[v] \in {"throw", "fail"}
          PROVE  thread'[v] = thread[v] /\ cur_task'[v] = cur_task[v]
      BY <2>1, <2>2, <2>7
    <2>8. ASSUME NEW v \in Threads, thread'[v] = "fail"
          PROVE  thread[v] = "fail" /\ cur_task'[v] = cur_task[v]
      BY <2>1, <2>2, <2>8
    <2>9. OwnerInv' /\ RaisedInv'
      BY <2>5, <2>6, <2>7, <2>8, SameLiveTasks
    <2>10. QED
      BY <2>4, <2>9
  <1>3. CASE decache_bad_alloc(w) \/ process_retry(w)
    <2> DEFINE t0 == cur_task[w]
    <2>1. /\ UNCHANGED <<new_task, held, pool, cur_task, tasks, destroyed,
                         kernel_of, task_id_counter, raised>>
          /\ thread[w] \in {"decache", "process"}
          /\ attempts' = [attempts EXCEPT ![t0] = @ + 1]
      BY <1>3 DEF decache_bad_alloc, process_retry, retry_or_throw
    <2>2. /\ thread[w] \in Busy
          /\ "throw" \in Busy
          /\ "release" \notin Busy
      BY <2>1 DEF Busy, ThreadPcs
    <2>3. /\ t0 \in TaskIds
          /\ t0 \notin ToSet(task_queue) \cup ToSet(held) \cup ToSet(pool)
          /\ Live(t0)
          /\ \A v \in Threads : v # w /\ thread[v] \in Busy => cur_task[v] # t0
          /\ \A k \in Kernels : new_task[k] # t0
      BY <1>0, <2>2 DEF PlaceInv, Live
    <2>4. /\ attempts' \in [TaskIds -> Nat]
          /\ attempts'[t0] = attempts[t0] + 1
          /\ \A t \in TaskIds : t # t0 => attempts'[t] = attempts[t]
      BY <1>0, <2>1, <2>3
    <2>5. t0 \notin raised
      <3>1. \A v \in Threads : thread[v] = "fail" => thread[v] \in Busy
        BY DEF Busy, ThreadPcs
      <3>2. QED
        BY <2>1, <2>3, <3>1 DEF RaisedInv
    <2>6. t0 < task_id_counter
      BY <1>0, <2>3 DEF OwnerInv, TypeInv, TypeOK, TaskIds
    <2>7. CASE attempts[t0] + 1 < attempts_limit
      <3>1. /\ task_queue' = Append(task_queue, t0)
            /\ thread' = [thread EXCEPT ![w] = "release"]
        BY <1>3, <2>7 DEF decache_bad_alloc, process_retry, retry_or_throw
      <3>2. /\ ToSet(task_queue') = ToSet(task_queue) \cup {t0}
            /\ IsInjective(task_queue')
        BY <1>0, <2>3, <3>1, AppendQueue DEF PlaceInv
      <3> HIDE DEF t0
      <3>3. PlaceInv'
        BY <1>0, <2>1, <2>2, <2>3, <3>1, <3>2 DEF PlaceInv
      <3>4. \A t \in TaskIds : Live(t)' <=> Live(t)
        BY <1>0, <2>1, <2>2, <2>3, <3>1, <3>2 DEF Live, t0
      <3>5. OwnerInv'
        BY <2>1, <2>4, <2>6, <3>4 DEF OwnerInv, TypeInv, TypeOK, TaskIds
      <3>6. RaisedInv'
        <4>1. \A v \in Threads :
                /\ thread[v] \in {"throw", "fail"} => thread'[v] = thread[v]
                /\ thread'[v] = "fail" => thread[v] = "fail"
          BY <1>0, <2>1, <3>1
        <4>2. ASSUME NEW t \in TaskIds, attempts'[t] >= attempts_limit
              PROVE  attempts[t] >= attempts_limit
          <5>1. t # t0
            BY <1>0, <2>3, <2>4, <2>7, <4>2
          <5>2. QED
            BY <2>4, <4>2, <5>1
        <4>3. ASSUME NEW t \in raised', Live(t)'
              PROVE  \E v \in Threads : thread'[v] = "fail" /\ cur_task'[v] = t
          <5>1. t \in raised /\ t \in TaskIds /\ Live(t)
            BY <1>0, <2>1, <3>4, <4>3
          <5>2. PICK v \in Threads : thread[v] = "fail" /\ cur_task[v] = t
            BY <5>1 DEF RaisedInv
          <5>3. QED
            BY <2>1, <4>1, <5>2
        <4>4. \A v \in Threads : thread'[v] = "fail" => cur_task'[v] \in raised'
          BY <2>1, <4>1 DEF RaisedInv
        <4>5. \A t \in TaskIds : Live(t)' /\ attempts'[t] >= attempts_limit =>
                \E v \in Threads : thread'[v] \in {"throw", "fail"} /\ cur_task'[v] = t
          BY <2>1, <3>4, <4>1, <4>2 DEF RaisedInv
        <4>6. QED
          BY <4>3, <4>4, <4>5 DEF RaisedInv
      <3>7. QED
        BY <3>3, <3>5, <3>6
    <2>8. CASE ~(attempts[t0] + 1 < attempts_limit)
      <3>1. /\ task_queue' = task_queue
            /\ thread' = [thread EXCEPT ![w] = "throw"]
        BY <1>3, <2>8 DEF decache_bad_alloc, process_retry, retry_or_throw, Throw
      <3>2. \A v \in Threads : thread'[v] \in Busy <=> thread[v] \in Busy
        BY <1>0, <2>2, <3>1
      <3>3. PlaceInv'
        BY <2>1, <3>1, <3>2 DEF PlaceInv
      <3>4. \A t \in TaskIds : Live(t)' <=> Live(t)
        BY <2>1, <3>1, <3>2 DEF Live
      <3> HIDE DEF t0
      <3>5. OwnerInv'
        BY <2>1, <2>4, <2>6, <3>4 DEF OwnerInv, TypeInv, TypeOK, TaskIds
      <3>6. RaisedInv'
        <4>1. \A v \in Threads :
                /\ thread[v] \in {"throw", "fail"} => thread'[v] = thread[v]
                /\ thread'[v] = "fail" => thread[v] = "fail"
          BY <1>0, <2>1, <3>1
        <4>2. thread'[w] = "throw" /\ cur_task'[w] = t0
          BY <1>0, <2>1, <3>1 DEF t0
        <4>3. \A t \in TaskIds : attempts'[t] >= attempts_limit =>
                                  attempts[t] >= attempts_limit \/ t = t0
          BY <1>0, <2>4
        <4>4. QED
          BY <1>0, <2>1, <3>4, <4>1, <4>2, <4>3 DEF RaisedInv
      <3>7. QED
        BY <3>3, <3>5, <3>6
    <2>9. QED
      BY <2>7, <2>8
  <1>4. CASE decache_error(w) \/ process_fail(w)
    <2>1. /\ UNCHANGED <<new_task, task_queue, held, pool, cur_task, tasks,
                         destroyed, kernel_of, task_id_counter, raised, attempts>>
          /\ thread[w] \in {"decache", "process"}
          /\ thread' = [thread EXCEPT ![w] = "throw"]
      BY <1>4 DEF decache_error, process_fail, Throw
    <2>2. \A v \in Threads : thread'[v] \in Busy <=> thread[v] \in Busy
      BY <1>0, <2>1 DEF Busy, ThreadPcs
    <2>5. \A v \in Threads : /\ thread[v] \in {"throw", "fail"} => thread'[v] = thread[v]
                             /\ thread'[v] = "fail" => thread[v] = "fail"
      BY <1>0, <2>1
    <2>3. PlaceInv'
      BY <2>1, <2>2 DEF PlaceInv
    <2>4. \A t \in TaskIds : Live(t)' <=> Live(t)
      BY <2>1, <2>2 DEF Live
    <2>6. QED
      BY <2>1, <2>3, <2>4, <2>5, SameLiveTasks
  <1>5. CASE notify_complete(w) \/ notify_fail(w)
    <2> DEFINE t0 == cur_task[w]
               k0 == kernel_of[t0]
    <2>1. /\ UNCHANGED <<new_task, task_queue, held, pool, cur_task, destroyed,
                         kernel_of, task_id_counter, raised, attempts>>
          /\ thread[w] \in {"complete", "fail"}
          /\ thread' = [thread EXCEPT ![w] = "release"]
          /\ tasks' = [tasks EXCEPT ![k0] = @ \ {t0}]
      BY <1>5 DEF notify_complete, notify_fail
    <2>2. /\ thread[w] \in Busy
          /\ "release" \notin Busy
          /\ "fail" \in Busy
          /\ "throw" \in Busy
      BY <2>1 DEF Busy, ThreadPcs
    <2>3. /\ t0 \in TaskIds
          /\ t0 \notin ToSet(task_queue) \cup ToSet(held) \cup ToSet(pool)
          /\ Live(t0)
          /\ \A v \in Threads : v # w /\ thread[v] \in Busy => cur_task[v] # t0
          /\ \A k \in Kernels : new_task[k] # t0
      BY <1>0, <2>2 DEF PlaceInv, Live
    <2>4. \A v \in Threads :
             /\ thread'[v] \in Busy <=> thread[v] \in Busy /\ v # w
             /\ v # w => thread'[v] = thread[v]
             /\ thread'[v] \in {"throw", "fail"} => thread'[v] = thread[v]
      BY <1>0, <2>1, <2>2
    <2>5. PlaceInv'
      BY <2>1, <2>4 DEF PlaceInv
    <2>6. \A t \in TaskIds : Live(t)' <=> Live(t) /\ t # t0
      BY <1>0, <2>1, <2>3, <2>4 DEF Live
    <2>7. /\ k0 \in Kernels
          /\ t0 < task_id_counter
      BY <1>0, <2>3 DEF OwnerInv, TypeInv, TypeOK, TaskIds
    <2>8. OwnerInv'
      <3>1. ASSUME NEW t \in TaskIds, NEW k \in Kernels
            PROVE  t \in tasks'[k] <=>
                      k = kernel_of'[t] /\ (Live(t)' \/ t \in destroyed')
        <4>1. /\ t \in tasks[k] <=> k = kernel_of[t] /\ (Live(t) \/ t \in destroyed)
              /\ t0 \notin destroyed
          BY <2>3 DEF OwnerInv
        <4>2. CASE t = t0
          BY <1>0, <2>1, <2>6, <2>7, <4>1, <4>2
        <4>3. CASE t # t0
          BY <1>0, <2>1, <2>6, <2>7, <4>1, <4>3
        <4>4. QED
          BY <4>2, <4>3
      <3>2. QED
        BY <2>1, <2>6, <3>1 DEF OwnerInv, TypeInv, TypeOK
    <2>9. RaisedInv'
      <3>1. ASSUME NEW t \in raised', Live(t)'
            PROVE  \E v \in Threads : thread'[v] = "fail" /\ cur_task'[v] = t
        <4>1. t \in TaskIds /\ t \in raised /\ Live(t) /\ t # t0
          BY <1>0, <2>1, <2>6, <3>1
        <4>2. PICK v \in Threads : thread[v] = "fail" /\ cur_task[v] = t
          BY <4>1 DEF RaisedInv
        <4>3. QED
          BY <2>1, <2>4, <4>1, <4>2
      <3>2. \A v \in Threads : thread'[v] = "fail" => cur_task'[v] \in raised'
        BY <2>1, <2>4 DEF RaisedInv
      <3>3. ASSUME NEW t \in TaskIds, Live(t)', attempts'[t] >= attempts_limit
            PROVE  \E v \in Threads : thread'[v] \in {"throw", "fail"} /\ cur_task'[v] = t
        <4>1. Live(t) /\ t # t0 /\ attempts[t] >= attempts_limit
          BY <2>1, <2>6, <3>3
        <4>2. PICK v \in Threads : thread[v] \in {"throw", "fail"} /\ cur_task[v] = t
          BY <4>1 DEF RaisedInv
        <4>3. QED
          BY <2>1, <2>4, <4>1, <4>2
      <3>4. QED
        BY <3>1, <3>2, <3>3 DEF RaisedInv
    <2>10. QED
      BY <2>5, <2>8, <2>9
  <1>6. CASE hold_exception(w)
    <2> DEFINE t0 == cur_task[w]
    <2>1. /\ UNCHANGED <<new_task, task_queue, held, pool, cur_task, tasks,
                         destroyed, kernel_of, task_id_counter, attempts>>
          /\ thread[w] = "throw"
          /\ thread' = [thread EXCEPT ![w] = "fail"]
          /\ raised' = raised \cup {t0}
      BY <1>6 DEF hold_exception
    <2>0. \A v \in Threads : thread'[v] \in Busy <=> thread[v] \in Busy
      BY <1>0, <2>1 DEF Busy, ThreadPcs
    <2>2. \A v \in Threads : v # w => thread'[v] = thread[v]
      BY <1>0, <2>1
    <2>3. /\ t0 \in TaskIds
          /\ Live(t0)
          /\ thread'[w] = "fail"
      BY <1>0, <2>1 DEF Live, Busy, ThreadPcs
    <2>4. PlaceInv'
      BY <2>0, <2>1 DEF PlaceInv
    <2>5. \A t \in TaskIds : Live(t)' <=> Live(t)
      BY <2>0, <2>1 DEF Live
    <2>6. OwnerInv'
      BY <2>1, <2>3, <2>5 DEF OwnerInv, TypeInv, TypeOK
    <2>7. RaisedInv'
      <3>1. ASSUME NEW t \in raised', Live(t)'
            PROVE  \E v \in Threads : thread'[v] = "fail" /\ cur_task'[v] = t
        <4>1. CASE t = t0
          BY <2>1, <2>3, <4>1
        <4>2. CASE t # t0
          <5>1. t \in raised /\ t \in TaskIds /\ Live(t)
            BY <1>0, <2>1, <2>5, <3>1, <4>2
          <5>2. PICK v \in Threads : thread[v] = "fail" /\ cur_task[v] = t
            BY <5>1 DEF RaisedInv
          <5>3. QED
            BY <2>1, <2>2, <5>2
        <4>3. QED
          BY <4>1, <4>2
      <3>2. \A v \in Threads : thread'[v] = "fail" => cur_task'[v] \in raised'
        BY <2>1, <2>2 DEF RaisedInv
      <3>3. ASSUME NEW t \in TaskIds, Live(t)', attempts'[t] >= attempts_limit
            PROVE  \E v \in Threads : thread'[v] \in {"throw", "fail"} /\ cur_task'[v] = t
        <4>1. PICK v \in Threads : thread[v] \in {"throw", "fail"} /\ cur_task[v] = t
          BY <2>1, <2>5, <3>3 DEF RaisedInv
        <4>2. QED
          BY <2>1, <2>2, <2>3, <4>1
      <3>4. QED
        BY <3>1, <3>2, <3>3 DEF RaisedInv
    <2>8. QED
      BY <2>4, <2>6, <2>7
  <1>7. CASE release(w)
    <2>1. /\ UNCHANGED <<new_task, task_queue, held, pool, tasks, destroyed,
                         kernel_of, task_id_counter, raised, attempts>>
          /\ thread[w] = "release"
          /\ \A v \in Threads : v # w => thread'[v] = thread[v] /\ cur_task'[v] = cur_task[v]
          /\ thread'[w] = "idle"
      BY <1>0, <1>7 DEF release, WakeSleepers, MutexInv
    <2>2. \A v \in Threads : thread'[v] \in Busy <=> thread[v] \in Busy /\ v # w
      BY <2>1 DEF Busy, ThreadPcs
    <2>3. thread[w] \notin Busy
      BY <2>1 DEF Busy, ThreadPcs
    <2>4. PlaceInv'
      BY <2>1, <2>2 DEF PlaceInv
    <2>5. \A t \in TaskIds : Live(t)' <=> Live(t)
      BY <2>1, <2>2, <2>3 DEF Live
    <2>6. \A v \in Threads : /\ thread[v] \in {"throw", "fail"} =>
                                  thread'[v] = thread[v] /\ cur_task'[v] = cur_task[v]
                             /\ thread'[v] = "fail" =>
                                  thread[v] = "fail" /\ cur_task'[v] = cur_task[v]
      BY <2>1
    <2>7. QED
      BY <2>1, <2>4, <2>5, <2>6, SameLiveTasks
  <1>8. QED
    BY <1>1, <1>2, <1>3, <1>4, <1>5, <1>6, <1>7 DEF ThreadNext

LEMMA ConservationMonitor ==
    ASSUME TypeInv, MutexInv, ConservationInv, MonitorNext
    PROVE  ConservationInv'
  <1> USE DEF ConservationInv, queueVars, poolVars, errorVars, kernelVars, monitorVars
  <1>0. /\ thread \in [Threads -> ThreadPcs]
        /\ task_queue \in Seq(TaskIds)
        /\ held \in Seq(TaskIds)
    BY DEF TypeInv, TypeOK
  <1>1. /\ UNCHANGED <<new_task, pool, cur_task, tasks, kernel_of, task_id_counter,
                       raised, attempts>>
        /\ thread' = thread
    BY <1>0 DEF MonitorNext, monitor_take, monitor_downgraded, monitor_throws,
                monitor_stop_taking, monitor_return, WakeSleepers, MutexInv
  <1>2. CASE monitor_stop_taking \/ monitor_downgraded
    <2>1. UNCHANGED <<task_queue, held, destroyed>>
      BY <1>2 DEF monitor_stop_taking, monitor_downgraded
    <2>2. PlaceInv'
      BY <1>1, <2>1 DEF PlaceInv
    <2>3. \A t \in TaskIds : Live(t)' <=> Live(t)
      BY <1>1, <2>1 DEF Live
    <2>4. QED
      BY <1>1, <2>1, <2>2, <2>3, SameLiveTasks
  <1>3. CASE monitor_take
    <2> DEFINE h == Last(task_queue)
    <2>1. /\ task_queue # <<>>
          /\ destroyed' = destroyed
          /\ held' = Append(held, h)
          /\ task_queue' = Front(task_queue)
      BY <1>3 DEF monitor_take
    <2>2. /\ h \in TaskIds
          /\ ToSet(task_queue) = ToSet(task_queue') \cup {h}
          /\ IsInjective(task_queue')
          /\ h \notin ToSet(task_queue')
      BY <1>0, <2>1, FrontQueue DEF PlaceInv
    <2>3. /\ ToSet(held') = ToSet(held) \cup {h}
          /\ IsInjective(held')
      <3>1. h \notin ToSet(held)
        BY <2>2 DEF PlaceInv
      <3>2. QED
        BY <1>0, <2>1, <2>2, <3>1, AppendQueue DEF PlaceInv
    <2> HIDE DEF h
    <2>4. PlaceInv'
      BY <1>1, <2>2, <2>3 DEF PlaceInv
    <2>5. \A t \in TaskIds : Live(t)' <=> Live(t)
      BY <1>1, <2>2, <2>3 DEF Live
    <2>6. QED
      BY <1>1, <2>1, <2>4, <2>5, SameLiveTasks
  <1>4. CASE monitor_return
    <2> DEFINE h == Last(held)
    <2>1. /\ held # <<>>
          /\ destroyed' = destroyed
          /\ held' = Front(held)
          /\ task_queue' = Append(task_queue, h)
      BY <1>4 DEF monitor_return, TypeInv, TypeAux
    <2>2. /\ h \in TaskIds
          /\ ToSet(held) = ToSet(held') \cup {h}
          /\ IsInjective(held')
          /\ h \notin ToSet(held')
      BY <1>0, <2>1, FrontQueue DEF PlaceInv
    <2>3. /\ ToSet(task_queue') = ToSet(task_queue) \cup {h}
          /\ IsInjective(task_queue')
      <3>1. h \notin ToSet(task_queue)
        BY <2>2 DEF PlaceInv
      <3>2. QED
        BY <1>0, <2>1, <2>2, <3>1, AppendQueue DEF PlaceInv
    <2> HIDE DEF h
    <2>4. PlaceInv'
      BY <1>1, <2>2, <2>3 DEF PlaceInv
    <2>5. \A t \in TaskIds : Live(t)' <=> Live(t)
      BY <1>1, <2>2, <2>3 DEF Live
    <2>6. QED
      BY <1>1, <2>1, <2>4, <2>5, SameLiveTasks
  <1>5. CASE monitor_throws
    <2>1. /\ task_queue' = task_queue
          /\ held' = <<>>
          /\ destroyed' = destroyed \cup ToSet(held)
          /\ ToSet(held') = {} /\ IsInjective(held')
      BY <1>5 DEF monitor_throws, ToSet, IsInjective
    <2>2. ToSet(held) \subseteq TaskIds
      BY <1>0, MessagesTyped
    <2>3. PlaceInv'
      BY <1>1, <2>1 DEF PlaceInv
    <2>4. \A t \in TaskIds : Live(t)' <=> Live(t) /\ t \notin ToSet(held)
      BY <1>1, <2>1 DEF Live, PlaceInv
    <2>5. \A t \in ToSet(held) : Live(t)
      BY DEF Live
    <2>6. OwnerInv'
      BY <1>1, <2>1, <2>2, <2>4, <2>5 DEF OwnerInv, TypeInv, TypeOK
    <2>7. RaisedInv'
      BY <1>1, <2>4 DEF RaisedInv, TypeInv, TypeOK
    <2>8. QED
      BY <2>3, <2>6, <2>7
  <1>6. QED
    BY <1>2, <1>3, <1>4, <1>5 DEF MonitorNext

LEMMA ConservationInit == Init => ConservationInv
  <1> SUFFICES ASSUME Init PROVE ConservationInv
    OBVIOUS
  <1>1. /\ ToSet(task_queue) = {} /\ ToSet(held) = {} /\ ToSet(pool) = {}
        /\ IsInjective(task_queue) /\ IsInjective(held) /\ IsInjective(pool)
    BY DEF Init, ToSet, IsInjective
  <1>2. /\ \A w \in Threads : thread[w] = "idle" /\ thread[w] \notin Busy
        /\ \A k \in Kernels : new_task[k] = NoOne /\ tasks[k] = {}
        /\ \A t \in TaskIds : attempts[t] = 0 /\ ~(t < task_id_counter)
        /\ raised = {} /\ destroyed = {}
        /\ NoOne \notin TaskIds
    BY ExecutorAssumption DEF Init, Busy, TaskIds
  <1>3. \A t \in TaskIds : ~Live(t)
    BY <1>1, <1>2 DEF Live
  <1>4. PlaceInv
    BY <1>1, <1>2 DEF PlaceInv
  <1>5. OwnerInv
    BY <1>2, <1>3 DEF OwnerInv
  <1>6. RaisedInv
    BY <1>2, <1>3 DEF RaisedInv
  <1>7. QED
    BY <1>4, <1>5, <1>6 DEF ConservationInv

\* The whole inductive invariant.
IInv == TypeInv /\ MutexInv /\ ConservationInv

LEMMA Invariance == Spec => []IInv
  <1>1. Init => IInv
    <2>1. Init => MutexInv
      BY ExecutorAssumption DEF Init, MutexInv, InTask
    <2>2. QED
      BY <2>1, TypeInit, ConservationInit DEF IInv
  <1>2. IInv /\ [Next]_vars => IInv'
    <2> SUFFICES ASSUME IInv, [Next]_vars
                 PROVE  IInv'
      OBVIOUS
    <2>1. TypeInv' /\ MutexInv'
      BY TypeStep, MutexStep DEF IInv, TypeInv
    <2>2. CASE UNCHANGED vars
      <3>1. UNCHANGED <<new_task, task_queue, held, pool, thread, cur_task, tasks,
                        destroyed, kernel_of, task_id_counter, raised, attempts>>
        BY <2>2 DEF vars, queueVars, poolVars, errorVars, kernelVars, monitorVars
      <3>2. ConservationInv'
        BY <3>1 DEF IInv, ConservationInv, PlaceInv, OwnerInv, RaisedInv, Live
      <3>3. QED
        BY <2>1, <3>2 DEF IInv
    <2>3. CASE Next
      <3>1. ConservationInv'
        BY <2>3, ConservationKernel, ConservationDispatcher, ConservationThread,
           ConservationMonitor DEF IInv, Next
      <3>2. QED
        BY <2>1, <3>1 DEF IInv
    <2>4. QED
      BY <2>2, <2>3
  <1>3. QED
    BY <1>1, <1>2, PTL DEF Spec
=============================================================================
