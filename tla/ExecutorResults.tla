---------------------------- MODULE ExecutorResults ----------------------------
(***************************************************************************)
(* What Executor promises to the kernels, proved from the inductive        *)
(* invariant of ExecutorProofs: no task and no exception is lost or        *)
(* duplicated, retries end, and a normal return means the work is done.    *)
(***************************************************************************)
EXTENDS ExecutorProofs

-----------------------------------------------------------------------------
(* Tasks are conserved. *)

\* A position in a queue that holds t, in terms of the set of its members.
LEMMA QueuePosition ==
    ASSUME NEW s \in Seq(TaskIds), NEW t \in TaskIds
    PROVE  /\ (\E i \in 1 .. Len(s) : s[i] = t) <=> t \in ToSet(s)
           /\ IsInjective(s) => \A i, j \in 1 .. Len(s) : s[i] = t /\ s[j] = t => i = j
  BY DEF ToSet, IsInjective

\* The five kinds of place, one by one.
LEMMA PlaceCases ==
    ASSUME NEW t \in TaskIds, NEW p \in Places(t)
    PROVE  \/ \E k \in Kernels : p = <<"new", k>> /\ new_task[k] = t
           \/ \E i \in 1 .. Len(task_queue) : p = <<"queue", i>> /\ task_queue[i] = t
           \/ \E i \in 1 .. Len(held) : p = <<"held", i>> /\ held[i] = t
           \/ \E i \in 1 .. Len(pool) : p = <<"pool", i>> /\ pool[i] = t
           \/ \E w \in Threads : /\ p = <<"thread", w>>
                                 /\ cur_task[w] = t
                                 /\ thread[w] \notin {"idle", "release"}
  BY DEF Places

\* Places(t) is empty exactly when t is not live.
LEMMA PlacesLive ==
    ASSUME TypeInv, NEW t \in TaskIds
    PROVE  Places(t) # {} <=> Live(t)
  <1>0. /\ task_queue \in Seq(TaskIds)
        /\ held \in Seq(TaskIds)
        /\ pool \in Seq(TaskIds)
        /\ \A w \in Threads : thread[w] \in Busy <=> thread[w] \notin {"idle", "release"}
    BY DEF TypeInv, TypeOK, Busy
  <1>1. /\ (\E i \in 1 .. Len(task_queue) : task_queue[i] = t) <=> t \in ToSet(task_queue)
        /\ (\E i \in 1 .. Len(held) : held[i] = t) <=> t \in ToSet(held)
        /\ (\E i \in 1 .. Len(pool) : pool[i] = t) <=> t \in ToSet(pool)
    BY <1>0, QueuePosition
  <1>2. Places(t) # {} <=>
           \/ \E k \in Kernels : new_task[k] = t
           \/ \E i \in 1 .. Len(task_queue) : task_queue[i] = t
           \/ \E i \in 1 .. Len(held) : held[i] = t
           \/ \E i \in 1 .. Len(pool) : pool[i] = t
           \/ \E w \in Threads : cur_task[w] = t /\ thread[w] \notin {"idle", "release"}
    BY DEF Places
  <1>3. QED
    BY <1>0, <1>1, <1>2 DEF Live

\* Two places of a task are the same place.
LEMMA PlacesEqual ==
    ASSUME TypeInv, PlaceInv, NEW t \in TaskIds, NEW p \in Places(t), NEW q \in Places(t)
    PROVE  p = q
  <1> DEFINE New(r)    == \E k \in Kernels : r = <<"new", k>> /\ new_task[k] = t
             Queue(r)  == \E i \in 1 .. Len(task_queue) : r = <<"queue", i>> /\ task_queue[i] = t
             Held(r)   == \E i \in 1 .. Len(held) : r = <<"held", i>> /\ held[i] = t
             Pool(r)   == \E i \in 1 .. Len(pool) : r = <<"pool", i>> /\ pool[i] = t
             Thread(r) == \E w \in Threads : r = <<"thread", w>> /\ cur_task[w] = t /\ thread[w] \in Busy
  <1>0. /\ task_queue \in Seq(TaskIds)
        /\ held \in Seq(TaskIds)
        /\ pool \in Seq(TaskIds)
        /\ \A w \in Threads : thread[w] \in Busy <=> thread[w] \notin {"idle", "release"}
        /\ NoOne \notin TaskIds
    BY ExecutorAssumption DEF TypeInv, TypeOK, Busy, TaskIds
  <1>1. \A r \in Places(t) : New(r) \/ Queue(r) \/ Held(r) \/ Pool(r) \/ Thread(r)
    BY <1>0, PlaceCases
  <1>2. \A r : /\ Queue(r) => t \in ToSet(task_queue)
               /\ Held(r) => t \in ToSet(held)
               /\ Pool(r) => t \in ToSet(pool)
    BY <1>0, QueuePosition
  <1>3. \A r, s : New(r) /\ New(s) => r = s
    BY <1>0 DEF PlaceInv
  <1>4. \A r, s : Queue(r) /\ Queue(s) => r = s
    BY <1>0, QueuePosition DEF PlaceInv
  <1>5. \A r, s : Held(r) /\ Held(s) => r = s
    BY <1>0, QueuePosition DEF PlaceInv
  <1>6. \A r, s : Pool(r) /\ Pool(s) => r = s
    BY <1>0, QueuePosition DEF PlaceInv
  <1>7. \A r, s : Thread(r) /\ Thread(s) => r = s
    BY <1>0 DEF PlaceInv
  <1>8. \A r, s : /\ New(r) => ~Queue(s) /\ ~Held(s) /\ ~Pool(s) /\ ~Thread(s)
                  /\ Thread(r) => ~Queue(s) /\ ~Held(s) /\ ~Pool(s)
    BY <1>2 DEF PlaceInv
  <1>9. \A r, s : /\ Queue(r) => ~Held(s) /\ ~Pool(s)
                  /\ Held(r) => ~Pool(s)
    BY <1>2 DEF PlaceInv
  <1> HIDE DEF New, Queue, Held, Pool, Thread
  <1>10. QED
    BY <1>1, <1>3, <1>4, <1>5, <1>6, <1>7, <1>8, <1>9

\* No task is lost or duplicated on its way through executor::add_task, the
\* queue, the monitor, the pool, task::run() and its retries, for any number of
\* kernels, threads and tasks; the only ones that vanish are those the monitor
\* held when a downgrade threw.
THEOREM TasksAreConserved == Spec => []TasksConserved
  <1>1. IInv => TasksConserved
    <2> SUFFICES ASSUME IInv PROVE TasksConserved
      OBVIOUS
    <2>1. \A t \in TaskIds : \A p, q \in Places(t) : p = q
      BY PlacesEqual DEF IInv, ConservationInv
    <2>2. \A t \in TaskIds : Places(t) # {} <=> Live(t)
      BY PlacesLive DEF IInv
    <2>3. /\ destroyed \subseteq TaskIds
          /\ destroyed # {} => monitor = "threw"
      BY DEF IInv, TypeInv, TypeOK, TypeAux
    <2>4. QED
      BY <2>1, <2>2, <2>3 DEF IInv, ConservationInv, OwnerInv, TasksConserved
  <1>2. QED
    BY <1>1, Invariance, PTL

-----------------------------------------------------------------------------
(* Retries end. *)

\* A task reaches its last attempt only on the way to its exception.
THEOREM RetriesEnd == Spec => []RetriesEndInException
  <1>1. Init => RetriesEndInException
    BY ExecutorAssumption DEF Init, RetriesEndInException
  <1>2. TypeInv /\ RetriesEndInException /\ [Next]_vars => RetriesEndInException'
    <2> SUFFICES ASSUME TypeInv, RetriesEndInException, [Next]_vars
                 PROVE  RetriesEndInException'
      OBVIOUS
    <2> USE DEF queueVars, poolVars, errorVars, kernelVars, monitorVars, runFrame
    <2>0. /\ thread \in [Threads -> ThreadPcs]
          /\ cur_task \in [Threads -> TaskIds \cup {NoOne}]
          /\ attempts \in [TaskIds -> Nat]
          /\ attempts_limit \in Nat
          /\ \A w \in Threads : thread[w] # "idle" => cur_task[w] \in TaskIds
      BY ExecutorAssumption DEF TypeInv, TypeOK, TypeAux
    <2>1. CASE UNCHANGED <<attempts, raised, thread, cur_task>>
      BY <2>1 DEF RetriesEndInException
    <2>2. ASSUME NEW w \in Threads, ThreadNext(w)
          PROVE  RetriesEndInException'
      <3>1. CASE \/ pool_take(w) \/ memory_gate(w) \/ decache(w) \/ decache_error(w)
                 \/ process_success(w) \/ process_fail(w) \/ notify_complete(w)
                 \/ notify_fail(w) \/ release(w)
        <4>1. /\ UNCHANGED <<attempts, raised>>
              /\ \A v \in Threads : thread[v] = "throw" =>
                    thread'[v] = "throw" /\ cur_task'[v] = cur_task[v]
          BY <2>0, <3>1 DEF pool_take, memory_gate, decache, decache_error,
               process_success, process_fail, notify_complete, notify_fail,
               release, Throw, WakeSleepers
        <4>2. QED
          BY <4>1 DEF RetriesEndInException
      <3>2. CASE decache_bad_alloc(w) \/ process_retry(w)
        <4> DEFINE t0 == cur_task[w]
        <4>1. /\ UNCHANGED <<raised, cur_task>>
              /\ thread[w] \in {"decache", "process"}
              /\ attempts' = [attempts EXCEPT ![t0] = @ + 1]
              /\ \/ /\ attempts[t0] + 1 < attempts_limit
                    /\ thread' = [thread EXCEPT ![w] = "release"]
                 \/ thread' = [thread EXCEPT ![w] = "throw"]
          BY <3>2 DEF decache_bad_alloc, process_retry, retry_or_throw, Throw
        <4>2. /\ t0 \in TaskIds
              /\ \A t \in TaskIds : t # t0 => attempts'[t] = attempts[t]
              /\ attempts'[t0] = attempts[t0] + 1
              /\ \A v \in Threads : v # w => thread'[v] = thread[v]
          BY <2>0, <4>1
        <4>3. attempts'[t0] >= attempts_limit => thread'[w] = "throw"
          BY <2>0, <4>1, <4>2
        <4>4. ASSUME NEW t \in TaskIds, attempts'[t] >= attempts_limit
              PROVE  t \in raised' \/ \E v \in Threads : cur_task'[v] = t /\ thread'[v] = "throw"
          <5>1. CASE t = t0
            BY <4>1, <4>3, <4>4, <5>1
          <5>2. CASE t # t0
            BY <4>1, <4>2, <4>4, <5>2 DEF RetriesEndInException
          <5>3. QED
            BY <5>1, <5>2
        <4>5. QED
          BY <4>4 DEF RetriesEndInException
      <3>3. CASE hold_exception(w)
        <4>1. /\ UNCHANGED <<attempts, cur_task>>
              /\ raised' = raised \cup {cur_task[w]}
              /\ thread' = [thread EXCEPT ![w] = "fail"]
          BY <3>3 DEF hold_exception
        <4>2. \A v \in Threads : v # w => thread'[v] = thread[v]
          BY <2>0, <4>1
        <4>3. QED
          BY <4>1, <4>2 DEF RetriesEndInException
      <3>4. QED
        BY <2>2, <3>1, <3>2, <3>3 DEF ThreadNext
    <2>3. ASSUME NEW k \in Kernels, KernelNext(k)
          PROVE  RetriesEndInException'
      <3>1. UNCHANGED <<attempts, raised, thread, cur_task>>
        BY <2>3 DEF KernelNext, add_task_begin, add_task_put, start_wait,
             wait_tasks_empty, wait_has_exception, last_exception
      <3>2. QED
        BY <2>1, <3>1
    <2>4. CASE DispatcherNext
      <3>1. UNCHANGED <<attempts, raised, thread, cur_task>>
        BY <2>4 DEF DispatcherNext, execute_check, execute_dispatch
      <3>2. QED
        BY <2>1, <3>1
    <2>5. CASE MonitorNext
      <3>1. /\ UNCHANGED <<attempts, raised, cur_task>>
            /\ \A v \in Threads : thread[v] = "throw" => thread'[v] = "throw"
        BY <2>0, <2>5 DEF MonitorNext, monitor_take, monitor_downgraded,
             monitor_throws, monitor_stop_taking, monitor_return, WakeSleepers
      <3>2. QED
        BY <3>1 DEF RetriesEndInException
    <2>6. CASE UNCHANGED vars
      BY <2>1, <2>6 DEF vars
    <2>7. QED
      BY <2>2, <2>3, <2>4, <2>5, <2>6 DEF Next
  <1>3. QED
    BY <1>1, <1>2, TypeInit, TypeStep, PTL DEF Spec

-----------------------------------------------------------------------------
(* Exceptions are conserved. *)

\* A kernel has an exception only once its run() threw.
ExceptionInv ==
    /\ ExceptionsConserved
    /\ \A k \in Kernels : kernel_pc[k] # "threw" => rethrown[k] = NoOne

\* A step that leaves the exceptions alone and throws in no kernel.
LEMMA SameExceptions ==
    ASSUME ExceptionInv, UNCHANGED <<raised, exception_holder, rethrown>>,
           \A k \in Kernels : kernel_pc[k] = "threw" => kernel_pc'[k] = "threw"
    PROVE  ExceptionInv'
  BY DEF ExceptionInv, ExceptionsConserved

LEMMA ExceptionLast ==
    ASSUME IInv, ExceptionInv, NEW k \in Kernels, last_exception(k)
    PROVE  ExceptionInv'
  <1>0. /\ kernel_pc \in [Kernels -> KernelPcs]
        /\ rethrown \in [Kernels -> TaskIds \cup {NoOne}]
        /\ exception_holder \in Seq(TaskIds)
        /\ NoOne \notin TaskIds
    BY ExecutorAssumption DEF IInv, TypeInv, TypeOK, TaskIds
  <1>1. CASE exception_holder = <<>>
    <2>1. /\ UNCHANGED <<raised, exception_holder, rethrown>>
          /\ kernel_pc[k] = "last_exception"
          /\ kernel_pc' = [kernel_pc EXCEPT ![k] = "done"]
      BY <1>1 DEF last_exception
    <2>2. QED
      BY <1>0, <2>1, SameExceptions
  <1>2. CASE exception_holder # <<>>
    <2> DEFINE h == Head(exception_holder)
    <2>1. /\ raised' = raised
          /\ rethrown' = [rethrown EXCEPT ![k] = h]
          /\ exception_holder' = Tail(exception_holder)
          /\ kernel_pc[k] = "last_exception"
          /\ kernel_pc' = [kernel_pc EXCEPT ![k] = "threw"]
      BY <1>2 DEF last_exception
    <2>2. /\ h \in TaskIds
          /\ ToSet(exception_holder) = ToSet(exception_holder') \cup {h}
          /\ IsInjective(exception_holder')
          /\ h \notin ToSet(exception_holder')
      BY <1>0, <1>2, <2>1, TailQueue DEF ExceptionInv, ExceptionsConserved
    <2> HIDE DEF h
    <2>3. /\ rethrown[k] = NoOne
          /\ rethrown'[k] = h
          /\ \A j \in Kernels : j # k => rethrown'[j] = rethrown[j]
          /\ \A j \in Kernels : rethrown[j] # h
          /\ h # NoOne
      <3>1. /\ rethrown[k] = NoOne
            /\ \A j \in Kernels : rethrown[j] \notin ToSet(exception_holder)
        BY <2>1 DEF ExceptionInv, ExceptionsConserved
      <3>2. QED
        BY <1>0, <2>1, <2>2, <3>1
    <2>4. {rethrown'[j] : j \in Kernels} \ {NoOne}
             = ({rethrown[j] : j \in Kernels} \ {NoOne}) \cup {h}
      BY <2>3
    <2>5. raised' = ToSet(exception_holder') \cup ({rethrown'[j] : j \in Kernels} \ {NoOne})
      BY <2>1, <2>2, <2>4 DEF ExceptionInv, ExceptionsConserved
    <2>6. \A j \in Kernels : rethrown'[j] \notin ToSet(exception_holder')
      BY <2>2, <2>3 DEF ExceptionInv, ExceptionsConserved
    <2>7. \A i, j \in Kernels : rethrown'[i] = rethrown'[j] => i = j \/ rethrown'[i] = NoOne
      BY <2>3 DEF ExceptionInv, ExceptionsConserved
    <2>8. \A j \in Kernels : kernel_pc'[j] # "threw" => rethrown'[j] = NoOne
      BY <1>0, <2>1, <2>3 DEF ExceptionInv
    <2>9. QED
      BY <2>2, <2>5, <2>6, <2>7, <2>8 DEF ExceptionInv, ExceptionsConserved
  <1>3. QED
    BY <1>1, <1>2

LEMMA ExceptionHold ==
    ASSUME IInv, ExceptionInv, NEW w \in Threads, hold_exception(w)
    PROVE  ExceptionInv'
  <1> DEFINE t0 == cur_task[w]
  <1>1. /\ UNCHANGED <<rethrown, kernel_pc>>
        /\ thread[w] = "throw"
        /\ exception_holder' = Append(exception_holder, t0)
        /\ raised' = raised \cup {t0}
    BY DEF hold_exception, kernelVars
  <1>2. /\ t0 \in TaskIds
        /\ exception_holder \in Seq(TaskIds)
        /\ NoOne \notin TaskIds
    BY <1>1, ExecutorAssumption DEF IInv, TypeInv, TypeOK, TypeAux, TaskIds
  <1>3. t0 \notin raised
    <2> SUFFICES ASSUME t0 \in raised PROVE FALSE
      OBVIOUS
    <2>1. /\ thread[w] \in Busy
          /\ "fail" \in Busy
      BY <1>1 DEF Busy, ThreadPcs
    <2>2. Live(t0)
      BY <2>1 DEF Live
    <2>3. PICK v \in Threads : thread[v] = "fail" /\ cur_task[v] = t0
      BY <2>2 DEF IInv, ConservationInv, RaisedInv
    <2>4. v = w
      BY <2>1, <2>3 DEF IInv, ConservationInv, PlaceInv
    <2>5. QED
      BY <1>1, <2>3, <2>4
  <1>4. /\ t0 \notin ToSet(exception_holder)
        /\ \A k \in Kernels : rethrown[k] # t0
    BY <1>2, <1>3 DEF ExceptionInv, ExceptionsConserved
  <1>5. /\ ToSet(exception_holder') = ToSet(exception_holder) \cup {t0}
        /\ IsInjective(exception_holder')
    BY <1>1, <1>2, <1>4, AppendQueue DEF ExceptionInv, ExceptionsConserved
  <1> HIDE DEF t0
  <1>6. QED
    BY <1>1, <1>4, <1>5 DEF ExceptionInv, ExceptionsConserved

LEMMA ExceptionStep == IInv /\ ExceptionInv /\ [Next]_vars => ExceptionInv'
  <1> SUFFICES ASSUME IInv, ExceptionInv, [Next]_vars
               PROVE  ExceptionInv'
    OBVIOUS
  <1> USE DEF queueVars, poolVars, errorVars, kernelVars, monitorVars, runFrame
  <1>0. kernel_pc \in [Kernels -> KernelPcs]
    BY DEF IInv, TypeInv, TypeOK
  <1>1. ASSUME NEW k \in Kernels, KernelNext(k)
        PROVE  ExceptionInv'
    <2>1. CASE last_exception(k)
      BY <2>1, ExceptionLast
    <2>2. CASE ~last_exception(k)
      <3>1. /\ UNCHANGED <<raised, exception_holder, rethrown>>
            /\ \A j \in Kernels : kernel_pc[j] = "threw" => kernel_pc'[j] = "threw"
        BY <1>0, <1>1, <2>2 DEF KernelNext, add_task_begin, add_task_put, start_wait,
             wait_tasks_empty, wait_has_exception
      <3>2. QED
        BY <3>1, SameExceptions
    <2>3. QED
      BY <2>1, <2>2
  <1>2. ASSUME NEW w \in Threads, ThreadNext(w)
        PROVE  ExceptionInv'
    <2>1. CASE hold_exception(w)
      BY <2>1, ExceptionHold
    <2>2. CASE notify_complete(w) \/ notify_fail(w)
      <3>1. /\ UNCHANGED <<raised, exception_holder, rethrown>>
            /\ \A j \in Kernels : kernel_pc[j] = "threw" => kernel_pc'[j] = "threw"
        BY <1>0, <2>2 DEF notify_complete, notify_fail, notify_kernel
      <3>2. QED
        BY <3>1, SameExceptions
    <2>3. CASE \/ pool_take(w) \/ memory_gate(w) \/ decache(w) \/ decache_bad_alloc(w)
               \/ decache_error(w) \/ process_success(w) \/ process_retry(w)
               \/ process_fail(w) \/ release(w)
      <3>1. UNCHANGED <<raised, exception_holder, rethrown, kernel_pc>>
        BY <2>3 DEF pool_take, memory_gate, decache, decache_bad_alloc,
             decache_error, process_success, process_retry, process_fail, release
      <3>2. QED
        BY <3>1, SameExceptions
    <2>4. QED
      BY <1>2, <2>1, <2>2, <2>3 DEF ThreadNext
  <1>3. CASE DispatcherNext \/ MonitorNext
    <2>1. UNCHANGED <<raised, exception_holder, rethrown, kernel_pc>>
      BY <1>3 DEF DispatcherNext, execute_check, execute_dispatch, MonitorNext,
           monitor_take, monitor_downgraded, monitor_throws, monitor_stop_taking,
           monitor_return
    <2>2. QED
      BY <2>1, SameExceptions
  <1>4. CASE UNCHANGED vars
    BY <1>4, SameExceptions DEF vars
  <1>5. QED
    BY <1>1, <1>2, <1>3, <1>4 DEF Next

LEMMA ExceptionInit == Init => ExceptionInv
  BY ExecutorAssumption DEF Init, ExceptionInv, ExceptionsConserved, ToSet, IsInjective

\* Every exception caught by executor::execute() is rethrown by at most one
\* kernel and is otherwise still in exception_holder, in whatever order tasks
\* fail and kernels return.
THEOREM ExceptionsAreConserved == Spec => []ExceptionsConserved
  <1>1. ExceptionInv => ExceptionsConserved
    BY DEF ExceptionInv
  <1>2. QED
    BY <1>1, ExceptionInit, ExceptionStep, Invariance, PTL DEF Spec

-----------------------------------------------------------------------------
(* A normal return without failures means the kernel's work is done. *)

\* As long as nothing was thrown, a kernel past its wait has no tasks left.
DrainedInv ==
    raised = {} => \A k \in Kernels :
        kernel_pc[k] \in {"last_exception", "done"} => tasks[k] = {}

\* A step that gives no kernel past its wait a task and lets none past.
LEMMA SameDrained ==
    ASSUME DrainedInv, raised \subseteq raised',
           \A k \in Kernels : kernel_pc'[k] \in {"last_exception", "done"} =>
              /\ kernel_pc[k] \in {"last_exception", "done"}
              /\ tasks'[k] \subseteq tasks[k]
    PROVE  DrainedInv'
  BY DEF DrainedInv

LEMMA DrainedStep == IInv /\ ExceptionInv /\ DrainedInv /\ [Next]_vars => DrainedInv'
  <1> SUFFICES ASSUME IInv, ExceptionInv, DrainedInv, [Next]_vars
               PROVE  DrainedInv'
    OBVIOUS
  <1> USE DEF queueVars, poolVars, errorVars, kernelVars, monitorVars, runFrame
  <1>0. /\ kernel_pc \in [Kernels -> KernelPcs]
        /\ tasks \in [Kernels -> SUBSET TaskIds]
    BY DEF IInv, TypeInv, TypeOK
  <1>1. ASSUME NEW k \in Kernels, KernelNext(k)
        PROVE  DrainedInv'
    <2>1. CASE add_task_begin(k) \/ add_task_put(k) \/ start_wait(k)
      <3>1. /\ raised' = raised
            /\ kernel_pc'[k] \notin {"last_exception", "done"}
            /\ \A j \in Kernels : j # k => kernel_pc'[j] = kernel_pc[j] /\ tasks'[j] = tasks[j]
        BY <1>0, <2>1 DEF add_task_begin, add_task_put, start_wait
      <3>2. QED
        BY <3>1, SameDrained
    <2>2. CASE wait_tasks_empty(k)
      <3>1. /\ UNCHANGED <<raised, tasks>>
            /\ \A j \in Kernels : j # k => kernel_pc'[j] = kernel_pc[j]
            /\ kernel_pc'[k] \in {"last_exception", "done"} => tasks[k] = {}
        BY <1>0, <2>2 DEF wait_tasks_empty
      <3>2. QED
        BY <3>1 DEF DrainedInv
    <2>3. CASE wait_has_exception(k)
      <3>1. /\ UNCHANGED <<raised, tasks>>
            /\ \A j \in Kernels : j # k => kernel_pc'[j] = kernel_pc[j]
            /\ kernel_pc'[k] \in {"last_exception", "done"} => exception_holder # <<>>
        BY <1>0, <2>3 DEF wait_has_exception
      <3>2. exception_holder # <<>> => raised # {}
        <4>1. exception_holder \in Seq(TaskIds)
          BY DEF IInv, TypeInv, TypeOK
        <4>2. QED
          BY <4>1, TailQueue DEF ExceptionInv, ExceptionsConserved
      <3>3. QED
        BY <3>1, <3>2 DEF DrainedInv
    <2>4. CASE last_exception(k)
      <3>1. /\ UNCHANGED <<raised, tasks>>
            /\ \A j \in Kernels : j # k => kernel_pc'[j] = kernel_pc[j]
            /\ kernel_pc[k] = "last_exception"
        BY <1>0, <2>4 DEF last_exception
      <3>2. QED
        BY <3>1, SameDrained
    <2>5. QED
      BY <1>1, <2>1, <2>2, <2>3, <2>4 DEF KernelNext
  <1>2. ASSUME NEW w \in Threads, ThreadNext(w)
        PROVE  DrainedInv'
    <2>1. CASE notify_complete(w) \/ notify_fail(w)
      <3>1. /\ raised' = raised
            /\ \A j \in Kernels : /\ kernel_pc'[j] \in {"last_exception", "done"} =>
                                       kernel_pc[j] \in {"last_exception", "done"}
                                  /\ tasks'[j] \subseteq tasks[j]
        BY <1>0, <2>1 DEF notify_complete, notify_fail, notify_kernel
      <3>2. QED
        BY <3>1, SameDrained
    <2>2. CASE \/ pool_take(w) \/ memory_gate(w) \/ decache(w) \/ decache_bad_alloc(w)
               \/ decache_error(w) \/ process_success(w) \/ process_retry(w)
               \/ process_fail(w) \/ release(w) \/ hold_exception(w)
      <3>1. /\ raised \subseteq raised'
            /\ UNCHANGED <<tasks, kernel_pc>>
        BY <2>2 DEF pool_take, memory_gate, decache, decache_bad_alloc, decache_error,
             process_success, process_retry, process_fail, release, hold_exception
      <3>2. QED
        BY <3>1, SameDrained
    <2>3. QED
      BY <1>2, <2>1, <2>2 DEF ThreadNext
  <1>3. CASE DispatcherNext \/ MonitorNext \/ UNCHANGED vars
    <2>1. UNCHANGED <<raised, tasks, kernel_pc>>
      BY <1>3 DEF DispatcherNext, execute_check, execute_dispatch, MonitorNext,
           monitor_take, monitor_downgraded, monitor_throws, monitor_stop_taking,
           monitor_return, vars
    <2>2. QED
      BY <2>1, SameDrained
  <1>4. QED
    BY <1>1, <1>2, <1>3 DEF Next

\* While no task has thrown, a kernel whose run() returned has seen every one of
\* its tasks complete: the wait in kernel::run() never ends early.
THEOREM ReturnMeansDrained == Spec => []NormalReturnMeansDrained
  <1>1. Init => DrainedInv
    BY DEF Init, DrainedInv
  <1>2. DrainedInv => NormalReturnMeansDrained
    BY DEF DrainedInv, NormalReturnMeansDrained
  <1>3. QED
    BY <1>1, <1>2, ExceptionInit, ExceptionStep, DrainedStep, Invariance, PTL DEF Spec
=============================================================================
