----------------------------- MODULE CacheMachine -----------------------------
(***************************************************************************)
(* One cache between two kernels: CacheMachine and                         *)
(* ConcatenatingCacheMachine (cache_machine/CacheMachine.{h,cpp}) over     *)
(* their WaitingQueue (cache_machine/WaitingQueue.h), with the disk tier's *)
(* constructor (CacheDataLocalFile.cpp), the finish of the producing       *)
(* kernel (execution_graph/graph.cpp), the consuming loops of the kernels  *)
(* (execution_kernels/BatchProcessing.cpp) and the half of the             *)
(* MemoryMonitor that downgrades caches (bmr/MemoryMonitor.cpp).           *)
(*                                                                         *)
(* Actors: the producers (pool threads that run tasks of the producing     *)
(* kernel, or its own threads), the producing kernel, which finishes the   *)
(* cache, one consumer, and the monitor.  The queue's mutex is a variable  *)
(* because the monitor holds it over many steps.                           *)
(*                                                                         *)
(* Abstracted: a table is a batch with a number of rows and of bytes; the  *)
(* tier a batch goes to is a free choice among Tiers, for the memory that  *)
(* decides it is shared with everything else in the process; whether the   *)
(* strings of several tables overflow when joined is a free choice too.    *)
(* What makes the producing kernel's run() throw, or return before its     *)
(* tasks are done, is the business of Executor: here it may happen at any  *)
(* moment (finish_aborted).                                                *)
(***************************************************************************)
EXTENDS Integers, Sequences, FiniteSets, SequencesExt, Totals

CONSTANTS
    Producers,               \* threads that add to the cache
    Batches,                 \* the tables they add
    Size,                    \* sizeInBytes, by batch
    Settings,                \* the caches and their users (see setting)
    attempts_limit,          \* of the CacheDataLocalFile constructor (10)
    MaxAddFaults,            \* bound: adds that throw after the rows count
    NoOne                    \* the mutex is free

Entries == {"addToCache", "addCacheData", "addHostFrameToCache"}

SettingType ==
    [input : [Producers -> Seq(Batches)], rows : [Batches -> Nat],
     entry : [Producers -> Entries], always_add : SUBSET Producers,
     concat : {"none", "bytes", "all"},
     consumer : {"kernel", "output", "unordered"},
     tiers : SUBSET {"GPU", "CPU", "DISK", "nowhere"},
     num_bytes : Nat, timeout : BOOLEAN]

ASSUME CacheAssumption ==
    /\ Size \in [Batches -> Nat]
    /\ \A s \in Settings : s \in SettingType
    /\ attempts_limit \in Nat \ {0}
    /\ MaxAddFaults \in Nat
    /\ "monitor" \notin Producers \cup {NoOne}

\* A batch is one table, which one thread adds once; and a kernel's tasks
\* have at least one to add, if only an empty one.
ASSUME InputAssumption ==
    \A s \in Settings :
        /\ \A p \in Producers : IsInjective(s.input[p])
        /\ \A p, q \in Producers :
              p # q => Range(s.input[p]) \cap Range(s.input[q]) = {}
        /\ \E p \in Producers : s.input[p] # <<>>

VARIABLES
    setting,          \* how the cache was made and is used; it never changes
    message_queue,    \* WaitingQueue::message_queue_: records [batch, tier]
    mutex,            \* the holder of WaitingQueue::mutex_ over several steps
    finished,         \* WaitingQueue::finished
    aborted,          \* history: it was set although run() failed
    processed,        \* WaitingQueue::processed
    something_added,  \* CacheMachine::something_added, a plain bool
    num_rows_added,   \* CacheMachine::num_rows_added
    recounted,        \* history: the batches whose counted add threw
    todo,             \* what each producer has still to add
    add_pc,           \* where each producer stands in its add
    attempts,         \* the constructor's attempts, by calling thread
    written,          \* the file of that constructor exists
    pull_pc,          \* where the consumer stands
    collected,        \* collected_messages
    delivered,        \* history: the tables the consumer got, lists of batches
    taken,            \* history: those batches one after the other
    monitor,          \* where MemoryMonitor::downgradeCaches stands
    bytes_downgraded, \* its local in downgradeCacheData
    skipped,          \* history: empty tables that were not added
    lost              \* history: batches that are nowhere any more

queueVars   == <<message_queue, processed>>
endVars     == <<finished, aborted>>
addVars     == <<todo, add_pc, something_added, num_rows_added, recounted,
                 skipped>>
fileVars    == <<attempts, written>>
pullVars    == <<pull_pc, collected, delivered, taken>>
monitorVars == <<monitor, bytes_downgraded>>
vars == <<setting, queueVars, mutex, endVars, addVars, fileVars, pullVars,
          monitorVars, lost>>

\* What the plan and the rest of the node decide: the tables and their rows,
\* the class of the cache and its parameters, the functions its users call.
Input       == setting.input       \* what each producer adds, in order
Rows        == setting.rows        \* BlazingTable::num_rows, by batch
Entry       == setting.entry       \* the function each producer calls
AlwaysAdd   == setting.always_add  \* those that pass always_add = true
Concat      == setting.concat      \* the class, and concat_all
Consumer    == setting.consumer    \* the loop of the consumer
Tiers       == setting.tiers       \* what the memory of the node allows
concat_cache_num_bytes == setting.num_bytes
NumBytesTimeout == setting.timeout \* num_bytes_timeout > -1

Writers == Producers \cup {"monitor"}
Messages == [batch : Batches, tier : {"GPU", "CPU", "FILE"}]
AddPcs == {"ready", "place", "write", "mark", "threw"}
PullPcs == {"wait", "pull", "pop", "next", "size", "release", "put_back",
            "ended", "crashed"}

Init ==
    /\ setting \in Settings
    /\ message_queue = <<>>
    /\ mutex = NoOne
    /\ finished = FALSE
    /\ aborted = FALSE
    /\ processed = 0
    /\ something_added = FALSE
    /\ num_rows_added = 0
    /\ recounted = <<>>
    /\ todo = Input
    /\ add_pc = [p \in Producers |-> "ready"]
    /\ attempts = [w \in Writers |-> 0]
    /\ written = [w \in Writers |-> FALSE]
    /\ pull_pc = IF Consumer = "kernel" THEN "pull" ELSE "wait"
    /\ collected = <<>>
    /\ delivered = <<>>
    /\ taken = <<>>
    /\ monitor = "sleep"
    /\ bytes_downgraded = 0
    /\ skipped = {}
    /\ lost = {}

-----------------------------------------------------------------------------
(* Producers.                                                              *)

\* Mutant: an empty table is skipped whether or not anything was added.
admits_rows_only(p, b) ==
    \/ Rows[b] > 0
    \/ p \in AlwaysAdd /\ Entry[p] # "addHostFrameToCache"

\* The test that opens addToCache, addCacheData and addHostFrameToCache (which
\* has no always_add).
admits(p, b) ==
    \/ ~something_added
    \/ Rows[b] > 0
    \/ p \in AlwaysAdd /\ Entry[p] # "addHostFrameToCache"

\* The call, as far as the counters: num_rows_added += ..., or return false.
add(p) ==
    /\ add_pc[p] = "ready"
    /\ todo[p] # <<>>
    /\ LET b == Head(todo[p]) IN
       \/ /\ admits(p, b)
          /\ num_rows_added' = num_rows_added + Rows[b]
          /\ add_pc' = [add_pc EXCEPT ![p] = "place"]
          /\ UNCHANGED <<todo, skipped>>
       \/ /\ ~admits(p, b)
          /\ skipped' = skipped \cup {b}
          /\ todo' = [todo EXCEPT ![p] = Tail(@)]
          /\ UNCHANGED <<add_pc, num_rows_added>>
    /\ UNCHANGED <<setting, queueVars, mutex, endVars, something_added,
                   recounted, fileVars, pullVars, monitorVars, lost>>

\* The types of CacheData that producer p may put: the tiers that addToCache
\* finds room in, the type that the CacheData already has, or a host table.
put_tiers(p) ==
    CASE Entry[p] = "addToCache"          -> Tiers \cap {"GPU", "CPU"}
      [] Entry[p] = "addCacheData"        -> {"GPU", "CPU", "FILE"}
      [] Entry[p] = "addHostFrameToCache" -> {"CPU"}

\* WaitingQueue::put: takes the mutex, appends, counts, notifies.
put(m) ==
    /\ mutex = NoOne
    /\ message_queue' = Append(message_queue, m)
    /\ processed' = processed + 1

\* waitingCache->put of a GPU, CPU or already existing file CacheData.
add_put(p) ==
    /\ add_pc[p] = "place"
    /\ \E tier \in put_tiers(p) : put([batch |-> Head(todo[p]), tier |-> tier])
    /\ add_pc' = [add_pc EXCEPT ![p] = "mark"]
    /\ UNCHANGED <<setting, mutex, endVars, todo, something_added,
                   num_rows_added, recounted, skipped, fileVars, pullVars,
                   monitorVars, lost>>

\* addToCache found room, and ensureOwnership or the copy to the host throws,
\* the rows being counted.  A task that ran out of memory is run again, to add
\* the same table; any other failure ends it.
add_throws(p) ==
    /\ add_pc[p] = "place"
    /\ Entry[p] = "addToCache"
    /\ Tiers \cap {"GPU", "CPU"} # {}
    /\ Len(recounted) < MaxAddFaults
    /\ recounted' = Append(recounted, Head(todo[p]))
    /\ \/ /\ add_pc' = [add_pc EXCEPT ![p] = "ready"]
          /\ UNCHANGED lost
       \/ /\ add_pc' = [add_pc EXCEPT ![p] = "threw"]
          /\ lost' = lost \cup {Head(todo[p])}
    /\ UNCHANGED <<setting, queueVars, mutex, endVars, todo, something_added,
                   num_rows_added, skipped, fileVars, pullVars, monitorVars>>

\* addToCache with no room in the device nor in the host: the constructor of
\* CacheDataLocalFile starts.
add_to_disk(p) ==
    /\ add_pc[p] = "place"
    /\ Entry[p] = "addToCache"
    /\ "DISK" \in Tiers
    /\ add_pc' = [add_pc EXCEPT ![p] = "write"]
    /\ attempts' = [attempts EXCEPT ![p] = 0]
    /\ written' = [written EXCEPT ![p] = FALSE]
    /\ UNCHANGED <<setting, queueVars, mutex, endVars, todo, something_added,
                   num_rows_added, recounted, skipped, pullVars, monitorVars,
                   lost>>

\* addToCache with no room in any of the three resources: its loop over
\* memory_resources ends and nothing was put.
add_nowhere(p) ==
    /\ add_pc[p] = "place"
    /\ Entry[p] = "addToCache"
    /\ "nowhere" \in Tiers
    /\ add_pc' = [add_pc EXCEPT ![p] = "mark"]
    /\ lost' = lost \cup {Head(todo[p])}
    /\ UNCHANGED <<setting, queueVars, mutex, endVars, todo, something_added,
                   num_rows_added, recounted, skipped, fileVars, pullVars,
                   monitorVars>>

Writing(w) == IF w = "monitor" THEN monitor = "write" ELSE add_pc[w] = "write"

\* write_orc succeeds.  Nothing in the body leaves the loop then: `attempts` is
\* as before, and the loop's test sends it round again.
write_orc(w) ==
    /\ Writing(w)
    /\ attempts[w] <= attempts_limit
    /\ written' = [written EXCEPT ![w] = TRUE]
    /\ UNCHANGED <<setting, queueVars, mutex, endVars, addVars, attempts,
                   pullVars, monitorVars, lost>>

\* Mutant: the last attempt is counted and does not throw.
write_orc_retries(w) ==
    /\ Writing(w)
    /\ attempts[w] <= attempts_limit
    /\ attempts' = [attempts EXCEPT ![w] = @ + 1]
    /\ UNCHANGED <<setting, queueVars, mutex, endVars, addVars, written,
                   pullVars, monitorVars, lost>>

\* write_orc throws cudf::logic_error and there are attempts left.
write_orc_fails(w) ==
    /\ Writing(w)
    /\ attempts[w] + 1 < attempts_limit
    /\ attempts' = [attempts EXCEPT ![w] = @ + 1]
    /\ UNCHANGED <<setting, queueVars, mutex, endVars, addVars, written,
                   pullVars, monitorVars, lost>>

\* The last attempt fails: the exception leaves addToCache with the table.
write_orc_throws(p) ==
    /\ Writing(p)
    /\ attempts[p] + 1 = attempts_limit
    /\ add_pc' = [add_pc EXCEPT ![p] = "threw"]
    /\ lost' = lost \cup {Head(todo[p])}
    /\ UNCHANGED <<setting, queueVars, mutex, endVars, todo, something_added,
                   num_rows_added, recounted, skipped, fileVars, pullVars,
                   monitorVars>>

\* something_added = true, and the add returns true.
add_mark(p) ==
    /\ add_pc[p] = "mark"
    /\ something_added' = TRUE
    /\ todo' = [todo EXCEPT ![p] = Tail(@)]
    /\ add_pc' = [add_pc EXCEPT ![p] = "ready"]
    /\ UNCHANGED <<setting, queueVars, mutex, endVars, num_rows_added,
                   recounted, skipped, fileVars, pullVars, monitorVars, lost>>

AllAdded == \A p \in Producers : add_pc[p] = "ready" /\ todo[p] = <<>>

\* Mutant: the kernel finishes its output without waiting for its tasks.
finish_early ==
    /\ mutex = NoOne
    /\ ~finished
    /\ finished' = TRUE
    /\ UNCHANGED <<setting, queueVars, mutex, aborted, addVars, fileVars,
                   pullVars, monitorVars, lost>>

\* output_.finish(): run() returned because every task completed.
finish ==
    /\ mutex = NoOne
    /\ ~finished
    /\ AllAdded
    /\ finished' = TRUE
    /\ UNCHANGED <<setting, queueVars, mutex, aborted, addVars, fileVars,
                   pullVars, monitorVars, lost>>

\* output_.finish() when run() threw, anything and at any moment, or returned
\* because it saw an exception that another kernel then took.  The tasks that
\* are in the pool may still add.
finish_aborted ==
    /\ mutex = NoOne
    /\ ~finished
    /\ finished' = TRUE
    /\ aborted' = TRUE
    /\ UNCHANGED <<setting, queueVars, mutex, addVars, fileVars, pullVars,
                   monitorVars, lost>>

-----------------------------------------------------------------------------
(* The consumer.  A kernel's run() is                                      *)
(*     d = pullCacheData();                                                *)
(*     while (d != nullptr) { ...; d = pullCacheData(); }                  *)
(* and those of OutputKernel and Print are                                 *)
(*     while (wait_for_next()) { t = pullFromCache(); ... }                *)
(* ("unordered": with BatchSequence::ordered = false).                     *)

consumerUnchanged ==
    <<setting, mutex, endVars, addVars, fileVars, monitorVars, lost>>

BatchesOf(messages) == [i \in 1 .. Len(messages) |-> messages[i].batch]
Bytes(messages) == Total(Size, BatchesOf(messages))

\* The messages that are in the GPU, the first and the last of them.
OnGPU == {i \in DOMAIN message_queue : message_queue[i].tier = "GPU"}
FirstOnGPU(i) == i \in OnGPU /\ \A j \in OnGPU : i <= j
LastOnGPU(i) == i \in OnGPU /\ \A j \in OnGPU : j <= i

\* Where a consumer goes after a table, and after a nullptr.
NextPull == IF Consumer = "kernel" THEN "pull" ELSE "wait"
AfterNull == IF Consumer = "kernel" THEN "ended" ELSE "wait"

\* Mutant: wait_for_next answers true once the queue is finished.
wait_for_next_finished ==
    /\ pull_pc = "wait"
    /\ mutex = NoOne
    /\ finished \/ message_queue # <<>>
    /\ pull_pc' = "pull"
    /\ UNCHANGED <<queueVars, collected, delivered, taken, consumerUnchanged>>

\* WaitingQueue::wait_for_next
wait_for_next ==
    /\ pull_pc = "wait"
    /\ mutex = NoOne
    /\ finished \/ message_queue # <<>>
    /\ pull_pc' = IF message_queue = <<>> THEN "ended" ELSE "pull"
    /\ UNCHANGED <<queueVars, collected, delivered, taken, consumerUnchanged>>

\* WaitingQueue::pop_or_wait, when it returns a message.
pop ==
    /\ mutex = NoOne
    /\ message_queue # <<>>
    /\ message_queue' = Tail(message_queue)
    /\ UNCHANGED processed

\* WaitingQueue::pop_or_wait, when it returns nullptr.
pop_null ==
    /\ mutex = NoOne
    /\ finished
    /\ message_queue = <<>>
    /\ UNCHANGED queueVars

\* The consumer gets a table made of these batches.
deliver(batches) ==
    /\ delivered' = Append(delivered, batches)
    /\ taken' = taken \o batches

\* Where the plain CacheMachine is about to call pop_or_wait.
PlainPull ==
    /\ Concat = "none"
    /\ pull_pc = IF Consumer = "unordered" THEN "pop" ELSE "pull"

\* CacheMachine::pullCacheData and pullFromCache, with a message.
pull_message ==
    /\ PlainPull
    /\ pop
    /\ deliver(<<Head(message_queue).batch>>)
    /\ pull_pc' = NextPull
    /\ UNCHANGED <<collected, consumerUnchanged>>

\* ... with a nullptr: pullCacheData returns it; pullFromCache asks it for its
\* message id before it looks whether it is one.
pull_null ==
    /\ PlainPull
    /\ pop_null
    /\ pull_pc' = IF Consumer = "kernel" THEN "ended" ELSE "crashed"
    /\ UNCHANGED <<collected, delivered, taken, consumerUnchanged>>

\* CacheMachine::pullUnorderedFromCache under its lock: take the first message
\* that is in the GPU, leave the others as they are, else call pullFromCache.
pullUnorderedFromCache ==
    /\ Concat = "none" /\ Consumer = "unordered"
    /\ pull_pc = "pull"
    /\ mutex = NoOne
    /\ \/ /\ \E i \in DOMAIN message_queue :
                 /\ FirstOnGPU(i)
                 /\ deliver(<<message_queue[i].batch>>)
                 /\ message_queue' = RemoveAt(message_queue, i)
          /\ pull_pc' = "wait"
       \/ /\ OnGPU = {}
          /\ pull_pc' = "pop"
          /\ UNCHANGED <<message_queue, delivered, taken>>
    /\ UNCHANGED <<processed, collected, consumerUnchanged>>

\* The start of ConcatenatingCacheMachine's pulls: wait_until_finished, or
\* wait_until_num_bytes with its timeout.
wait_to_concat ==
    /\ Concat # "none"
    /\ pull_pc = "pull"
    /\ mutex = NoOne
    /\ \/ finished
       \/ Concat = "bytes" /\ Bytes(message_queue) > concat_cache_num_bytes
       \/ Concat = "bytes" /\ NumBytesTimeout /\ Bytes(message_queue) > 0
    /\ pull_pc' = IF Concat = "all" THEN "pop" ELSE "next"
    /\ UNCHANGED <<queueVars, collected, delivered, taken, consumerUnchanged>>

\* has_next_now, at the top of the loop (not with concat_all).
has_next_now ==
    /\ pull_pc = "next"
    /\ mutex = NoOne
    /\ pull_pc' = IF message_queue = <<>> THEN "release" ELSE "pop"
    /\ UNCHANGED <<queueVars, collected, delivered, taken, consumerUnchanged>>

collect ==
    /\ Concat # "none"
    /\ pull_pc = "pop"
    /\ pop
    /\ collected' = Append(collected, Head(message_queue))
    /\ pull_pc' = IF Concat = "all" THEN "pop" ELSE "size"
    /\ UNCHANGED <<delivered, taken, consumerUnchanged>>

collect_null ==
    /\ Concat # "none"
    /\ pull_pc = "pop"
    /\ pop_null
    /\ pull_pc' = "release"
    /\ UNCHANGED <<collected, delivered, taken, consumerUnchanged>>

\* WaitingQueue::get_next_size_in_bytes
get_next_size_in_bytes ==
    IF message_queue = <<>> THEN 0 ELSE Size[Head(message_queue).batch]

\* Mutant: total_bytes holds the size of the last message only.
next_fits_last ==
    Size[Last(collected).batch] + get_next_size_in_bytes
        <= concat_cache_num_bytes

\* total_bytes + get_next_size_in_bytes() <= concat_cache_num_bytes
next_fits ==
    Bytes(collected) + get_next_size_in_bytes <= concat_cache_num_bytes

size_check ==
    /\ pull_pc = "size"
    /\ mutex = NoOne
    /\ pull_pc' = IF next_fits THEN "next" ELSE "release"
    /\ UNCHANGED <<queueVars, collected, delivered, taken, consumerUnchanged>>

\* Nothing was collected: the pull returns nullptr.
release_null ==
    /\ pull_pc = "release"
    /\ collected = <<>>
    /\ pull_pc' = AfterNull
    /\ UNCHANGED <<queueVars, collected, delivered, taken, consumerUnchanged>>

\* All that was collected is one table.
release_all ==
    /\ pull_pc = "release"
    /\ collected # <<>>
    /\ deliver(BatchesOf(collected))
    /\ collected' = <<>>
    /\ pull_pc' = NextPull
    /\ UNCHANGED <<queueVars, consumerUnchanged>>

\* Mutant: the table that made the strings overflow is dropped, not put back.
release_some_drops ==
    /\ pull_pc = "release"
    /\ Concat = "bytes" /\ Consumer # "kernel"
    /\ \E i \in 2 .. Len(collected) :
           /\ deliver(BatchesOf(SubSeq(collected, 1, i - 1)))
           /\ collected' = SubSeq(collected, i + 1, Len(collected))
    /\ pull_pc' = "put_back"
    /\ UNCHANGED <<queueVars, consumerUnchanged>>

\* pullFromCache without concat_all finds that table i would overflow the
\* strings: the tables before it are the output, it becomes a GPUCacheData.
release_some ==
    /\ pull_pc = "release"
    /\ Concat = "bytes" /\ Consumer # "kernel"
    /\ \E i \in 2 .. Len(collected) :
           /\ deliver(BatchesOf(SubSeq(collected, 1, i - 1)))
           /\ collected' = [SubSeq(collected, i, Len(collected))
                               EXCEPT ![1].tier = "GPU"]
    /\ pull_pc' = "put_back"
    /\ UNCHANGED <<queueVars, consumerUnchanged>>

\* Mutant: a finished queue takes no message back.
put_back_refused ==
    /\ pull_pc = "put_back"
    /\ \/ /\ collected # <<>>
          /\ ~finished
          /\ put(Head(collected))
          /\ collected' = Tail(collected)
          /\ UNCHANGED pull_pc
       \/ /\ collected = <<>>
          /\ pull_pc' = NextPull
          /\ UNCHANGED <<queueVars, collected>>
    /\ UNCHANGED <<delivered, taken, consumerUnchanged>>

\* ... and it and the ones after it are put again, one by one.
put_back ==
    /\ pull_pc = "put_back"
    /\ \/ /\ collected # <<>>
          /\ put(Head(collected))
          /\ collected' = Tail(collected)
          /\ UNCHANGED pull_pc
       \/ /\ collected = <<>>
          /\ pull_pc' = NextPull
          /\ UNCHANGED <<queueVars, collected>>
    /\ UNCHANGED <<delivered, taken, consumerUnchanged>>

-----------------------------------------------------------------------------
(* The monitor: CacheMachine::downgradeCacheData, the mutex held.          *)

monitorUnchanged == <<setting, processed, endVars, addVars, pullVars>>

\* It finds something to downgrade (a call that finds nothing changes nothing);
\* a ConcatenatingCacheMachine overrides it to do nothing.
downgrade_begin ==
    /\ monitor = "sleep"
    /\ Concat = "none"
    /\ Tiers \cap {"CPU", "DISK"} # {}
    /\ mutex = NoOne
    /\ OnGPU # {}
    /\ mutex' = "monitor"
    /\ monitor' = "scan"
    /\ bytes_downgraded' = 0
    /\ UNCHANGED <<message_queue, monitorUnchanged, fileVars, lost>>

\* Mutant: the downgraded message goes to the back of the queue.
downgrade_reorders ==
    /\ monitor = "scan"
    /\ "CPU" \in Tiers
    /\ \E i \in DOMAIN message_queue :
       /\ LastOnGPU(i)
       /\ message_queue' = Append(RemoveAt(message_queue, i),
                                  [message_queue[i] EXCEPT !.tier = "CPU"])
       /\ bytes_downgraded' = bytes_downgraded + Size[message_queue[i].batch]
    /\ UNCHANGED <<mutex, monitor, monitorUnchanged, fileVars, lost>>

\* One turn of the loop from the back, to the host's memory.
downgrade_to_host ==
    /\ monitor = "scan"
    /\ "CPU" \in Tiers
    /\ \E i \in DOMAIN message_queue :
       /\ LastOnGPU(i)
       /\ message_queue' = [message_queue EXCEPT ![i].tier = "CPU"]
       /\ bytes_downgraded' = bytes_downgraded + Size[message_queue[i].batch]
    /\ UNCHANGED <<mutex, monitor, monitorUnchanged, fileVars, lost>>

\* One turn when the host is full: the CacheDataLocalFile constructor again.
downgrade_to_disk ==
    /\ monitor = "scan"
    /\ "DISK" \in Tiers
    /\ monitor' = "write"
    /\ \E i \in DOMAIN message_queue :
       /\ LastOnGPU(i)
       /\ bytes_downgraded' = bytes_downgraded + Size[message_queue[i].batch]
    /\ attempts' = [attempts EXCEPT !["monitor"] = 0]
    /\ written' = [written EXCEPT !["monitor"] = FALSE]
    /\ UNCHANGED <<message_queue, mutex, monitorUnchanged, lost>>

\* The last attempt fails: the exception destroys all_messages, releases the
\* lock and ends the monitor's thread; finalize() will rethrow it.
downgrade_throws ==
    /\ Writing("monitor")
    /\ attempts["monitor"] + 1 = attempts_limit
    /\ lost' = lost \cup Range(BatchesOf(message_queue))
    /\ message_queue' = <<>>
    /\ mutex' = NoOne
    /\ monitor' = "threw"
    /\ UNCHANGED <<bytes_downgraded, monitorUnchanged, fileVars>>

\* Nothing is left in the GPU: put_all_unsafe, unlock.
downgrade_end ==
    /\ monitor = "scan"
    /\ OnGPU = {}
    /\ mutex' = NoOne
    /\ monitor' = "sleep"
    /\ UNCHANGED <<message_queue, bytes_downgraded, monitorUnchanged,
                   fileVars, lost>>

-----------------------------------------------------------------------------
Consume ==
    \/ wait_for_next \/ pull_message \/ pull_null \/ pullUnorderedFromCache
    \/ wait_to_concat \/ has_next_now \/ collect \/ collect_null \/ size_check
    \/ release_null \/ release_all \/ release_some \/ put_back

Produce(p) ==
    add(p) \/ add_put(p) \/ add_to_disk(p) \/ add_nowhere(p) \/ add_mark(p)

Downgrade ==
    \/ downgrade_begin \/ downgrade_to_host \/ downgrade_to_disk
    \/ downgrade_throws \/ downgrade_end

Next ==
    \/ \E p \in Producers :
           Produce(p) \/ add_throws(p) \/ write_orc_throws(p)
    \/ \E w \in Writers : write_orc(w) \/ write_orc_fails(w)
    \/ finish
    \/ finish_aborted
    \/ Consume
    \/ Downgrade

Spec == Init /\ [][Next]_vars

\* Every thread that can go on does, the tasks as long as their kernel lives; a
\* call of downgradeCacheData that has begun is completed.  Nothing promises
\* that the monitor begins one, that a write to the disk fails, that a kernel
\* does, nor that one whose task threw leaves its wait (see Executor).
Fairness ==
    /\ \A p \in Producers : WF_vars(~aborted /\ Produce(p))
    /\ \A w \in Writers : WF_vars(write_orc(w))
    /\ WF_vars(finish)
    /\ WF_vars(Consume)
    /\ WF_vars(downgrade_to_host \/ downgrade_to_disk \/ downgrade_end)

LiveSpec == Spec /\ Fairness

-----------------------------------------------------------------------------
(* Properties.                                                             *)

TypeOK ==
    /\ setting \in Settings
    /\ message_queue \in Seq(Messages)
    /\ mutex \in {NoOne, "monitor"}
    /\ finished \in BOOLEAN
    /\ aborted \in BOOLEAN
    /\ processed \in Nat
    /\ something_added \in BOOLEAN
    /\ num_rows_added \in Nat
    /\ recounted \in Seq(Batches)
    /\ todo \in [Producers -> Seq(Batches)]
    /\ add_pc \in [Producers -> AddPcs]
    /\ attempts \in [Writers -> 0 .. attempts_limit]
    /\ written \in [Writers -> BOOLEAN]
    /\ pull_pc \in PullPcs
    /\ collected \in Seq(Messages)
    /\ delivered \in Seq(Seq(Batches))
    /\ taken \in Seq(Batches)
    /\ monitor \in {"sleep", "scan", "write", "threw"}
    /\ bytes_downgraded \in Nat
    /\ skipped \subseteq Batches
    /\ lost \subseteq Batches

\* How often batch b is anywhere: still to be added (and not yet put), in the
\* queue, in the consumer's hands, delivered, skipped or lost.
InSeq(b, s) == Cardinality({i \in DOMAIN s : s[i] = b})
Pending(b) == Cardinality({p \in Producers :
                  \E i \in DOMAIN todo[p] :
                      /\ todo[p][i] = b
                      /\ ~(i = 1 /\ add_pc[p] \in {"mark", "threw"})})
Places(b) ==
    Pending(b) + InSeq(b, BatchesOf(message_queue))
    + InSeq(b, BatchesOf(collected)) + InSeq(b, taken)
    + (IF b \in skipped THEN 1 ELSE 0) + (IF b \in lost THEN 1 ELSE 0)

\* A batch is in exactly one place from the moment a task produced it: no
\* interleaving of adds, pulls, put-backs (CacheMachine.cpp:799-823) and
\* downgrades duplicates or mislays one.
BatchesConserved ==
    \A b \in Batches :
        Places(b) = IF \E p \in Producers : b \in Range(Input[p]) THEN 1 ELSE 0

\* No add failed for good, no table found every tier full, and the producing
\* kernel's run() came to its end.
NoLoss == lost = {} /\ ~aborted
DeliveredRows == Total(Rows, taken)

EveryBatchArrived ==
    \A p \in Producers : \A b \in Range(Input[p]) :
        Rows[b] > 0 => \E g \in Range(delivered) : b \in Range(g)
ProcessedIsTaken == Consumer = "kernel" => processed = Len(taken)

\* When the consumer has seen the end of the cache, nothing was lost to a full
\* or failing tier and the producing kernel did not abort, it got every batch
\* that has rows; num_rows_added, from which the estimates of graph.cpp:169 are
\* made, is the rows it got and those of the adds that threw and were run
\* again, counted anew (CacheMachine.cpp:320); and `processed`, which
\* wait_for_count trusts, is what it got.
EndMeansEverything ==
    pull_pc = "ended" /\ NoLoss =>
        /\ EveryBatchArrived
        /\ num_rows_added = DeliveredRows + Total(Rows, recounted)
        /\ ProcessedIsTaken

\* A consumer gets at least one batch, if only an empty one that carries the
\* schema, unless the producing kernel aborted (graph.cpp:73) or a batch was
\* lost: Projection::run (BatchProcessing.cpp:436) and others throw when the
\* first pull returns nullptr.
SchemaSurvives ==
    pull_pc = "ended" /\ NoLoss => delivered # <<>>

\* A table that ConcatenatingCacheMachine made of several batches passes
\* concat_cache_num_bytes with its last batch at most, although the queue
\* grows between the look at the next message's size, has_next_now and the
\* pop.  That it never passes them, "the max size in bytes to concatenate the
\* batches read from the scan kernels" (apiv2/context.py:1341), does not hold:
\* an empty queue has a next size of 0.
ConcatPassedByLastOnly ==
    Concat = "bytes" =>
        \A g \in Range(delivered) :
            Len(g) > 1 => Total(Size, Front(g)) <= concat_cache_num_bytes

\* With concat_all the consumer gets a single table, unless the producing
\* kernel aborted, whose tasks may add after finish(): the outer joins of
\* PartwiseJoin are wrong on anything less (PhysicalPlanGenerator.h:493-497).
ConcatAllIsOne ==
    Concat = "all" /\ NoLoss => Len(delivered) <= 1

\* The consumer is never handed the nullptr that pullFromCache dereferences
\* (CacheMachine.cpp:497), as long as no downgrade failed: wait_for_next saw a
\* message and nobody else takes one.
NoNullPulled == monitor # "threw" => pull_pc # "crashed"

\* The abstract channel: what was ever put and is not lost, in order, and how
\* much of it the consumer has.
Through ==
    taken \o BatchesOf(collected) \o BatchesOf(message_queue)

\* Whose order is promised: a kernel's, and no write to the disk can fail.
Ordered == Consumer = "kernel" /\ Tiers \subseteq {"GPU", "CPU"}

Channel == INSTANCE BatchChannel WITH
    sent    <- IF Ordered THEN Through ELSE <<>>,
    taken   <- IF Ordered THEN Len(taken) ELSE 0,
    closed  <- finished,
    aborted <- aborted,
    over    <- Ordered /\ pull_pc = "ended"

\* The cache is a FIFO channel for a kernel that pulls: downgrades, tiers and
\* concatenation never reorder what was put ("this function does not change
\* the order of the caches", CacheMachine.cpp:651), and a nullptr is pulled
\* only after finish and after the last batch.
IsFifoChannel == Channel!Spec

\* Every add to the disk tier ends, by an exception if need be.
WritesEnd ==
    \A p \in Producers : (add_pc[p] = "write") ~> (add_pc[p] # "write")

\* Unless the disk tier is used (see WritesEnd), whatever the monitor does: the
\* cache is finished, if none of its producers threw, and the consumer of a
\* finished cache comes to its end, however it was finished.
ConsumerEnds ==
    Tiers \subseteq {"GPU", "CPU"} =>
       /\ <>(finished \/ \E p \in Producers : add_pc[p] = "threw")
       /\ finished ~> (pull_pc = "ended")
=============================================================================
