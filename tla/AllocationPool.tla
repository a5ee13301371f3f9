---------------------------- MODULE AllocationPool ----------------------------
(***************************************************************************)
(* The pool of host memory that tables are copied to and messages are      *)
(* received into: allocation_pool and convert_gpu_buffers_to_chunks        *)
(* (bmr/BufferProvider.{h,cpp}), and the destructor of BlazingHostTable    *)
(* that gives the chunks back (blazing_table/BlazingHostTable.cpp).        *)
(*                                                                         *)
(* Actors: the users, threads that turn a table into chunks, keep it for a *)
(* while and destroy it.  get_chunk and free_chunk hold in_use_mutex from  *)
(* end to end, so that each is one step.                                   *)
(*                                                                         *)
(* Abstracted: bytes are counted and not stored; a pointer to an           *)
(* allocation is an id, which a later allocation may get again; the free   *)
(* chunks of an allocation are a set, since nothing depends on which of    *)
(* them is on top of its stack; the mapping of pinned memory for UCX is    *)
(* only a way for an allocation to fail.                                   *)
(***************************************************************************)
EXTENDS Integers, Sequences, FiniteSets, SequencesExt, FiniteSetsExt, Totals

CONSTANTS
    Users,          \* threads that make and destroy host tables
    Ids,            \* addresses of blazing_allocation objects
    Tables,         \* buffer_sizes: the sizes of the buffers of each table
    buffer_size,    \* bytes in a chunk
    NumBuffers,     \* values of num_buffers to consider
    MaxBuffers      \* bound on buffer_counter, which only free_all resets

ASSUME PoolAssumption ==
    /\ Ids # {}
    /\ Tables \subseteq Seq(Nat)
    /\ buffer_size \in Nat \ {0}
    /\ MaxBuffers \in Nat
    /\ NumBuffers \subseteq 1 .. MaxBuffers

VARIABLES
    allocator,          \* the class of the allocator; it never changes
    num_buffers,        \* of the constructor; it never changes
    allocations,        \* the vector, as a sequence of ids
    index,              \* blazing_allocation::index
    total,              \* blazing_allocation::total_number_of_chunks
    free,               \* blazing_allocation::allocation_chunks
    data,               \* blazing_allocation::data: live memory, null, gone
    buffer_counter,
    allocation_counter,
    pc,                 \* where each user stands
    hold,               \* the chunks each user owns, in order
    split,              \* the locals of convert_gpu_buffers_to_chunks
    leaked              \* history: chunks destroyed without free_chunk

poolVars == <<allocations, index, total, free, data, buffer_counter,
              allocation_counter>>
config == <<allocator, num_buffers>>
vars == <<config, poolVars, pc, hold, split, leaked>>

Chunks == [allocation : Ids, number : Nat]
ChunksOf(a) == [allocation : {a}, number : 0 .. total[a] - 1]
NoSplit == [sizes |-> <<>>, buffer_index |-> 1, buffer_position |-> 0,
            allocation_position |-> 0, pieces |-> <<>>]

\* host_allocator::do_allocate tests its argument, not what aligned_alloc
\* returned: memory that is not there goes unnoticed.
Allocated == IF allocator = "host" THEN {"live", "null"} ELSE {"live"}

Init ==
    /\ allocator \in {"host", "pinned"}
    /\ num_buffers \in NumBuffers
    /\ \E a \in Ids, d \in Allocated :
       /\ allocations = <<a>>
       /\ index = [x \in Ids |-> 0]
       /\ total = [x \in Ids |-> IF x = a THEN num_buffers ELSE 0]
       /\ free = [x \in Ids |-> IF x = a THEN 0 .. num_buffers - 1 ELSE {}]
       /\ data = [x \in Ids |-> IF x = a THEN d ELSE "gone"]
    /\ buffer_counter = num_buffers
    /\ allocation_counter = 0
    /\ pc = [u \in Users |-> "idle"]
    /\ hold = [u \in Users |-> <<>>]
    /\ split = [u \in Users |-> NoSplit]
    /\ leaked = {}

-----------------------------------------------------------------------------
(* The pool.                                                               *)

\* The size of a growth: half of the first, rounded down, maybe zero.
num_new_buffers ==
    IF buffer_counter = 0 THEN num_buffers ELSE num_buffers \div 2

\* grow: a new allocation of n chunks at the end of the vector, its memory as
\* the allocator left it.
grow(a, n, d) ==
    /\ a \in Ids \ Range(allocations)
    /\ buffer_counter + n <= MaxBuffers
    /\ allocations' = Append(allocations, a)
    /\ index' = [index EXCEPT ![a] = Len(allocations)]
    /\ total' = [total EXCEPT ![a] = n]
    /\ data' = [data EXCEPT ![a] = d]
    /\ buffer_counter' = buffer_counter + n

NoneFree == \A i \in DOMAIN allocations : free[allocations[i]] = {}

\* The chunk is the user's; the next bytes go to its start.
gets(u, c) ==
    /\ hold' = [hold EXCEPT ![u] = Append(@, c)]
    /\ pc' = [pc EXCEPT ![u] = "fill"]
    /\ allocation_counter' = allocation_counter + 1
    /\ UNCHANGED <<config, split, leaked>>

\* Mutant: the chunk stays on the stack it was taken from.
get_free_copies(u) ==
    /\ pc[u] = "get"
    /\ \E i \in DOMAIN allocations : \E n \in free[allocations[i]] :
       /\ \A j \in 1 .. i - 1 : free[allocations[j]] = {}
       /\ gets(u, [allocation |-> allocations[i], number |-> n])
    /\ UNCHANGED <<allocations, free, index, total, data, buffer_counter>>

\* get_chunk, with a chunk of the first allocation that has one.
get_free(u) ==
    /\ pc[u] = "get"
    /\ \E i \in DOMAIN allocations : \E n \in free[allocations[i]] :
       /\ \A j \in 1 .. i - 1 : free[allocations[j]] = {}
       /\ free' = [free EXCEPT ![allocations[i]] = @ \ {n}]
       /\ gets(u, [allocation |-> allocations[i], number |-> n])
    /\ UNCHANGED <<allocations, index, total, data, buffer_counter>>

\* get_chunk, with a chunk of the allocation that it has the pool grow by.
get_grown(u) ==
    /\ pc[u] = "get"
    /\ NoneFree
    /\ \E a \in Ids, d \in Allocated, n \in 0 .. num_new_buffers - 1 :
       /\ grow(a, num_new_buffers, d)
       /\ free' = [free EXCEPT ![a] = (0 .. num_new_buffers - 1) \ {n}]
       /\ gets(u, [allocation |-> a, number |-> n])

\* get_chunk throws, because the growth was of no chunk, or because the
\* allocator threw (cudaMallocHost or ucp_mem_map failed) after the empty
\* allocation was pushed.  The chunks the user has so far are unique_ptrs of
\* its frame: they are destroyed, and free_chunk is not called.
get_throws(u) ==
    /\ pc[u] = "get"
    /\ NoneFree
    /\ \/ num_new_buffers = 0
       \/ allocator = "pinned"
    /\ \E a \in Ids, d \in {"live", "null"} :
       /\ grow(a, 0, d)
       /\ free' = [free EXCEPT ![a] = {}]
    /\ leaked' = leaked \cup Range(hold[u])
    /\ hold' = [hold EXCEPT ![u] = <<>>]
    /\ split' = [split EXCEPT ![u] = NoSplit]
    /\ pc' = [pc EXCEPT ![u] = "idle"]
    /\ UNCHANGED <<config, allocation_counter>>

\* Mutant: every allocation is renumbered, the ones before the erased one too.
Renumbered_all(i) ==
    [a \in Ids |-> IF a \in Range(allocations) THEN index[a] - 1 ELSE index[a]]

\* After an erase at position i: the later allocations are one place lower.
Renumbered(i) ==
    [a \in Ids |-> IF \E j \in DOMAIN allocations : j > i /\ allocations[j] = a
                   THEN index[a] - 1 ELSE index[a]]

\* The test before the erase, f being the free chunks: allocation i is not the
\* first, and all its chunks are free.
Emptied(i, f) ==
    /\ i > 1
    /\ f[allocations[i]] = 0 .. total[allocations[i]] - 1
    /\ data[allocations[i]] # "null"

\* Mutant: the allocations behind an erased one keep their index.
return_chunk_stale(c) ==
    LET i == index[c.allocation] + 1
        f == [free EXCEPT ![c.allocation] = @ \cup {c.number}]
    IN
    /\ i <= Len(allocations)
    /\ free' = f
    /\ allocation_counter' = allocation_counter - 1
    /\ \/ /\ Emptied(i, f)
          /\ data' = [data EXCEPT ![allocations[i]] = "gone"]
          /\ allocations' = RemoveAt(allocations, i)
       \/ /\ ~Emptied(i, f)
          /\ UNCHANGED <<data, allocations>>
    /\ UNCHANGED <<index, total, buffer_counter>>

\* Mutant: an emptied allocation is kept for the next growth.
return_chunk_keeps(c) ==
    /\ index[c.allocation] + 1 <= Len(allocations)
    /\ free' = [free EXCEPT ![c.allocation] = @ \cup {c.number}]
    /\ allocation_counter' = allocation_counter - 1
    /\ UNCHANGED <<data, allocations, index, total, buffer_counter>>

\* Mutant: free_chunk returns when it has erased an allocation.
return_chunk_returns(c) ==
    LET i == index[c.allocation] + 1
        f == [free EXCEPT ![c.allocation] = @ \cup {c.number}]
    IN
    /\ i <= Len(allocations)
    /\ free' = f
    /\ \/ /\ Emptied(i, f)
          /\ data' = [data EXCEPT ![allocations[i]] = "gone"]
          /\ allocations' = RemoveAt(allocations, i)
          /\ index' = Renumbered(i)
          /\ UNCHANGED allocation_counter
       \/ /\ ~Emptied(i, f)
          /\ allocation_counter' = allocation_counter - 1
          /\ UNCHANGED <<data, allocations, index>>
    /\ UNCHANGED <<total, buffer_counter>>

\* free_chunk for chunk c: it goes back to the allocation that it points to,
\* and the allocation at that one's index is given back to the system when it
\* is emptied.
return_chunk(c) ==
    LET i == index[c.allocation] + 1
        f == [free EXCEPT ![c.allocation] = @ \cup {c.number}]
    IN
    /\ i <= Len(allocations)
    /\ free' = f
    /\ allocation_counter' = allocation_counter - 1
    /\ \/ /\ Emptied(i, f)
          /\ data' = [data EXCEPT ![allocations[i]] = "gone"]
          /\ allocations' = RemoveAt(allocations, i)
          /\ index' = Renumbered(i)
       \/ /\ ~Emptied(i, f)
          /\ UNCHANGED <<data, allocations, index>>
    /\ UNCHANGED <<total, buffer_counter>>

\* One turn of the loop of ~BlazingHostTable.
free_chunk(u) ==
    /\ pc[u] \in {"table", "destroy"}
    /\ hold[u] # <<>>
    /\ return_chunk(Head(hold[u]))
    /\ hold' = [hold EXCEPT ![u] = Tail(@)]
    /\ pc' = [pc EXCEPT ![u] = "destroy"]
    /\ UNCHANGED <<config, split, leaked>>

destroyed(u) ==
    /\ pc[u] = "destroy"
    /\ hold[u] = <<>>
    /\ pc' = [pc EXCEPT ![u] = "idle"]
    /\ split' = [split EXCEPT ![u] = NoSplit]
    /\ UNCHANGED <<config, poolVars, hold, leaked>>

\* free_all, called through empty_pools when no table is left.
free_all ==
    /\ \A u \in Users : pc[u] = "idle"
    /\ buffer_counter > 0
    /\ buffer_counter' = 0
    /\ free' = [a \in Ids |-> {}]
    /\ data' = [a \in Ids |-> "gone"]
    /\ allocations' = <<>>
    /\ allocation_counter' = 0
    /\ leaked' = {}
    /\ UNCHANGED <<config, index, total, pc, hold, split>>

-----------------------------------------------------------------------------
(* convert_gpu_buffers_to_chunks, by user u.                               *)

Current(u) == split[u].sizes[split[u].buffer_index]
MoreBuffers(u) == split[u].buffer_index <= Len(split[u].sizes)

convert_begin(u) ==
    /\ pc[u] = "idle"
    /\ \E sizes \in Tables : split' = [split EXCEPT ![u].sizes = sizes]
    /\ pc' = [pc EXCEPT ![u] = "get"]
    /\ UNCHANGED <<config, poolVars, hold, leaked>>

\* The chunk is full and bytes are left: get another one.
next_chunk(u) ==
    /\ pc[u] = "fill"
    /\ MoreBuffers(u)
    /\ split[u].buffer_position < Current(u)
    /\ split[u].allocation_position = buffer_size
    /\ split' = [split EXCEPT ![u].allocation_position = 0]
    /\ pc' = [pc EXCEPT ![u] = "get"]
    /\ UNCHANGED <<config, poolVars, hold, leaked>>

\* Mutant: what is left of the buffer is taken for what fits.
piece_size_rest(u) == Current(u) - split[u].buffer_position

\* The bytes left of the buffer, or those left in the chunk, if fewer.
piece_size(u) ==
    Min({Current(u) - split[u].buffer_position,
         buffer_size - split[u].allocation_position})

next_piece(u) ==
    /\ pc[u] = "fill"
    /\ MoreBuffers(u)
    /\ split[u].buffer_position < Current(u)
    /\ split[u].allocation_position # buffer_size
    /\ split' = [split EXCEPT
           ![u].buffer_position = @ + piece_size(u),
           ![u].allocation_position = @ + piece_size(u),
           ![u].pieces = Append(@, [buffer |-> split[u].buffer_index,
                                    chunk_index |-> Len(hold[u]),
                                    offset |-> split[u].allocation_position,
                                    size |-> piece_size(u)])]
    /\ UNCHANGED <<config, poolVars, pc, hold, leaked>>

next_buffer(u) ==
    /\ pc[u] = "fill"
    /\ MoreBuffers(u)
    /\ split[u].buffer_position >= Current(u)
    /\ split' = [split EXCEPT ![u].buffer_index = @ + 1,
                              ![u].buffer_position = 0]
    /\ UNCHANGED <<config, poolVars, pc, hold, leaked>>

\* The table is copied to its chunks and put in a BlazingHostTable.
convert_end(u) ==
    /\ pc[u] = "fill"
    /\ ~MoreBuffers(u)
    /\ pc' = [pc EXCEPT ![u] = "table"]
    /\ UNCHANGED <<config, poolVars, hold, split, leaked>>

-----------------------------------------------------------------------------
Convert(u) ==
    \/ convert_begin(u) \/ next_chunk(u) \/ next_piece(u) \/ next_buffer(u)
    \/ convert_end(u)

Next ==
    \/ \E u \in Users :
          \/ get_free(u) \/ get_grown(u) \/ get_throws(u)
          \/ free_chunk(u) \/ destroyed(u) \/ Convert(u)
    \/ free_all

Spec == Init /\ [][Next]_vars

-----------------------------------------------------------------------------
(* Properties.                                                             *)

Pieces == [buffer : Nat, chunk_index : Nat, offset : Nat, size : Nat]
Splits == [sizes : Seq(Nat), buffer_index : Nat, buffer_position : Nat,
           allocation_position : Nat, pieces : Seq(Pieces)]

TypeOK ==
    /\ allocator \in {"host", "pinned"}
    /\ num_buffers \in NumBuffers
    /\ allocations \in Seq(Ids)
    /\ index \in [Ids -> Nat]
    /\ total \in [Ids -> Nat]
    /\ free \in [Ids -> SUBSET Nat]
    /\ data \in [Ids -> {"live", "null", "gone"}]
    /\ buffer_counter \in 0 .. MaxBuffers
    /\ allocation_counter \in Nat
    /\ pc \in [Users -> {"idle", "get", "fill", "table", "destroy"}]
    /\ hold \in [Users -> Seq(Chunks)]
    /\ split \in [Users -> Splits]
    /\ leaked \subseteq Chunks

\* No two tables, and not the pool and a table, have the same chunk: what a
\* thread copies into its host table is never overwritten by another's.
ChunkOwnedOnce ==
    \A u \in Users : \A i \in DOMAIN hold[u] :
        /\ hold[u][i].number \notin free[hold[u][i].allocation]
        /\ \A v \in Users : \A j \in DOMAIN hold[v] :
               hold[u][i] = hold[v][j] => u = v /\ i = j

\* The memory of a chunk that a table owns is not given back to the system,
\* and index, by which free_chunk finds the allocation in the vector
\* (BufferProvider.cpp:163), is its position there in spite of the erases.
HeldMemoryStays ==
    \A u \in Users : \A i \in DOMAIN hold[u] :
        LET a == hold[u][i].allocation IN
        /\ index[a] < Len(allocations)
        /\ allocations[index[a] + 1] = a
        /\ data[a] # "gone"
        /\ hold[u][i].number < total[a]

\* The chunks that get_chunk handed out and free_chunk did not get back: those
\* of the users, and those that an exception leaked.
InUse == leaked \cup UNION {Range(hold[u]) : u \in Users}

\* allocation_counter, which get_allocated_buffers reports, counts the chunks
\* that are in use, those that an exception leaked included.
CounterIsInUse == allocation_counter = Cardinality(InUse)

\* Memory that the pool grew by is returned: behind the first allocation there
\* is none whose chunks are all free.
NoIdleAllocation ==
    \A i \in 2 .. Len(allocations) :
        LET a == allocations[i] IN
        data[a] = "live" /\ total[a] > 0 => free[a] # 0 .. total[a] - 1

Overlap(p, q) ==
    /\ p.chunk_index = q.chunk_index
    /\ p.offset < q.offset + q.size
    /\ q.offset < p.offset + p.size

\* The bytes of buffer b that a piece has.
PieceBytes(b) == [p \in Pieces |-> IF p.buffer = b THEN p.size ELSE 0]

\* A table that was split into chunks is all there: the pieces of each buffer
\* add up to its size, none is empty, none leaves its chunk or lies over
\* another, and each is in a chunk the table owns.
SplitIsWhole ==
    \A u \in Users : pc[u] = "table" =>
        LET s == split[u] IN
        /\ \A b \in DOMAIN s.sizes :
               Total(PieceBytes(b), s.pieces) = s.sizes[b]
        /\ \A k \in DOMAIN s.pieces :
               /\ s.pieces[k].size > 0
               /\ s.pieces[k].offset + s.pieces[k].size <= buffer_size
               /\ s.pieces[k].chunk_index \in DOMAIN hold[u]
               /\ \A l \in 1 .. k - 1 : ~Overlap(s.pieces[k], s.pieces[l])
=============================================================================
