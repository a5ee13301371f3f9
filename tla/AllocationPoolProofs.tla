------------------------- MODULE AllocationPoolProofs -------------------------
(***************************************************************************)
(* For any number of threads, allocations, chunks and tables: no chunk of  *)
(* the pool has two owners, the memory of a chunk in use stays, no         *)
(* allocation that the pool grew by lies idle, the counter of chunks is    *)
(* right, and a table that is split into chunks is all there.              *)
(***************************************************************************)
EXTENDS AllocationPool, QueueTheorems, FiniteSetTheorems, TLAPS

\* Vector s has allocation a.
InVector(s, a) == \E j \in DOMAIN s : s[j] = a

PoolTypes ==
    /\ num_buffers \in NumBuffers
    /\ allocations \in Seq(Ids)
    /\ index \in [Ids -> Int]
    /\ total \in [Ids -> Nat]
    /\ free \in [Ids -> SUBSET Nat]
    /\ data \in [Ids -> {"live", "null", "gone"}]

UserTypes ==
    /\ hold \in [Users -> Seq(Chunks)]
    /\ pc \in [Users -> {"idle", "get", "fill", "table", "destroy"}]

\* The vector and the fields of its allocations agree.
VectorInv ==
    \A i \in DOMAIN allocations :
        LET a == allocations[i] IN
        /\ index[a] = i - 1
        /\ data[a] # "gone"
        /\ free[a] \subseteq 0 .. total[a] - 1

\* A chunk in use is one of an allocation in the vector, and it is not free.
HeldInv ==
    \A u \in Users : \A i \in DOMAIN hold[u] :
        /\ InVector(allocations, hold[u][i].allocation)
        /\ hold[u][i].number < total[hold[u][i].allocation]
        /\ hold[u][i].number \notin free[hold[u][i].allocation]

\* No chunk is in use twice.
UniqueInv ==
    \A u \in Users, v \in Users :
        \A i \in DOMAIN hold[u], j \in DOMAIN hold[v] :
            hold[u][i] = hold[v][j] => u = v /\ i = j

\* free_all runs when no thread has a table: then no chunk is in use.
IdleInv == \A u \in Users : pc[u] = "idle" => hold[u] = <<>>

\* The inductive invariant: of the properties, only NoIdleAllocation is a part
\* of it as it stands.
PoolInv ==
    /\ PoolTypes
    /\ UserTypes
    /\ VectorInv
    /\ HeldInv
    /\ UniqueInv
    /\ IdleInv
    /\ NoIdleAllocation
-----------------------------------------------------------------------------
(* Sequences and chunks.                                                   *)

\* What std::vector::erase leaves.
LEMMA RemoveAtElements ==
    ASSUME NEW S, NEW s \in Seq(S), NEW i \in 1 .. Len(s)
    PROVE  /\ RemoveAt(s, i) \in Seq(S)
           /\ DOMAIN RemoveAt(s, i) = 1 .. Len(s) - 1
           /\ Len(RemoveAt(s, i)) = Len(s) - 1
           /\ \A k \in 1 .. Len(s) - 1 :
                 RemoveAt(s, i)[k] = IF k < i THEN s[k] ELSE s[k + 1]
  <1> DEFINE p == SubSeq(s, 1, i - 1)
             q == SubSeq(s, i + 1, Len(s))
  <1>0. Len(s) \in Nat
    OBVIOUS
  <1>1. /\ p \in Seq(S)
        /\ Len(p) = i - 1
        /\ \A k \in 1 .. i - 1 : p[k] = s[k]
    <2>1. \A k \in 1 .. i - 1 : s[k] \in S
      BY <1>0
    <2>2. QED
      BY <1>0, <2>1, SubSeqProperties
  <1>2. /\ q \in Seq(S)
        /\ Len(q) = Len(s) - i
        /\ \A k \in 1 .. Len(s) - i : q[k] = s[i + k]
    <2>1. \A k \in i + 1 .. Len(s) : s[k] \in S
      BY <1>0
    <2>2. QED
      BY <1>0, <2>1, SubSeqProperties
  <1>3. RemoveAt(s, i) = p \o q
    BY DEF RemoveAt
  <1> HIDE DEF p, q
  <1>4. /\ p \o q \in Seq(S)
        /\ Len(p \o q) = Len(s) - 1
        /\ \A k \in 1 .. Len(s) - 1 :
              (p \o q)[k] = IF k <= i - 1 THEN p[k] ELSE q[k - (i - 1)]
    BY <1>0, <1>1, <1>2, ConcatProperties
  <1>5. ASSUME NEW k \in 1 .. Len(s) - 1
        PROVE  (p \o q)[k] = IF k < i THEN s[k] ELSE s[k + 1]
    <2>1. CASE k < i
      BY <1>0, <1>1, <1>4, <2>1
    <2>2. CASE ~(k < i)
      <3>1. k - (i - 1) \in 1 .. Len(s) - i
        BY <1>0, <2>2
      <3>2. q[k - (i - 1)] = s[k + 1]
        BY <1>0, <1>2, <3>1
      <3>3. QED
        BY <1>0, <1>4, <2>2, <3>2
    <2>3. QED
      BY <2>1, <2>2
  <1>6. QED
    BY <1>0, <1>3, <1>4, <1>5

\* The table without its first chunk.
LEMMA TailElements ==
    ASSUME NEW S, NEW s \in Seq(S), s # <<>>
    PROVE  /\ Tail(s) \in Seq(S)
           /\ DOMAIN Tail(s) = 1 .. Len(s) - 1
           /\ \A k \in 1 .. Len(s) - 1 : Tail(s)[k] = s[k + 1]
           /\ Head(s) = s[1]
           /\ DOMAIN s = 1 .. Len(s)
           /\ Len(s) \in Nat \ {0}
BY HeadTailProperties

\* A chunk is known by its allocation and its number.
LEMMA ChunkEqual ==
    ASSUME NEW c \in Chunks, NEW d \in Chunks,
           c.allocation = d.allocation, c.number = d.number
    PROVE  c = d
BY DEF Chunks
-----------------------------------------------------------------------------
(* The pool's side of each step.                                           *)

\* The number of chunks a growth asks for is a number.
LEMMA GrowthIsNat ==
    ASSUME PoolTypes PROVE num_new_buffers \in Nat
BY PoolAssumption DEF PoolTypes, num_new_buffers

\* get_chunk hands out a chunk that was free, or new: no thread has it, and
\* the thread that gets it has it at the end of its table.
LEMMA GetsOwned ==
    ASSUME PoolInv, NEW u \in Users, NEW c \in Chunks, gets(u, c),
           PoolTypes', VectorInv', NoIdleAllocation',
           InVector(allocations', c.allocation),
           c.number < total'[c.allocation],
           c.number \notin free'[c.allocation],
           \A v \in Users : \A i \in DOMAIN hold[v] :
               /\ hold[v][i] # c
               /\ InVector(allocations', hold[v][i].allocation)
               /\ hold[v][i].number < total'[hold[v][i].allocation]
               /\ hold[v][i].number \notin free'[hold[v][i].allocation]
    PROVE  PoolInv'
  <1> DEFINE n == Len(hold[u]) + 1
  <1>1. /\ hold \in [Users -> Seq(Chunks)]
        /\ pc \in [Users -> {"idle", "get", "fill", "table", "destroy"}]
    BY DEF PoolInv, UserTypes
  <1>2. /\ hold' = [hold EXCEPT ![u] = Append(hold[u], c)]
        /\ pc' = [pc EXCEPT ![u] = "fill"]
    BY DEF gets
  <1>3. /\ hold'[u] \in Seq(Chunks)
        /\ DOMAIN hold'[u] = 1 .. n
        /\ \A i \in 1 .. n - 1 : hold'[u][i] = hold[u][i]
        /\ hold'[u][n] = c
        /\ DOMAIN hold[u] = 1 .. n - 1
        /\ n \in Nat \ {0}
        /\ hold'[u] # <<>>
    BY <1>1, <1>2, AppendProperties
  <1>4. \A v \in Users : v # u => hold'[v] = hold[v]
    BY <1>1, <1>2
  <1>5. UserTypes'
    BY <1>1, <1>2, <1>3 DEF UserTypes
  <1>6. ASSUME NEW v \in Users, NEW i \in DOMAIN hold'[v]
        PROVE  \/ i \in DOMAIN hold[v] /\ hold'[v][i] = hold[v][i]
               \/ v = u /\ i = n /\ hold'[v][i] = c
    BY <1>3, <1>4
  <1> HIDE DEF n
  <1>7. HeldInv'
    <2> SUFFICES ASSUME NEW v \in Users, NEW i \in DOMAIN hold'[v]
                 PROVE  /\ InVector(allocations', hold'[v][i].allocation)
                        /\ hold'[v][i].number < total'[hold'[v][i].allocation]
                        /\ hold'[v][i].number
                             \notin free'[hold'[v][i].allocation]
      BY DEF HeldInv
    <2>1. QED
      BY <1>6
  <1>8. UniqueInv'
    <2> SUFFICES ASSUME NEW v \in Users, NEW w \in Users,
                        NEW i \in DOMAIN hold'[v], NEW j \in DOMAIN hold'[w],
                        hold'[v][i] = hold'[w][j]
                 PROVE  v = w /\ i = j
      BY DEF UniqueInv
    <2>1. UniqueInv
      BY DEF PoolInv
    <2>2. QED
      BY <1>6, <2>1 DEF UniqueInv
  <1>9. IdleInv'
    BY <1>1, <1>2, <1>4 DEF IdleInv, PoolInv
  <1>10. QED
    BY <1>5, <1>7, <1>8, <1>9 DEF PoolInv

\* The facts about chunks in use that the steps below need.
LEMMA HeldFacts ==
    ASSUME PoolInv, NEW v \in Users, NEW i \in DOMAIN hold[v]
    PROVE  /\ hold[v][i] \in Chunks
           /\ hold[v][i].allocation \in Ids
           /\ hold[v][i].number \in Nat
           /\ InVector(allocations, hold[v][i].allocation)
           /\ hold[v][i].number < total[hold[v][i].allocation]
           /\ hold[v][i].number \notin free[hold[v][i].allocation]
  <1>1. hold[v] \in Seq(Chunks)
    BY DEF PoolInv, UserTypes
  <1>2. hold[v][i] \in Chunks
    BY <1>1
  <1>3. QED
    BY <1>2 DEF PoolInv, HeldInv, Chunks

\* get_chunk with a free chunk.
LEMMA GetFreeStep ==
    ASSUME PoolInv, NEW u \in Users, get_free(u)
    PROVE  PoolInv'
  <1>0. /\ allocations \in Seq(Ids)
        /\ index \in [Ids -> Int]
        /\ total \in [Ids -> Nat]
        /\ free \in [Ids -> SUBSET Nat]
        /\ data \in [Ids -> {"live", "null", "gone"}]
        /\ num_buffers \in NumBuffers
    BY DEF PoolInv, PoolTypes
  <1>1. PICK i \in DOMAIN allocations : \E n \in free[allocations[i]] :
            /\ free' = [free EXCEPT ![allocations[i]] = @ \ {n}]
            /\ gets(u, [allocation |-> allocations[i], number |-> n])
    BY DEF get_free
  <1>2. PICK n \in free[allocations[i]] :
            /\ free' = [free EXCEPT ![allocations[i]] = @ \ {n}]
            /\ gets(u, [allocation |-> allocations[i], number |-> n])
    BY <1>1
  <1> DEFINE a == allocations[i]
             c == [allocation |-> a, number |-> n]
  <1>3. a \in Ids /\ n \in Nat /\ n \in free[a]
    BY <1>0
  <1>4. /\ allocations' = allocations /\ index' = index /\ total' = total
        /\ data' = data /\ num_buffers' = num_buffers
    BY <1>2 DEF get_free, gets, config
  <1>5. /\ free' \in [Ids -> SUBSET Nat]
        /\ free'[a] = free[a] \ {n}
        /\ \A x \in Ids : free'[x] \subseteq free[x]
        /\ \A x \in Ids : x # a => free'[x] = free[x]
    BY <1>0, <1>2, <1>3
  <1>6. c \in Chunks /\ c.allocation = a /\ c.number = n
    BY <1>3 DEF Chunks
  <1>7. /\ index[a] = i - 1
        /\ free[a] \subseteq 0 .. total[a] - 1
    BY DEF PoolInv, VectorInv
  <1> HIDE DEF a, c
  <1>9. PoolTypes'
    BY <1>0, <1>4, <1>5 DEF PoolTypes
  <1>10. VectorInv'
    <2>1. \A k \in DOMAIN allocations : allocations[k] \in Ids
      BY <1>0
    <2>2. QED
      BY <1>4, <1>5, <2>1 DEF VectorInv, PoolInv
  <1>11. NoIdleAllocation'
    <2> SUFFICES ASSUME NEW k \in 2 .. Len(allocations),
                        data[allocations[k]] = "live",
                        total[allocations[k]] > 0
                 PROVE  free'[allocations[k]]
                          # 0 .. total[allocations[k]] - 1
      BY <1>4 DEF NoIdleAllocation
    <2>1. allocations[k] \in Ids
      BY <1>0
    <2>2. CASE allocations[k] = a
      <3>1. n \in 0 .. total[a] - 1 /\ n \notin free'[a]
        BY <1>3, <1>5, <1>7
      <3>2. QED
        BY <2>2, <3>1
    <2>3. CASE allocations[k] # a
      BY <1>5, <2>1, <2>3 DEF NoIdleAllocation, PoolInv
    <2>4. QED
      BY <2>2, <2>3
  <1>12. InVector(allocations', c.allocation)
    BY <1>4, <1>6 DEF InVector, a
  <1>13. /\ c.number < total'[c.allocation]
         /\ c.number \notin free'[c.allocation]
    BY <1>0, <1>3, <1>4, <1>5, <1>6, <1>7
  <1>14. ASSUME NEW v \in Users, NEW k \in DOMAIN hold[v]
         PROVE  /\ hold[v][k] # c
                /\ InVector(allocations', hold[v][k].allocation)
                /\ hold[v][k].number < total'[hold[v][k].allocation]
                /\ hold[v][k].number \notin free'[hold[v][k].allocation]
    BY <1>3, <1>4, <1>5, <1>6, HeldFacts
  <1>15. gets(u, c)
    BY <1>2 DEF a, c
  <1>16. QED
    BY <1>6, <1>9, <1>10, <1>11, <1>12, <1>13, <1>14, <1>15, GetsOwned

\* grow puts a new allocation behind the others and leaves those alone: what is
\* true of the chunks in use stays true.
LEMMA GrowStep ==
    ASSUME PoolInv, num_buffers' = num_buffers,
           NEW a \in Ids, NEW n \in Nat, NEW d \in {"live", "null"},
           grow(a, n, d),
           NEW f \in SUBSET (0 .. n - 1), f = 0 .. n - 1 => n = 0,
           free' = [free EXCEPT ![a] = f]
    PROVE  /\ PoolTypes' /\ VectorInv' /\ NoIdleAllocation'
           /\ InVector(allocations', a)
           /\ total'[a] = n /\ free'[a] = f
           /\ \A v \in Users : \A i \in DOMAIN hold[v] :
                 /\ hold[v][i].allocation # a
                 /\ InVector(allocations', hold[v][i].allocation)
                 /\ hold[v][i].number < total'[hold[v][i].allocation]
                 /\ hold[v][i].number \notin free'[hold[v][i].allocation]
  <1> DEFINE m == Len(allocations)
  <1>1. /\ allocations \in Seq(Ids)
        /\ index \in [Ids -> Int]
        /\ total \in [Ids -> Nat]
        /\ free \in [Ids -> SUBSET Nat]
        /\ data \in [Ids -> {"live", "null", "gone"}]
        /\ num_buffers \in NumBuffers
        /\ VectorInv
        /\ NoIdleAllocation
    BY DEF PoolInv, PoolTypes
  <1>2. /\ allocations' = Append(allocations, a)
        /\ index' = [index EXCEPT ![a] = m]
        /\ total' = [total EXCEPT ![a] = n]
        /\ data' = [data EXCEPT ![a] = d]
        /\ a \notin Range(allocations)
    BY DEF grow
  <1>3. /\ m \in Nat
        /\ DOMAIN allocations = 1 .. m
        /\ allocations' \in Seq(Ids)
        /\ Len(allocations') = m + 1
        /\ DOMAIN allocations' = 1 .. m + 1
        /\ \A k \in 1 .. m : allocations'[k] = allocations[k]
        /\ allocations'[m + 1] = a
    BY <1>1, <1>2, AppendProperties
  <1>4. ASSUME NEW k \in 1 .. m
        PROVE  allocations[k] \in Ids /\ allocations[k] # a
    <2>1. k \in DOMAIN allocations
      BY <1>3
    <2>2. allocations[k] \in Range(allocations)
      BY <2>1, Zenon DEF Range
    <2>3. QED
      BY <1>1, <1>2, <2>1, <2>2
  <1>5. /\ index'[a] = m /\ total'[a] = n /\ data'[a] = d /\ free'[a] = f
        /\ \A x \in Ids : x # a =>
              /\ index'[x] = index[x] /\ total'[x] = total[x]
              /\ data'[x] = data[x] /\ free'[x] = free[x]
    BY <1>1, <1>2
  <1>6. PoolTypes'
    <2>1. f \in SUBSET Nat
      OBVIOUS
    <2>2. QED
      BY <1>1, <1>2, <1>3, <2>1 DEF PoolTypes
  <1> HIDE DEF m
  <1>7. VectorInv'
    <2> SUFFICES ASSUME NEW k \in 1 .. m + 1
                 PROVE  /\ index'[allocations'[k]] = k - 1
                        /\ data'[allocations'[k]] # "gone"
                        /\ free'[allocations'[k]]
                             \subseteq 0 .. total'[allocations'[k]] - 1
      BY <1>3 DEF VectorInv
    <2>1. CASE k \in 1 .. m
      <3>1. /\ index[allocations[k]] = k - 1
            /\ data[allocations[k]] # "gone"
            /\ free[allocations[k]] \subseteq 0 .. total[allocations[k]] - 1
        BY <1>1, <1>3, <2>1 DEF VectorInv
      <3>2. allocations'[k] = allocations[k]
        BY <1>3, <2>1
      <3>3. QED
        BY <1>4, <1>5, <2>1, <3>1, <3>2
    <2>2. CASE k = m + 1
      <3>1. allocations'[k] = a /\ k - 1 = m
        BY <1>3, <2>2
      <3>2. QED
        BY <1>5, <3>1
    <2>3. QED
      BY <1>3, <2>1, <2>2
  <1>8. NoIdleAllocation'
    <2> SUFFICES ASSUME NEW k \in 2 .. m + 1,
                        data'[allocations'[k]] = "live",
                        total'[allocations'[k]] > 0
                 PROVE  free'[allocations'[k]]
                          # 0 .. total'[allocations'[k]] - 1
      BY <1>3 DEF NoIdleAllocation
    <2>1. CASE k \in 1 .. m
      <3>1. k \in 2 .. Len(allocations)
        BY <1>3, <2>1 DEF m
      <3>2. allocations'[k] = allocations[k]
        BY <1>3, <2>1
      <3>3. data[allocations[k]] = "live" /\ total[allocations[k]] > 0 =>
                free[allocations[k]] # 0 .. total[allocations[k]] - 1
        BY <1>1, <3>1 DEF NoIdleAllocation
      <3>4. QED
        BY <1>4, <1>5, <2>1, <3>2, <3>3
    <2>2. CASE k = m + 1
      <3>1. allocations'[k] = a
        BY <1>3, <2>2
      <3>2. QED
        BY <1>5, <3>1
    <2>3. QED
      BY <1>3, <2>1, <2>2
  <1>9. InVector(allocations', a)
    BY <1>3 DEF InVector
  <1>10. ASSUME NEW v \in Users, NEW i \in DOMAIN hold[v]
         PROVE  /\ hold[v][i].allocation # a
                /\ InVector(allocations', hold[v][i].allocation)
                /\ hold[v][i].number < total'[hold[v][i].allocation]
                /\ hold[v][i].number \notin free'[hold[v][i].allocation]
    <2>1. PICK k \in 1 .. m : allocations[k] = hold[v][i].allocation
      BY <1>3, HeldFacts DEF InVector
    <2>2. hold[v][i].allocation # a
      BY <1>4, <2>1
    <2>3. InVector(allocations', hold[v][i].allocation)
      BY <1>3, <2>1 DEF InVector
    <2>4. QED
      BY <1>5, <2>2, <2>3, HeldFacts
  <1>11. QED
    BY <1>5, <1>6, <1>7, <1>8, <1>9, <1>10

\* get_chunk with a chunk of a new allocation.
LEMMA GetGrownStep ==
    ASSUME PoolInv, NEW u \in Users, get_grown(u)
    PROVE  PoolInv'
  <1> DEFINE g == num_new_buffers
  <1>1. g \in Nat
    BY GrowthIsNat DEF PoolInv
  <1>2. PICK a \in Ids, d \in Allocated, n \in 0 .. g - 1 :
            /\ grow(a, g, d)
            /\ free' = [free EXCEPT ![a] = (0 .. g - 1) \ {n}]
            /\ gets(u, [allocation |-> a, number |-> n])
    BY DEF get_grown
  <1> DEFINE c == [allocation |-> a, number |-> n]
             f == (0 .. g - 1) \ {n}
  <1>3. num_buffers' = num_buffers
    BY <1>2 DEF gets, config
  <1>4. d \in {"live", "null"}
    BY DEF Allocated
  <1> HIDE DEF g
  <1>5. f \in SUBSET (0 .. g - 1) /\ f # 0 .. g - 1
    OBVIOUS
  <1>6. c \in Chunks /\ c.allocation = a /\ c.number = n
    BY <1>1 DEF Chunks
  <1>7. gets(u, c) /\ free' = [free EXCEPT ![a] = f]
    BY <1>2
  <1>8. n < g /\ n \notin f
    BY <1>1
  <1> HIDE DEF c, f
  <1>9. /\ PoolTypes' /\ VectorInv' /\ NoIdleAllocation'
        /\ InVector(allocations', a)
        /\ total'[a] = g /\ free'[a] = f
        /\ \A v \in Users : \A i \in DOMAIN hold[v] :
              /\ hold[v][i].allocation # a
              /\ InVector(allocations', hold[v][i].allocation)
              /\ hold[v][i].number < total'[hold[v][i].allocation]
              /\ hold[v][i].number \notin free'[hold[v][i].allocation]
    BY <1>1, <1>2, <1>3, <1>4, <1>5, <1>7, GrowStep
  <1>10. \A v \in Users : \A i \in DOMAIN hold[v] : hold[v][i] # c
    BY <1>6, <1>9
  <1>11. /\ InVector(allocations', c.allocation)
         /\ c.number < total'[c.allocation]
         /\ c.number \notin free'[c.allocation]
    BY <1>6, <1>8, <1>9
  <1>12. QED
    BY <1>6, <1>7, <1>9, <1>10, <1>11, GetsOwned

\* get_chunk throws: the thread loses its chunks, the pool has an allocation
\* without chunks.
LEMMA GetThrowsStep ==
    ASSUME PoolInv, NEW u \in Users, get_throws(u)
    PROVE  PoolInv'
  <1>1. PICK a \in Ids, d \in {"live", "null"} :
            grow(a, 0, d) /\ free' = [free EXCEPT ![a] = {}]
    BY DEF get_throws
  <1>2. /\ hold' = [hold EXCEPT ![u] = <<>>]
        /\ pc' = [pc EXCEPT ![u] = "idle"]
        /\ num_buffers' = num_buffers
    BY DEF get_throws, config
  <1>3. /\ hold \in [Users -> Seq(Chunks)]
        /\ pc \in [Users -> {"idle", "get", "fill", "table", "destroy"}]
    BY DEF PoolInv, UserTypes
  <1>4. /\ PoolTypes' /\ VectorInv' /\ NoIdleAllocation'
        /\ \A v \in Users : \A i \in DOMAIN hold[v] :
              /\ InVector(allocations', hold[v][i].allocation)
              /\ hold[v][i].number < total'[hold[v][i].allocation]
              /\ hold[v][i].number \notin free'[hold[v][i].allocation]
    <2>1. {} \in SUBSET (0 .. 0 - 1) /\ 0 \in Nat
      OBVIOUS
    <2>2. QED
      BY <1>1, <1>2, <2>1, GrowStep
  <1>5. UserTypes'
    BY <1>2, <1>3 DEF UserTypes
  <1>6. ASSUME NEW v \in Users, NEW i \in DOMAIN hold'[v]
        PROVE  v # u /\ hold'[v] = hold[v] /\ i \in DOMAIN hold[v]
    BY <1>2, <1>3
  <1>7. HeldInv'
    BY <1>4, <1>6 DEF HeldInv
  <1>8. UniqueInv'
    BY <1>6 DEF UniqueInv, PoolInv
  <1>9. IdleInv'
    BY <1>2, <1>3 DEF IdleInv, PoolInv
  <1>10. QED
    BY <1>4, <1>5, <1>7, <1>8, <1>9 DEF PoolInv

\* A chunk in use is found through the index of its allocation.
LEMMA HeldPosition ==
    ASSUME PoolInv, NEW v \in Users, NEW i \in DOMAIN hold[v],
           NEW a, a = hold[v][i].allocation
    PROVE  /\ a \in Ids
           /\ index[a] + 1 \in DOMAIN allocations
           /\ allocations[index[a] + 1] = a
           /\ data[a] # "gone"
           /\ free[a] \subseteq 0 .. total[a] - 1
  <1>1. PICK k \in DOMAIN allocations : allocations[k] = a
    BY HeldFacts DEF InVector
  <1>2. /\ index[a] = k - 1
        /\ data[a] # "gone"
        /\ free[a] \subseteq 0 .. total[a] - 1
    BY <1>1 DEF PoolInv, VectorInv
  <1>3. k \in Nat
    BY DEF PoolInv, PoolTypes
  <1>4. index[a] + 1 = k
    BY <1>2, <1>3
  <1>5. QED
    BY <1>1, <1>2, <1>4, HeldFacts

\* The thread gives up its first chunk and keeps the others: they are still
\* owned once if the pool's side of the step leaves them alone.
LEMMA TailOwned ==
    ASSUME PoolInv, NEW u \in Users, hold[u] # <<>>,
           hold' = [hold EXCEPT ![u] = Tail(@)],
           pc' = [pc EXCEPT ![u] = "destroy"],
           PoolTypes', VectorInv', NoIdleAllocation',
           \A v \in Users : \A i \in DOMAIN hold[v] :
               hold[v][i] # hold[u][1] =>
                  /\ InVector(allocations', hold[v][i].allocation)
                  /\ hold[v][i].number < total'[hold[v][i].allocation]
                  /\ hold[v][i].number \notin free'[hold[v][i].allocation]
    PROVE  PoolInv'
  <1>1. /\ hold \in [Users -> Seq(Chunks)]
        /\ pc \in [Users -> {"idle", "get", "fill", "table", "destroy"}]
        /\ UniqueInv
        /\ IdleInv
    BY DEF PoolInv, UserTypes
  <1> DEFINE n == Len(hold[u])
  <1>2. /\ Tail(hold[u]) \in Seq(Chunks)
        /\ DOMAIN Tail(hold[u]) = 1 .. n - 1
        /\ \A k \in 1 .. n - 1 : Tail(hold[u])[k] = hold[u][k + 1]
        /\ DOMAIN hold[u] = 1 .. n
        /\ n \in Nat \ {0}
    BY <1>1, TailElements
  <1>3. /\ hold'[u] = Tail(hold[u])
        /\ \A v \in Users : v # u => hold'[v] = hold[v]
    BY <1>1
  <1> HIDE DEF n
  <1>4. UserTypes'
    BY <1>1, <1>2 DEF UserTypes
  <1> DEFINE old(v, i) == IF v = u THEN i + 1 ELSE i
  <1>5. ASSUME NEW v \in Users, NEW i \in DOMAIN hold'[v]
        PROVE  /\ old(v, i) \in DOMAIN hold[v]
               /\ hold'[v][i] = hold[v][old(v, i)]
               /\ hold[v][old(v, i)] # hold[u][1]
    <2>1. CASE v = u
      <3>0. i \in 1 .. n - 1
        BY <1>2, <1>3, <2>1
      <3>1. i + 1 \in 1 .. n /\ i + 1 # 1 /\ 1 \in 1 .. n
        BY <1>2, <3>0
      <3>2. hold'[u][i] = hold[u][i + 1]
        BY <1>2, <1>3, <3>0
      <3>3. hold[u][i + 1] # hold[u][1]
        <4>1. \A k \in DOMAIN hold[u], l \in DOMAIN hold[u] :
                  hold[u][k] = hold[u][l] => k = l
          BY <1>1 DEF UniqueInv
        <4>2. i + 1 \in DOMAIN hold[u] /\ 1 \in DOMAIN hold[u]
          BY <1>2, <3>1
        <4>3. QED
          BY <3>1, <4>1, <4>2
      <3>4. QED
        BY <1>2, <2>1, <3>1, <3>2, <3>3
    <2>2. CASE v # u
      <3>1. hold'[v] = hold[v] /\ 1 \in DOMAIN hold[u]
        BY <1>2, <1>3, <2>2
      <3>2. hold[v][i] # hold[u][1]
        BY <1>1, <2>2, <3>1 DEF UniqueInv
      <3>3. QED
        BY <2>2, <3>1, <3>2
    <2>3. QED
      BY <2>1, <2>2
  <1>6. HeldInv'
    <2> SUFFICES ASSUME NEW v \in Users, NEW i \in DOMAIN hold'[v]
                 PROVE  /\ InVector(allocations', hold'[v][i].allocation)
                        /\ hold'[v][i].number < total'[hold'[v][i].allocation]
                        /\ hold'[v][i].number
                             \notin free'[hold'[v][i].allocation]
      BY DEF HeldInv
    <2> HIDE DEF old
    <2>1. QED
      BY <1>5
  <1>7. UniqueInv'
    <2> SUFFICES ASSUME NEW v \in Users, NEW w \in Users,
                        NEW i \in DOMAIN hold'[v], NEW j \in DOMAIN hold'[w],
                        hold'[v][i] = hold'[w][j]
                 PROVE  v = w /\ i = j
      BY DEF UniqueInv
    <2>1. v = w /\ old(v, i) = old(w, j)
      <3> HIDE DEF old
      <3>1. QED
        BY <1>1, <1>5 DEF UniqueInv
    <2>2. i \in Nat /\ j \in Nat
      <3>1. hold'[v] \in Seq(Chunks) /\ hold'[w] \in Seq(Chunks)
        BY <1>4 DEF UserTypes
      <3>2. QED
        BY <3>1
    <2>3. QED
      BY <2>1, <2>2
  <1>8. IdleInv'
    BY <1>1, <1>3 DEF IdleInv
  <1>9. QED
    BY <1>4, <1>6, <1>7, <1>8 DEF PoolInv

\* An allocation has one place in the vector.
LEMMA OnePlace ==
    ASSUME PoolInv, NEW k \in DOMAIN allocations, NEW l \in DOMAIN allocations,
           allocations[k] = allocations[l]
    PROVE  k = l
  <1>1. index[allocations[k]] = k - 1 /\ index[allocations[l]] = l - 1
    BY DEF PoolInv, VectorInv
  <1>2. k \in Nat /\ l \in Nat
    BY DEF PoolInv, PoolTypes
  <1>3. QED
    BY <1>1, <1>2

\* The two outcomes of free_chunk for chunk c of allocation a at place i.
Returns(c, a, i) ==
    /\ a = c.allocation
    /\ i = index[a] + 1
    /\ free' = [free EXCEPT ![a] = @ \cup {c.number}]
    /\ total' = total
    /\ num_buffers' = num_buffers

Keeps(i) ==
    /\ ~Emptied(i, free')
    /\ UNCHANGED <<allocations, index, data>>

Erases(i) ==
    /\ Emptied(i, free')
    /\ data' = [data EXCEPT ![allocations[i]] = "gone"]
    /\ allocations' = RemoveAt(allocations, i)
    /\ index' = Renumbered(i)

\* A chunk goes back and its allocation stays in the vector.
LEMMA ReturnKeeps ==
    ASSUME PoolInv, NEW u \in Users, 1 \in DOMAIN hold[u],
           NEW a, NEW i, Returns(hold[u][1], a, i), Keeps(i)
    PROVE  /\ PoolTypes' /\ VectorInv' /\ NoIdleAllocation'
           /\ \A v \in Users : \A k \in DOMAIN hold[v] :
                 hold[v][k] # hold[u][1] =>
                    /\ InVector(allocations', hold[v][k].allocation)
                    /\ hold[v][k].number < total'[hold[v][k].allocation]
                    /\ hold[v][k].number \notin free'[hold[v][k].allocation]
  <1> DEFINE n == hold[u][1].number
  <1>1. /\ allocations \in Seq(Ids)
        /\ index \in [Ids -> Int]
        /\ total \in [Ids -> Nat]
        /\ free \in [Ids -> SUBSET Nat]
        /\ data \in [Ids -> {"live", "null", "gone"}]
        /\ num_buffers \in NumBuffers
        /\ VectorInv
        /\ NoIdleAllocation
    BY DEF PoolInv, PoolTypes
  <1>0. /\ a = hold[u][1].allocation
        /\ i = index[a] + 1
        /\ allocations' = allocations /\ index' = index
        /\ total' = total /\ data' = data /\ num_buffers' = num_buffers
    BY DEF Returns, Keeps
  <1>2. /\ a \in Ids
        /\ i \in DOMAIN allocations
        /\ allocations[i] = a
        /\ free[a] \subseteq 0 .. total[a] - 1
    BY <1>0, HeldPosition
  <1>3. n \in Nat /\ n < total[a]
    BY <1>0, HeldFacts
  <1>4. /\ free' \in [Ids -> SUBSET Nat]
        /\ free'[a] = free[a] \cup {n}
        /\ \A x \in Ids : x # a => free'[x] = free[x]
    BY <1>1, <1>2, <1>3 DEF Returns
  <1>5. free'[a] \subseteq 0 .. total[a] - 1
    BY <1>1, <1>2, <1>3, <1>4
  <1>6. PoolTypes'
    BY <1>0, <1>1, <1>4 DEF PoolTypes
  <1>7. VectorInv'
    <2> SUFFICES ASSUME NEW k \in DOMAIN allocations
                 PROVE  /\ index[allocations[k]] = k - 1
                        /\ data[allocations[k]] # "gone"
                        /\ free'[allocations[k]]
                             \subseteq 0 .. total[allocations[k]] - 1
      BY <1>0 DEF VectorInv
    <2>1. allocations[k] \in Ids
      BY <1>1
    <2>2. QED
      BY <1>1, <1>4, <1>5, <2>1 DEF VectorInv
  <1>8. NoIdleAllocation'
    <2> SUFFICES ASSUME NEW k \in 2 .. Len(allocations),
                        data[allocations[k]] = "live",
                        total[allocations[k]] > 0
                 PROVE  free'[allocations[k]]
                          # 0 .. total[allocations[k]] - 1
      BY <1>0 DEF NoIdleAllocation
    <2>1. allocations[k] \in Ids /\ k \in DOMAIN allocations
      BY <1>1
    <2>2. CASE allocations[k] = a
      <3>1. k = i
        BY <1>2, <2>1, <2>2, OnePlace
      <3>2. i > 1 /\ data[a] # "null"
        BY <2>2, <3>1
      <3>3. QED
        BY <1>2, <2>2, <3>1, <3>2 DEF Keeps, Emptied
    <2>3. CASE allocations[k] # a
      BY <1>1, <1>4, <2>1, <2>3 DEF NoIdleAllocation
    <2>4. QED
      BY <2>2, <2>3
  <1>9. ASSUME NEW v \in Users, NEW k \in DOMAIN hold[v],
               hold[v][k] # hold[u][1]
        PROVE  /\ InVector(allocations', hold[v][k].allocation)
               /\ hold[v][k].number < total'[hold[v][k].allocation]
               /\ hold[v][k].number \notin free'[hold[v][k].allocation]
    <2>1. /\ hold[v][k] \in Chunks
          /\ hold[v][k].allocation \in Ids
          /\ InVector(allocations, hold[v][k].allocation)
          /\ hold[v][k].number < total[hold[v][k].allocation]
          /\ hold[v][k].number \notin free[hold[v][k].allocation]
      BY HeldFacts
    <2>2. hold[v][k].allocation = a => hold[v][k].number # n
      BY <1>0, <1>9, <2>1, HeldFacts, ChunkEqual
    <2>3. QED
      BY <1>0, <1>4, <2>1, <2>2
  <1> HIDE DEF n
  <1>10. QED
    BY <1>6, <1>7, <1>8, <1>9

\* A chunk goes back and its allocation, now all free, is erased: no other
\* chunk of it is in use, and the allocations behind it move down one place.
LEMMA ReturnErases ==
    ASSUME PoolInv, NEW u \in Users, 1 \in DOMAIN hold[u],
           NEW a, NEW i, Returns(hold[u][1], a, i), Erases(i)
    PROVE  /\ PoolTypes' /\ VectorInv' /\ NoIdleAllocation'
           /\ \A v \in Users : \A k \in DOMAIN hold[v] :
                 hold[v][k] # hold[u][1] =>
                    /\ InVector(allocations', hold[v][k].allocation)
                    /\ hold[v][k].number < total'[hold[v][k].allocation]
                    /\ hold[v][k].number \notin free'[hold[v][k].allocation]
  <1> DEFINE n == hold[u][1].number
             m == Len(allocations)
             old(k) == IF k < i THEN k ELSE k + 1
  <1>1. /\ allocations \in Seq(Ids)
        /\ index \in [Ids -> Int]
        /\ total \in [Ids -> Nat]
        /\ free \in [Ids -> SUBSET Nat]
        /\ data \in [Ids -> {"live", "null", "gone"}]
        /\ num_buffers \in NumBuffers
        /\ VectorInv
        /\ NoIdleAllocation
    BY DEF PoolInv, PoolTypes
  <1>0. /\ a = hold[u][1].allocation
        /\ i = index[a] + 1
        /\ allocations' = RemoveAt(allocations, i)
        /\ index' = Renumbered(i)
        /\ total' = total /\ num_buffers' = num_buffers
    BY DEF Returns, Erases
  <1>2. /\ a \in Ids
        /\ i \in 1 .. m
        /\ m \in Nat
        /\ DOMAIN allocations = 1 .. m
        /\ allocations[i] = a
    BY <1>0, <1>1, HeldPosition
  <1>3. n \in Nat /\ n < total[a]
    BY <1>0, HeldFacts
  <1>4. /\ free' \in [Ids -> SUBSET Nat]
        /\ free'[a] = free[a] \cup {n}
        /\ \A x \in Ids : x # a => free'[x] = free[x] /\ data'[x] = data[x]
        /\ free'[a] = 0 .. total[a] - 1
    <2>1. /\ free' = [free EXCEPT ![a] = free[a] \cup {n}]
          /\ data' = [data EXCEPT ![a] = "gone"]
          /\ free'[a] = 0 .. total[a] - 1
      BY <1>2 DEF Returns, Erases, Emptied
    <2> HIDE DEF n, m
    <2>2. QED
      BY <1>1, <1>2, <1>3, <2>1
  <1>5. /\ allocations' \in Seq(Ids)
        /\ DOMAIN allocations' = 1 .. m - 1
        /\ Len(allocations') = m - 1
        /\ \A k \in 1 .. m - 1 : allocations'[k] = allocations[old(k)]
    BY <1>0, <1>1, <1>2, RemoveAtElements, Zenon
  <1>6. ASSUME NEW k \in 1 .. m - 1
        PROVE  /\ old(k) \in 1 .. m /\ old(k) # i
               /\ allocations[old(k)] \in Ids
               /\ allocations[old(k)] # a
    <2>1. old(k) \in 1 .. m /\ old(k) # i
      BY <1>2
    <2> HIDE DEF old
    <2>2. QED
      BY <1>1, <1>2, <2>1, OnePlace
  <1>7. ASSUME NEW k \in 1 .. m - 1
        PROVE  index'[allocations'[k]] = k - 1
    <2>1. index[allocations[old(k)]] = old(k) - 1
      <3>1. old(k) \in DOMAIN allocations
        BY <1>2, <1>6
      <3> HIDE DEF old
      <3>2. QED
        BY <1>1, <3>1 DEF VectorInv
    <2>2. (\E j \in DOMAIN allocations :
              j > i /\ allocations[j] = allocations[old(k)]) <=> old(k) > i
      BY <1>2, <1>6, OnePlace
    <2>3. index'[allocations[old(k)]] =
              IF old(k) > i THEN old(k) - 2 ELSE old(k) - 1
      <3>1. index'[allocations[old(k)]] =
                IF \E j \in DOMAIN allocations :
                       j > i /\ allocations[j] = allocations[old(k)]
                THEN index[allocations[old(k)]] - 1
                ELSE index[allocations[old(k)]]
        BY <1>0, <1>6 DEF Renumbered
      <3>2. old(k) \in Nat
        BY <1>2, <1>6
      <3> HIDE DEF old
      <3>3. QED
        BY <2>1, <2>2, <3>1, <3>2, SMTT(30)
    <2>4. allocations'[k] = allocations[old(k)]
      BY <1>5
    <2>5. k \in Nat /\ i \in Nat
      <3> HIDE DEF m, old
      <3>1. QED
        BY <1>2
    <2>6. k - 1 = IF old(k) > i THEN old(k) - 2 ELSE old(k) - 1
      BY <2>5, SMTT(30)
    <2> HIDE DEF old
    <2>7. QED
      BY <2>3, <2>4, <2>6
  <1>8. PoolTypes'
    <2>1. index' \in [Ids -> Int]
      BY <1>0, <1>1 DEF Renumbered
    <2>2. data' \in [Ids -> {"live", "null", "gone"}]
      BY <1>1 DEF Erases
    <2>3. QED
      BY <1>0, <1>1, <1>4, <1>5, <2>1, <2>2 DEF PoolTypes
  <1> HIDE DEF old, m, n
  <1>9. VectorInv'
    <2> SUFFICES ASSUME NEW k \in 1 .. m - 1
                 PROVE  /\ index'[allocations'[k]] = k - 1
                        /\ data'[allocations'[k]] # "gone"
                        /\ free'[allocations'[k]]
                             \subseteq 0 .. total'[allocations'[k]] - 1
      BY <1>5 DEF VectorInv
    <2>1. /\ data[allocations[old(k)]] # "gone"
          /\ free[allocations[old(k)]]
               \subseteq 0 .. total[allocations[old(k)]] - 1
      BY <1>1, <1>2, <1>6, SMTT(30) DEF VectorInv
    <2> DEFINE b == allocations[old(k)]
    <2>2. b \in Ids /\ b # a /\ allocations'[k] = b
      BY <1>5, <1>6
    <2>3. data'[b] = data[b] /\ free'[b] = free[b]
      BY <1>4, <2>2
    <2> HIDE DEF b
    <2>4. QED
      BY <1>0, <1>7, <2>1, <2>2, <2>3 DEF b
  <1>10. NoIdleAllocation'
    <2> SUFFICES ASSUME NEW k \in 2 .. m - 1,
                        data'[allocations'[k]] = "live",
                        total'[allocations'[k]] > 0
                 PROVE  free'[allocations'[k]]
                          # 0 .. total'[allocations'[k]] - 1
      BY <1>5 DEF NoIdleAllocation
    <2>1. k \in 1 .. m - 1
      BY <1>2
    <2>2. old(k) \in 2 .. Len(allocations)
      BY <1>2, <2>1 DEF old, m
    <2> DEFINE b == allocations[old(k)]
    <2>3. b \in Ids /\ b # a /\ allocations'[k] = b
      BY <1>5, <1>6, <2>1
    <2>4. data[b] = "live" /\ total[b] > 0 => free[b] # 0 .. total[b] - 1
      BY <1>1, <2>2 DEF NoIdleAllocation
    <2> HIDE DEF b
    <2>5. QED
      BY <1>0, <1>4, <2>3, <2>4
  <1>11. ASSUME NEW v \in Users, NEW k \in DOMAIN hold[v],
                hold[v][k] # hold[u][1]
         PROVE  /\ InVector(allocations', hold[v][k].allocation)
                /\ hold[v][k].number < total'[hold[v][k].allocation]
                /\ hold[v][k].number \notin free'[hold[v][k].allocation]
    <2> DEFINE b == hold[v][k].allocation
    <2>1. /\ hold[v][k] \in Chunks
          /\ b \in Ids
          /\ hold[v][k].number \in Nat
          /\ InVector(allocations, b)
          /\ hold[v][k].number < total[b]
          /\ hold[v][k].number \notin free[b]
      BY HeldFacts
    <2>2. b # a
      <3>1. SUFFICES ASSUME b = a PROVE FALSE
        OBVIOUS
      <3>2. hold[v][k].number \in free[a] \cup {n}
        <4>1. total[a] \in Nat /\ hold[v][k].number < total[a]
          BY <1>1, <1>2, <2>1, <3>1
        <4>2. hold[v][k].number \in 0 .. total[a] - 1
          BY <2>1, <4>1
        <4>3. QED
          BY <1>4, <4>2
      <3>3. hold[v][k].number = n
        BY <2>1, <3>1, <3>2
      <3>4. QED
        BY <1>0, <1>11, <2>1, <3>1, <3>3, HeldFacts, ChunkEqual DEF n
    <2>3. PICK j \in 1 .. m : allocations[j] = b /\ j # i
      BY <1>2, <2>1, <2>2 DEF InVector
    <2> DEFINE l == IF j < i THEN j ELSE j - 1
    <2>4. l \in 1 .. m - 1 /\ old(l) = j
      BY <1>2, <2>3 DEF old
    <2>5. allocations'[l] = b
      BY <1>5, <2>3, <2>4
    <2>6. InVector(allocations', b)
      BY <1>5, <2>4, <2>5 DEF InVector
    <2>7. QED
      BY <1>0, <1>4, <2>1, <2>2, <2>6
  <1>12. QED
    BY <1>8, <1>9, <1>10, <1>11

\* One turn of the loop of ~BlazingHostTable.
LEMMA FreeChunkStep ==
    ASSUME PoolInv, NEW u \in Users, free_chunk(u)
    PROVE  PoolInv'
  <1> DEFINE c == hold[u][1]
             a == c.allocation
             i == index[a] + 1
  <1>1. /\ hold[u] # <<>>
        /\ hold' = [hold EXCEPT ![u] = Tail(@)]
        /\ pc' = [pc EXCEPT ![u] = "destroy"]
        /\ num_buffers' = num_buffers
        /\ return_chunk(Head(hold[u]))
    BY DEF free_chunk, config
  <1>2. Head(hold[u]) = c /\ 1 \in DOMAIN hold[u]
    <2>1. hold[u] \in Seq(Chunks)
      BY DEF PoolInv, UserTypes
    <2>2. QED
      BY <1>1, <2>1, TailElements
  <1>3. Returns(c, a, i) /\ (Erases(i) \/ Keeps(i))
    <2>1. return_chunk(c)
      BY <1>1, <1>2
    <2>2. QED
      BY <1>1, <2>1, Zenon DEF return_chunk, Returns, Erases, Keeps
  <1>4. /\ PoolTypes' /\ VectorInv' /\ NoIdleAllocation'
        /\ \A v \in Users : \A k \in DOMAIN hold[v] :
              hold[v][k] # hold[u][1] =>
                 /\ InVector(allocations', hold[v][k].allocation)
                 /\ hold[v][k].number < total'[hold[v][k].allocation]
                 /\ hold[v][k].number \notin free'[hold[v][k].allocation]
    <2>1. CASE Erases(i)
      BY <1>2, <1>3, <2>1, ReturnErases
    <2>2. CASE Keeps(i)
      BY <1>2, <1>3, <2>2, ReturnKeeps
    <2>3. QED
      BY <1>3, <2>1, <2>2
  <1>5. QED
    BY <1>1, <1>4, TailOwned, Zenon

\* A step of a thread that touches neither the pool nor anybody's chunks.
LEMMA OtherStep ==
    ASSUME PoolInv, UNCHANGED <<poolVars, hold, num_buffers>>,
           NEW u \in Users,
           NEW s \in {"idle", "get", "fill", "table", "destroy"},
           pc' = [pc EXCEPT ![u] = s], s = "idle" => hold[u] = <<>>
    PROVE  PoolInv'
  <1>1. PoolTypes' /\ VectorInv' /\ HeldInv' /\ UniqueInv' /\ NoIdleAllocation'
    BY DEF PoolInv, PoolTypes, VectorInv, HeldInv, UniqueInv,
           NoIdleAllocation, InVector, poolVars
  <1>2. UserTypes'
    BY DEF PoolInv, UserTypes
  <1>3. IdleInv'
    BY DEF PoolInv, IdleInv, UserTypes
  <1>4. QED
    BY <1>1, <1>2, <1>3 DEF PoolInv

\* The steps of convert_gpu_buffers_to_chunks other than get_chunk.
LEMMA ConvertStep ==
    ASSUME PoolInv, NEW u \in Users, Convert(u)
    PROVE  PoolInv'
  <1>1. pc \in [Users -> {"idle", "get", "fill", "table", "destroy"}]
    BY DEF PoolInv, UserTypes
  <1>2. pc[u] = "fill" => pc = [pc EXCEPT ![u] = "fill"]
    BY <1>1
  <1>3. CASE convert_begin(u)
    BY <1>3, OtherStep DEF convert_begin, config
  <1>4. CASE next_chunk(u)
    BY <1>4, OtherStep DEF next_chunk, config
  <1>5. CASE next_piece(u)
    BY <1>2, <1>5, OtherStep DEF next_piece, config
  <1>6. CASE next_buffer(u)
    BY <1>2, <1>6, OtherStep DEF next_buffer, config
  <1>7. CASE convert_end(u)
    BY <1>7, OtherStep DEF convert_end, config
  <1>8. QED
    BY <1>3, <1>4, <1>5, <1>6, <1>7 DEF Convert

\* free_all empties the vector when no thread has a chunk.
LEMMA FreeAllStep ==
    ASSUME PoolInv, free_all
    PROVE  PoolInv'
  <1>1. \A u \in Users : hold'[u] = <<>> /\ hold[u] = <<>>
    BY DEF PoolInv, IdleInv, free_all
  <1>2. /\ allocations' = <<>> /\ allocations' \in Seq(Ids)
        /\ Len(allocations') = 0
    BY DEF free_all
  <1>3. PoolTypes'
    BY <1>2 DEF free_all, config, PoolInv, PoolTypes
  <1>4. UserTypes'
    BY DEF free_all, PoolInv, UserTypes
  <1>5. VectorInv' /\ NoIdleAllocation'
    BY <1>2 DEF VectorInv, NoIdleAllocation
  <1>6. HeldInv' /\ UniqueInv' /\ IdleInv'
    BY <1>1 DEF HeldInv, UniqueInv, IdleInv
  <1>7. QED
    BY <1>3, <1>4, <1>5, <1>6 DEF PoolInv

\* The constructor makes one allocation, all of it free.
LEMMA PoolInit == Init => PoolInv
  <1> SUFFICES ASSUME Init PROVE PoolInv
    OBVIOUS
  <1>1. PICK a \in Ids, d \in Allocated :
            /\ allocations = <<a>>
            /\ index = [x \in Ids |-> 0]
            /\ total = [x \in Ids |-> IF x = a THEN num_buffers ELSE 0]
            /\ free = [x \in Ids |->
                          IF x = a THEN 0 .. num_buffers - 1 ELSE {}]
            /\ data = [x \in Ids |-> IF x = a THEN d ELSE "gone"]
    BY DEF Init
  <1>2. /\ num_buffers \in NumBuffers /\ num_buffers \in Nat
        /\ d \in {"live", "null"}
    BY PoolAssumption DEF Init, Allocated
  <1>3. /\ pc = [u \in Users |-> "idle"]
        /\ hold = [u \in Users |-> <<>>]
    BY DEF Init
  <1>4. /\ allocations \in Seq(Ids)
        /\ Len(allocations) = 1
        /\ DOMAIN allocations = {1}
        /\ allocations[1] = a
    BY <1>1
  <1>5. PoolTypes
    <2>1. free \in [Ids -> SUBSET Nat]
      BY <1>1, <1>2
    <2>2. QED
      BY <1>1, <1>2, <1>4, <2>1 DEF PoolTypes
  <1>6. UserTypes
    BY <1>3 DEF UserTypes
  <1>7. VectorInv
    BY <1>1, <1>2, <1>4 DEF VectorInv
  <1>8. NoIdleAllocation
    BY <1>4 DEF NoIdleAllocation
  <1>9. HeldInv /\ UniqueInv /\ IdleInv
    BY <1>3 DEF HeldInv, UniqueInv, IdleInv
  <1>10. QED
    BY <1>5, <1>6, <1>7, <1>8, <1>9 DEF PoolInv

\* Every operation of the pool and of its users keeps the invariant.
LEMMA PoolNext == PoolInv /\ [Next]_vars => PoolInv'
  <1> SUFFICES ASSUME PoolInv, [Next]_vars PROVE PoolInv'
    OBVIOUS
  <1>1. ASSUME NEW u \in Users, get_free(u) PROVE PoolInv'
    BY <1>1, GetFreeStep
  <1>2. ASSUME NEW u \in Users, get_grown(u) PROVE PoolInv'
    BY <1>2, GetGrownStep
  <1>3. ASSUME NEW u \in Users, get_throws(u) PROVE PoolInv'
    BY <1>3, GetThrowsStep
  <1>4. ASSUME NEW u \in Users, free_chunk(u) PROVE PoolInv'
    BY <1>4, FreeChunkStep
  <1>5. ASSUME NEW u \in Users, destroyed(u) PROVE PoolInv'
    BY <1>5, OtherStep DEF destroyed, config
  <1>6. ASSUME NEW u \in Users, Convert(u) PROVE PoolInv'
    BY <1>6, ConvertStep
  <1>7. CASE free_all
    BY <1>7, FreeAllStep
  <1>8. CASE UNCHANGED vars
    <2>1. UNCHANGED <<poolVars, hold, num_buffers, pc>>
      BY <1>8 DEF vars, config
    <2>2. QED
      BY <2>1 DEF PoolInv, PoolTypes, UserTypes, VectorInv, HeldInv, UniqueInv,
             IdleInv, NoIdleAllocation, InVector, poolVars
  <1>9. QED
    BY <1>1, <1>2, <1>3, <1>4, <1>5, <1>6, <1>7, <1>8 DEF Next

\* The inductive invariant holds in every state.
LEMMA PoolInvariant == Spec => []PoolInv
  <1>1. QED
    BY PoolInit, PoolNext, PTL DEF Spec
-----------------------------------------------------------------------------
\* Whatever the threads, the growths and the failures of the allocator, no
\* chunk that get_chunk handed out is free or belongs to another table too.
THEOREM ChunksHaveOneOwner == Spec => []ChunkOwnedOnce
  <1>1. PoolInv => ChunkOwnedOnce
    BY DEF PoolInv, HeldInv, UniqueInv, ChunkOwnedOnce
  <1>2. QED
    BY <1>1, PoolInvariant, PTL

\* free_chunk erases and renumbers allocations while the chunks of others are
\* in use: their memory stays, and index is still their place in the vector.
THEOREM MemoryInUseStays == Spec => []HeldMemoryStays
  <1>1. PoolInv => HeldMemoryStays
    <2> SUFFICES ASSUME PoolInv, NEW u \in Users, NEW i \in DOMAIN hold[u],
                        NEW a, a = hold[u][i].allocation
                 PROVE  /\ index[a] < Len(allocations)
                        /\ allocations[index[a] + 1] = a
                        /\ data[a] # "gone"
                        /\ hold[u][i].number < total[a]
      BY DEF HeldMemoryStays
    <2>1. /\ a \in Ids
          /\ index[a] + 1 \in DOMAIN allocations
          /\ allocations[index[a] + 1] = a
          /\ data[a] # "gone"
      BY HeldPosition
    <2>2. index[a] \in Int /\ allocations \in Seq(Ids)
      BY <2>1 DEF PoolInv, PoolTypes
    <2>3. QED
      BY <2>1, <2>2, HeldFacts
  <1>2. QED
    BY <1>1, PoolInvariant, PTL

\* Every allocation that the pool grew by and that is all free again has been
\* given back to the system by the free_chunk that emptied it.
THEOREM GrownMemoryIsReturned == Spec => []NoIdleAllocation
  <1>1. PoolInv => NoIdleAllocation
    BY DEF PoolInv
  <1>2. QED
    BY <1>1, PoolInvariant, PTL

-----------------------------------------------------------------------------
(* What allocation_counter counts.                                         *)

\* Chunk c is in use as far as the pool can tell.
UsedInPool(c) ==
    /\ InVector(allocations, c.allocation)
    /\ c.number < total[c.allocation]
    /\ c.number \notin free[c.allocation]

\* A leaked chunk stays taken: its allocation is never emptied, and no thread
\* gets it again.
LeakedInv ==
    /\ leaked \subseteq Chunks
    /\ \A c \in leaked :
          /\ UsedInPool(c)
          /\ \A u \in Users : \A i \in DOMAIN hold[u] : hold[u][i] # c

CountInv ==
    /\ LeakedInv
    /\ IsFiniteSet(InUse)
    /\ allocation_counter = Cardinality(InUse)

\* What it is for a chunk to be in use.
LEMMA InUseOf ==
    ASSUME NEW h, NEW l, NEW c
    PROVE  c \in l \cup UNION {Range(h[u]) : u \in Users} <=>
               \/ c \in l
               \/ \E u \in Users : \E i \in DOMAIN h[u] : h[u][i] = c
  <1>1. \A u \in Users : c \in Range(h[u]) <=> \E i \in DOMAIN h[u] : h[u][i] = c
    BY Zenon DEF Range
  <1> DEFINE ranges == {Range(h[u]) : u \in Users}
  <1>2. c \in UNION ranges <=> \E u \in Users : c \in Range(h[u])
    OBVIOUS
  <1> HIDE DEF ranges
  <1>3. c \in l \cup UNION ranges <=> c \in l \/ c \in UNION ranges
    OBVIOUS
  <1>4. QED
    BY <1>1, <1>2, <1>3 DEF ranges

\* get_chunk takes one chunk and leaves the others in use.
LEMMA UsedGetFree ==
    ASSUME PoolInv, NEW u \in Users, get_free(u),
           NEW c \in Chunks, UsedInPool(c)
    PROVE  UsedInPool(c)'
  <1>1. free \in [Ids -> SUBSET Nat] /\ allocations \in Seq(Ids)
    BY DEF PoolInv, PoolTypes
  <1>2. PICK i \in DOMAIN allocations : \E n \in free[allocations[i]] :
            free' = [free EXCEPT ![allocations[i]] = @ \ {n}]
    BY DEF get_free
  <1>3. PICK n \in free[allocations[i]] :
            free' = [free EXCEPT ![allocations[i]] = @ \ {n}]
    BY <1>2
  <1>4. allocations' = allocations /\ total' = total
    BY DEF get_free
  <1>5. c.allocation \in Ids
    BY DEF Chunks
  <1>6. free'[c.allocation] \subseteq free[c.allocation]
    BY <1>1, <1>3, <1>5
  <1>7. QED
    BY <1>4, <1>6 DEF UsedInPool

\* grow leaves the chunks in use alone, and its own are new.
LEMMA UsedGrow ==
    ASSUME PoolInv, NEW a \in Ids, NEW n, NEW d, grow(a, n, d),
           NEW f, free' = [free EXCEPT ![a] = f],
           NEW c \in Chunks, UsedInPool(c)
    PROVE  UsedInPool(c)' /\ c.allocation # a
  <1> DEFINE m == Len(allocations)
  <1>1. /\ allocations \in Seq(Ids)
        /\ total \in [Ids -> Nat]
        /\ free \in [Ids -> SUBSET Nat]
    BY DEF PoolInv, PoolTypes
  <1>2. /\ allocations' = Append(allocations, a)
        /\ total' = [total EXCEPT ![a] = n]
        /\ a \notin Range(allocations)
    BY DEF grow
  <1>3. /\ m \in Nat
        /\ DOMAIN allocations = 1 .. m
        /\ DOMAIN allocations' = 1 .. m + 1
        /\ \A k \in 1 .. m : allocations'[k] = allocations[k]
    BY <1>1, <1>2, AppendProperties
  <1>4. PICK k \in DOMAIN allocations : allocations[k] = c.allocation
    BY DEF UsedInPool, InVector
  <1>5. c.allocation \in Range(allocations)
    BY <1>4, Zenon DEF Range
  <1>6. c.allocation # a
    BY <1>2, <1>5
  <1> HIDE DEF m
  <1>7. InVector(allocations', c.allocation)
    BY <1>3, <1>4 DEF InVector
  <1>8. c.allocation \in Ids
    BY DEF Chunks
  <1>9. /\ free'[c.allocation] = free[c.allocation]
        /\ total'[c.allocation] = total[c.allocation]
    BY <1>1, <1>2, <1>6, <1>8
  <1>10. QED
    BY <1>6, <1>7, <1>9 DEF UsedInPool

\* free_chunk takes back one chunk; when it erases an allocation, no other
\* chunk of that allocation is in use.
LEMMA UsedReturn ==
    ASSUME PoolInv, NEW u \in Users, 1 \in DOMAIN hold[u],
           NEW a, NEW i, Returns(hold[u][1], a, i), Erases(i) \/ Keeps(i),
           NEW c \in Chunks, UsedInPool(c), c # hold[u][1]
    PROVE  UsedInPool(c)'
  <1> DEFINE n == hold[u][1].number
             b == c.allocation
             m == Len(allocations)
  <1>1. /\ allocations \in Seq(Ids)
        /\ total \in [Ids -> Nat]
        /\ free \in [Ids -> SUBSET Nat]
        /\ m \in Nat
        /\ DOMAIN allocations = 1 .. m
    BY DEF PoolInv, PoolTypes
  <1>2. /\ a = hold[u][1].allocation
        /\ i = index[a] + 1
        /\ free' = [free EXCEPT ![a] = free[a] \cup {n}]
        /\ total' = total
    BY DEF Returns
  <1>3. /\ a \in Ids
        /\ i \in DOMAIN allocations
        /\ allocations[i] = a
        /\ hold[u][1] \in Chunks
    BY <1>2, HeldPosition, HeldFacts
  <1>4. b \in Ids /\ c.number \in Nat
    BY DEF Chunks
  <1>5. b = a => c.number # n
    BY <1>2, <1>3, ChunkEqual
  <1>6. /\ free'[a] = free[a] \cup {n}
        /\ b # a => free'[b] = free[b]
    BY <1>1, <1>2, <1>3, <1>4
  <1>7. c.number \notin free'[b]
    BY <1>5, <1>6 DEF UsedInPool
  <1>8. InVector(allocations', b)
    <2>1. CASE Keeps(i)
      BY <2>1 DEF Keeps, UsedInPool
    <2>2. CASE Erases(i)
      <3>1. /\ allocations' = RemoveAt(allocations, i)
            /\ free'[a] = 0 .. total[a] - 1
        BY <1>3, <2>2 DEF Erases, Emptied
      <3>2. b # a
        <4>1. ASSUME b = a PROVE FALSE
          <5>1. c.number < total[a] /\ total[a] \in Nat
            BY <1>1, <1>3, <4>1 DEF UsedInPool
          <5>2. c.number \in 0 .. total[a] - 1
            BY <1>4, <5>1
          <5>3. QED
            BY <1>7, <3>1, <4>1, <5>2
        <4>2. QED
          BY <4>1
      <3>3. PICK j \in 1 .. m : allocations[j] = b
        BY <1>1 DEF UsedInPool, InVector
      <3>4. j # i /\ i \in 1 .. m
        BY <1>1, <1>3, <3>2, <3>3
      <3>5. /\ DOMAIN allocations' = 1 .. m - 1
            /\ \A k \in 1 .. m - 1 :
                  allocations'[k] = IF k < i THEN allocations[k]
                                    ELSE allocations[k + 1]
        <4>1. /\ DOMAIN RemoveAt(allocations, i) = 1 .. Len(allocations) - 1
              /\ \A k \in 1 .. Len(allocations) - 1 :
                    RemoveAt(allocations, i)[k] =
                        IF k < i THEN allocations[k] ELSE allocations[k + 1]
          BY <1>1, <3>4, RemoveAtElements, Zenon
        <4>2. QED
          BY <3>1, <4>1, Zenon
      <3> DEFINE l == IF j < i THEN j ELSE j - 1
      <3> HIDE DEF m, b
      <3>6. l \in 1 .. m - 1 /\ (IF l < i THEN l ELSE l + 1) = j
        BY <1>1, <3>3, <3>4
      <3>7. allocations'[l] = allocations[j]
        BY <3>3, <3>4, <3>5, <3>6
      <3>8. QED
        BY <3>3, <3>5, <3>6, <3>7 DEF InVector
    <2>3. QED
      BY <2>1, <2>2
  <1>9. QED
    BY <1>2, <1>7, <1>8 DEF UsedInPool


\* get_chunk counts the chunk it hands out, which was not in use.
LEMMA GetsCounts ==
    ASSUME PoolInv, CountInv, NEW u \in Users, NEW c \in Chunks, gets(u, c),
           c \notin leaked,
           \A v \in Users : \A i \in DOMAIN hold[v] : hold[v][i] # c,
           \A d \in leaked : UsedInPool(d)'
    PROVE  CountInv'
  <1> DEFINE n == Len(hold[u]) + 1
  <1>1. /\ hold \in [Users -> Seq(Chunks)]
        /\ hold' = [hold EXCEPT ![u] = Append(hold[u], c)]
        /\ leaked' = leaked
        /\ allocation_counter' = allocation_counter + 1
    BY DEF PoolInv, UserTypes, gets
  <1>2. /\ DOMAIN hold'[u] = 1 .. n
        /\ \A i \in 1 .. n - 1 : hold'[u][i] = hold[u][i]
        /\ hold'[u][n] = c
        /\ DOMAIN hold[u] = 1 .. n - 1
        /\ n \in Nat \ {0}
    BY <1>1, AppendProperties
  <1>3. \A v \in Users : v # u => hold'[v] = hold[v]
    BY <1>1
  <1> HIDE DEF n
  <1>4. ASSUME NEW v \in Users, NEW i \in DOMAIN hold'[v]
        PROVE  \/ i \in DOMAIN hold[v] /\ hold'[v][i] = hold[v][i]
               \/ hold'[v][i] = c
    BY <1>2, <1>3
  <1>5. ASSUME NEW v \in Users, NEW i \in DOMAIN hold[v]
        PROVE  i \in DOMAIN hold'[v] /\ hold'[v][i] = hold[v][i]
    BY <1>2, <1>3
  <1>6. n \in DOMAIN hold'[u]
    BY <1>2
  <1>7. InUse' = InUse \cup {c}
    <2>1. ASSUME NEW d PROVE d \in InUse' <=> d \in InUse \/ d = c
      <3>1. d \in InUse <=>
                \/ d \in leaked
                \/ \E v \in Users : \E i \in DOMAIN hold[v] : hold[v][i] = d
        BY InUseOf DEF InUse
      <3>2. d \in InUse' <=>
                \/ d \in leaked'
                \/ \E v \in Users : \E i \in DOMAIN hold'[v] : hold'[v][i] = d
        BY InUseOf DEF InUse
      <3>3. QED
        BY <1>1, <1>2, <1>4, <1>5, <1>6, <3>1, <3>2
    <2>2. QED
      BY <2>1
  <1>8. c \notin InUse
    BY InUseOf DEF InUse
  <1>9. /\ IsFiniteSet(InUse')
        /\ allocation_counter' = Cardinality(InUse')
    BY <1>1, <1>7, <1>8, FS_AddElement DEF CountInv
  <1>10. LeakedInv'
    <2>1. ASSUME NEW d \in leaked, NEW v \in Users, NEW i \in DOMAIN hold'[v]
          PROVE  hold'[v][i] # d
      BY <1>4 DEF CountInv, LeakedInv
    <2>2. QED
      BY <1>1, <2>1 DEF CountInv, LeakedInv
  <1>11. QED
    BY <1>9, <1>10 DEF CountInv

\* get_chunk, with a chunk of the first allocation that has one.
LEMMA GetFreeCounts ==
    ASSUME PoolInv, CountInv, NEW u \in Users, get_free(u)
    PROVE  CountInv'
  <1>1. PICK i \in DOMAIN allocations : \E n \in free[allocations[i]] :
            gets(u, [allocation |-> allocations[i], number |-> n])
    BY DEF get_free
  <1>2. PICK n \in free[allocations[i]] :
            gets(u, [allocation |-> allocations[i], number |-> n])
    BY <1>1
  <1> DEFINE c == [allocation |-> allocations[i], number |-> n]
  <1>3. allocations \in Seq(Ids) /\ free \in [Ids -> SUBSET Nat]
    BY DEF PoolInv, PoolTypes
  <1>4. /\ c \in Chunks /\ c.number \in free[c.allocation]
        /\ gets(u, c)
    BY <1>2, <1>3 DEF Chunks
  <1> HIDE DEF c
  <1>5. \A d \in leaked : d \in Chunks /\ UsedInPool(d)
    BY DEF CountInv, LeakedInv
  <1>6. c \notin leaked
    BY <1>4, <1>5 DEF UsedInPool
  <1>7. \A v \in Users : \A k \in DOMAIN hold[v] : hold[v][k] # c
    BY <1>4, HeldFacts
  <1>8. \A d \in leaked : UsedInPool(d)'
    BY <1>5, UsedGetFree
  <1>9. QED
    BY <1>4, <1>6, <1>7, <1>8, GetsCounts

\* get_chunk, with a chunk of a new allocation.
LEMMA GetGrownCounts ==
    ASSUME PoolInv, CountInv, NEW u \in Users, get_grown(u)
    PROVE  CountInv'
  <1> DEFINE g == num_new_buffers
  <1>1. g \in Nat
    BY GrowthIsNat DEF PoolInv
  <1>2. PICK a \in Ids, d \in Allocated, n \in 0 .. g - 1 :
            /\ grow(a, g, d)
            /\ free' = [free EXCEPT ![a] = (0 .. g - 1) \ {n}]
            /\ gets(u, [allocation |-> a, number |-> n])
    BY DEF get_grown
  <1> DEFINE c == [allocation |-> a, number |-> n]
  <1> HIDE DEF g
  <1>3. c \in Chunks /\ c.allocation = a /\ gets(u, c)
    BY <1>1, <1>2 DEF Chunks
  <1> HIDE DEF c
  <1>4. \A x \in Chunks : UsedInPool(x) => UsedInPool(x)' /\ x.allocation # a
    BY <1>2, UsedGrow
  <1>5. \A x \in leaked : x \in Chunks /\ UsedInPool(x)
    BY DEF CountInv, LeakedInv
  <1>6. c \notin leaked
    BY <1>3, <1>4, <1>5
  <1>7. ASSUME NEW v \in Users, NEW k \in DOMAIN hold[v] PROVE hold[v][k] # c
    <2>1. hold[v][k] \in Chunks /\ UsedInPool(hold[v][k])
      BY HeldFacts DEF UsedInPool
    <2>2. QED
      BY <1>3, <1>4, <2>1
  <1>8. \A x \in leaked : UsedInPool(x)'
    BY <1>4, <1>5
  <1>9. QED
    BY <1>3, <1>6, <1>7, <1>8, GetsCounts

\* get_chunk throws: what the thread had is leaked, and is in use still.
LEMMA GetThrowsCounts ==
    ASSUME PoolInv, CountInv, NEW u \in Users, get_throws(u)
    PROVE  CountInv'
  <1>1. PICK a \in Ids, d \in {"live", "null"} :
            grow(a, 0, d) /\ free' = [free EXCEPT ![a] = {}]
    BY DEF get_throws
  <1>2. /\ hold' = [hold EXCEPT ![u] = <<>>]
        /\ leaked' = leaked \cup Range(hold[u])
        /\ allocation_counter' = allocation_counter
        /\ hold \in [Users -> Seq(Chunks)]
    BY DEF get_throws, PoolInv, UserTypes
  <1>3. \A x \in Chunks : UsedInPool(x) => UsedInPool(x)'
    BY <1>1, UsedGrow
  <1>4. \A x : x \in leaked' <=>
            \/ x \in leaked
            \/ \E i \in DOMAIN hold[u] : hold[u][i] = x
    <2>1. \A x : x \in Range(hold[u]) <=> \E i \in DOMAIN hold[u] : hold[u][i] = x
      BY Zenon DEF Range
    <2>2. QED
      BY <1>2, <2>1
  <1>5. ASSUME NEW v \in Users, NEW i \in DOMAIN hold'[v]
        PROVE  v # u /\ i \in DOMAIN hold[v] /\ hold'[v][i] = hold[v][i]
    BY <1>2
  <1>6. ASSUME NEW v \in Users, NEW i \in DOMAIN hold[v], v # u
        PROVE  i \in DOMAIN hold'[v] /\ hold'[v][i] = hold[v][i]
    BY <1>2, <1>6
  <1>7. InUse' = InUse
    <2>1. ASSUME NEW x PROVE x \in InUse' <=> x \in InUse
      <3>1. x \in InUse <=>
                \/ x \in leaked
                \/ \E v \in Users : \E i \in DOMAIN hold[v] : hold[v][i] = x
        BY InUseOf DEF InUse
      <3>2. x \in InUse' <=>
                \/ x \in leaked'
                \/ \E v \in Users : \E i \in DOMAIN hold'[v] : hold'[v][i] = x
        BY InUseOf DEF InUse
      <3>3. QED
        BY <1>4, <1>5, <1>6, <3>1, <3>2
    <2>2. QED
      BY <2>1
  <1>8. ASSUME NEW x \in leaked'
        PROVE  /\ x \in Chunks
               /\ UsedInPool(x)'
               /\ \A v \in Users : \A i \in DOMAIN hold'[v] : hold'[v][i] # x
    <2>1. CASE x \in leaked
      BY <1>3, <1>5, <2>1 DEF CountInv, LeakedInv
    <2>2. CASE \E i \in DOMAIN hold[u] : hold[u][i] = x
      <3>1. PICK k \in DOMAIN hold[u] : hold[u][k] = x
        BY <2>2
      <3>2. x \in Chunks /\ UsedInPool(x)
        BY <3>1, HeldFacts DEF UsedInPool
      <3>3. ASSUME NEW v \in Users, NEW i \in DOMAIN hold'[v]
            PROVE  hold'[v][i] # x
        BY <1>5, <3>1 DEF PoolInv, UniqueInv
      <3>4. QED
        BY <1>3, <3>2, <3>3
    <2>3. QED
      BY <1>4, <2>1, <2>2
  <1>9. LeakedInv'
    BY <1>8 DEF LeakedInv
  <1>10. QED
    BY <1>2, <1>7, <1>9 DEF CountInv


\* free_chunk takes one chunk out of use.
LEMMA FreeChunkCounts ==
    ASSUME PoolInv, CountInv, NEW u \in Users, free_chunk(u)
    PROVE  CountInv'
  <1> DEFINE n == Len(hold[u])
             c == hold[u][1]
             a == c.allocation
             i == index[a] + 1
  <1>1. /\ hold[u] # <<>>
        /\ hold \in [Users -> Seq(Chunks)]
        /\ hold' = [hold EXCEPT ![u] = Tail(hold[u])]
        /\ leaked' = leaked
        /\ return_chunk(Head(hold[u]))
        /\ num_buffers' = num_buffers
    BY DEF free_chunk, config, PoolInv, UserTypes
  <1>2. /\ DOMAIN Tail(hold[u]) = 1 .. n - 1
        /\ \A k \in 1 .. n - 1 : Tail(hold[u])[k] = hold[u][k + 1]
        /\ DOMAIN hold[u] = 1 .. n
        /\ n \in Nat \ {0}
        /\ Head(hold[u]) = c
    BY <1>1, TailElements
  <1>3. return_chunk(c) /\ 1 \in DOMAIN hold[u]
    BY <1>1, <1>2
  <1>4. /\ Returns(c, a, i) /\ (Erases(i) \/ Keeps(i))
        /\ allocation_counter' = allocation_counter - 1
    BY <1>1, <1>3, Zenon DEF return_chunk, Returns, Erases, Keeps
  <1>5. \A d \in Chunks : UsedInPool(d) /\ d # c => UsedInPool(d)'
    BY <1>3, <1>4, UsedReturn
  <1>6. /\ hold'[u] = Tail(hold[u])
        /\ \A v \in Users : v # u => hold'[v] = hold[v]
    BY <1>1
  <1> HIDE DEF n, c, a, i
  <1>7. ASSUME NEW v \in Users, NEW k \in DOMAIN hold'[v]
        PROVE  \E l \in DOMAIN hold[v] : /\ hold'[v][k] = hold[v][l]
                                         /\ v = u => l # 1
    <2>1. CASE v = u
      <3>1. k \in 1 .. n - 1
        BY <1>2, <1>6, <2>1
      <3>2. k + 1 \in DOMAIN hold[v] /\ k + 1 # 1
        BY <1>2, <2>1, <3>1
      <3>3. hold'[v][k] = hold[v][k + 1]
        BY <1>2, <1>6, <2>1, <3>1
      <3>4. QED
        BY <3>2, <3>3
    <2>2. CASE v # u
      BY <1>6, <2>2
    <2>3. QED
      BY <2>1, <2>2
  <1>8. ASSUME NEW v \in Users, NEW l \in DOMAIN hold[v], hold[v][l] # c
        PROVE  \E k \in DOMAIN hold'[v] : hold'[v][k] = hold[v][l]
    <2>1. CASE v = u
      <3>1. l \in 1 .. n /\ l # 1
        BY <1>2, <1>8, <2>1 DEF c
      <3>2. l - 1 \in 1 .. n - 1 /\ (l - 1) + 1 = l
        BY <1>2, <3>1
      <3>3. hold'[v][l - 1] = hold[v][l]
        BY <1>2, <1>6, <2>1, <3>2
      <3>4. QED
        BY <1>2, <1>6, <2>1, <3>2, <3>3
    <2>2. CASE v # u
      BY <1>6, <2>2
    <2>3. QED
      BY <2>1, <2>2
  <1>9. ASSUME NEW v \in Users, NEW k \in DOMAIN hold'[v]
        PROVE  hold'[v][k] # c
    <2>1. PICK l \in DOMAIN hold[v] : /\ hold'[v][k] = hold[v][l]
                                      /\ v = u => l # 1
      BY <1>7
    <2>2. QED
      BY <1>3, <2>1 DEF c, PoolInv, UniqueInv
  <1>10. c \notin leaked /\ c \in InUse
    BY <1>3, InUseOf DEF c, CountInv, LeakedInv, InUse
  <1>11. InUse' = InUse \ {c}
    <2>1. ASSUME NEW x PROVE x \in InUse' <=> x \in InUse /\ x # c
      <3>1. x \in InUse <=>
                \/ x \in leaked
                \/ \E v \in Users : \E k \in DOMAIN hold[v] : hold[v][k] = x
        BY InUseOf DEF InUse
      <3>2. x \in InUse' <=>
                \/ x \in leaked'
                \/ \E v \in Users : \E k \in DOMAIN hold'[v] : hold'[v][k] = x
        BY InUseOf DEF InUse
      <3>3. (\E v \in Users : \E k \in DOMAIN hold'[v] : hold'[v][k] = x) <=>
                /\ x # c
                /\ \E v \in Users : \E k \in DOMAIN hold[v] : hold[v][k] = x
        BY <1>7, <1>8, <1>9
      <3>4. QED
        BY <1>1, <1>10, <3>1, <3>2, <3>3
    <2>2. QED
      BY <2>1
  <1>12. /\ IsFiniteSet(InUse')
         /\ allocation_counter' = Cardinality(InUse')
    BY <1>4, <1>10, <1>11, FS_RemoveElement DEF CountInv
  <1>13. LeakedInv'
    <2>1. ASSUME NEW d \in leaked
          PROVE  /\ d \in Chunks /\ UsedInPool(d)'
                 /\ \A v \in Users : \A k \in DOMAIN hold'[v] : hold'[v][k] # d
      BY <1>5, <1>7, <1>10 DEF CountInv, LeakedInv
    <2>2. QED
      BY <1>1, <2>1 DEF LeakedInv
  <1>14. QED
    BY <1>12, <1>13 DEF CountInv

\* free_all runs when only leaked chunks are in use, and forgets them.
LEMMA FreeAllCounts ==
    ASSUME PoolInv, CountInv, free_all
    PROVE  CountInv'
  <1>1. \A u \in Users : hold'[u] = <<>>
    BY DEF PoolInv, IdleInv, free_all
  <1>2. leaked' = {} /\ allocation_counter' = 0
    BY DEF free_all
  <1>3. InUse' = {}
    <2>1. ASSUME NEW x PROVE x \notin InUse'
      <3>1. x \in InUse' <=>
                \/ x \in leaked'
                \/ \E v \in Users : \E k \in DOMAIN hold'[v] : hold'[v][k] = x
        BY InUseOf DEF InUse
      <3>2. QED
        BY <1>1, <1>2, <3>1
    <2>2. QED
      BY <2>1
  <1>4. QED
    BY <1>2, <1>3, FS_EmptySet DEF CountInv, LeakedInv

\* A step that touches neither the pool nor anybody's chunks.
LEMMA OtherCounts ==
    ASSUME CountInv, UNCHANGED <<poolVars, hold, leaked>>
    PROVE  CountInv'
BY DEF CountInv, LeakedInv, UsedInPool, InVector, InUse, poolVars

\* No chunk is in use in the beginning.
LEMMA CountInit == Init => CountInv
  <1> SUFFICES ASSUME Init PROVE CountInv
    OBVIOUS
  <1>1. /\ hold = [u \in Users |-> <<>>] /\ leaked = {}
        /\ allocation_counter = 0
    BY DEF Init
  <1>2. InUse = {}
    <2>1. ASSUME NEW x PROVE x \notin InUse
      BY <1>1, InUseOf DEF InUse
    <2>2. QED
      BY <2>1
  <1>3. QED
    BY <1>1, <1>2, FS_EmptySet DEF CountInv, LeakedInv

\* Every operation keeps the counter.
LEMMA CountNext == PoolInv /\ CountInv /\ [Next]_vars => CountInv'
  <1> SUFFICES ASSUME PoolInv, CountInv, [Next]_vars PROVE CountInv'
    OBVIOUS
  <1>1. ASSUME NEW u \in Users, get_free(u) PROVE CountInv'
    BY <1>1, GetFreeCounts
  <1>2. ASSUME NEW u \in Users, get_grown(u) PROVE CountInv'
    BY <1>2, GetGrownCounts
  <1>3. ASSUME NEW u \in Users, get_throws(u) PROVE CountInv'
    BY <1>3, GetThrowsCounts
  <1>4. ASSUME NEW u \in Users, free_chunk(u) PROVE CountInv'
    BY <1>4, FreeChunkCounts
  <1>5. ASSUME NEW u \in Users, destroyed(u) PROVE CountInv'
    BY <1>5, OtherCounts DEF destroyed
  <1>6. ASSUME NEW u \in Users, Convert(u) PROVE CountInv'
    BY <1>6, OtherCounts DEF Convert, convert_begin, next_chunk, next_piece,
                             next_buffer, convert_end
  <1>7. CASE free_all
    BY <1>7, FreeAllCounts
  <1>8. CASE UNCHANGED vars
    BY <1>8, OtherCounts DEF vars
  <1>9. QED
    BY <1>1, <1>2, <1>3, <1>4, <1>5, <1>6, <1>7, <1>8 DEF Next

\* The counter is right in every state.
LEMMA CountInvariant == Spec => [](PoolInv /\ CountInv)
  <1>1. QED
    BY PoolInit, PoolNext, CountInit, CountNext, PTL DEF Spec

\* Whatever the order of gets, returns, growths and throws, and although
\* free_chunk erases allocations on the way, allocation_counter is the number
\* of the chunks in use, the leaked ones included.
THEOREM CounterIsRight == Spec => []CounterIsInUse
  <1>1. CountInv => CounterIsInUse
    BY DEF CountInv, CounterIsInUse
  <1>2. QED
    BY <1>1, CountInvariant, PTL

-----------------------------------------------------------------------------
(* What convert_gpu_buffers_to_chunks has written when it ends.            *)

\* The buffers before the current one are written, of the current one the
\* bytes up to buffer_position, and nothing of those behind it.
Written(s) ==
    /\ s.buffer_index \in 1 .. Len(s.sizes) + 1
    /\ \A b \in 1 .. Len(s.sizes) :
          /\ b < s.buffer_index => Total(PieceBytes(b), s.pieces) = s.sizes[b]
          /\ b = s.buffer_index =>
                Total(PieceBytes(b), s.pieces) = s.buffer_position
          /\ b > s.buffer_index => Total(PieceBytes(b), s.pieces) = 0
    /\ s.buffer_index <= Len(s.sizes) =>
          s.buffer_position <= s.sizes[s.buffer_index]

\* The pieces lie in the n chunks of the table, none over another.
Apart(s, n) ==
    \A k \in 1 .. Len(s.pieces) :
        /\ s.pieces[k].size > 0
        /\ s.pieces[k].offset + s.pieces[k].size <= buffer_size
        /\ s.pieces[k].chunk_index \in 1 .. n
        /\ \A l \in 1 .. k - 1 : ~Overlap(s.pieces[k], s.pieces[l])

\* The last of the n chunks has its pieces before allocation_position.
InChunk(s, n) ==
    /\ n > 0
    /\ s.allocation_position <= buffer_size
    /\ \A k \in 1 .. Len(s.pieces) :
          s.pieces[k].chunk_index = n =>
             s.pieces[k].offset + s.pieces[k].size <= s.allocation_position

\* A thread at p, with n chunks.
UserInv(p, s, n) ==
    /\ p = "idle" => s = NoSplit
    /\ p = "get" => s.allocation_position = 0
    /\ p = "fill" => InChunk(s, n)
    /\ p \in {"get", "fill", "table"} => Written(s) /\ Apart(s, n)
    /\ p = "table" => s.buffer_index > Len(s.sizes)

SplitInv ==
    /\ split \in [Users -> Splits]
    /\ \A u \in Users : UserInv(pc[u], split[u], Len(hold[u]))

\* std::min of two numbers.
LEMMA MinOfTwo ==
    ASSUME NEW x \in Int, NEW y \in Int
    PROVE  /\ Min({x, y}) \in {x, y}
           /\ Min({x, y}) <= x
           /\ Min({x, y}) <= y
  <1>1. \E z \in {x, y} : \A w \in {x, y} : z <= w
    <2>1. CASE x <= y
      BY <2>1
    <2>2. CASE ~(x <= y)
      BY <2>2
    <2>3. QED
      BY <2>1, <2>2
  <1>2. Min({x, y}) \in {x, y} /\ \A w \in {x, y} : Min({x, y}) <= w
    BY <1>1, Zenon DEF Min
  <1>3. QED
    BY <1>2

\* What the fields of a split are.
LEMMA SplitFields ==
    ASSUME NEW s \in Splits
    PROVE  /\ s.sizes \in Seq(Nat)
           /\ s.buffer_index \in Nat
           /\ s.buffer_position \in Nat
           /\ s.allocation_position \in Nat
           /\ s.pieces \in Seq(Pieces)
           /\ Len(s.sizes) \in Nat
           /\ Len(s.pieces) \in Nat
           /\ \A b \in 1 .. Len(s.sizes) : s.sizes[b] \in Nat
           /\ \A k \in 1 .. Len(s.pieces) :
                 /\ s.pieces[k] \in Pieces
                 /\ s.pieces[k].buffer \in Nat
                 /\ s.pieces[k].chunk_index \in Nat
                 /\ s.pieces[k].offset \in Nat
                 /\ s.pieces[k].size \in Nat
  <1>1. /\ s.sizes \in Seq(Nat)
        /\ s.buffer_index \in Nat
        /\ s.buffer_position \in Nat
        /\ s.allocation_position \in Nat
        /\ s.pieces \in Seq(Pieces)
    BY DEF Splits
  <1>2. ASSUME NEW k \in 1 .. Len(s.pieces)
        PROVE  s.pieces[k] \in Pieces
    BY <1>1
  <1>3. \A p \in Pieces : /\ p.buffer \in Nat /\ p.chunk_index \in Nat
                          /\ p.offset \in Nat /\ p.size \in Nat
    BY DEF Pieces
  <1>4. QED
    BY <1>1, <1>2, <1>3

\* A thread that is not converting has the split of none.
LEMMA NoSplitType == NoSplit \in Splits
  <1>1. /\ <<>> \in Seq(Nat) /\ <<>> \in Seq(Pieces)
        /\ 1 \in Nat /\ 0 \in Nat
    OBVIOUS
  <1>2. QED
    BY <1>1 DEF NoSplit, Splits

\* PieceBytes weighs every piece.
LEMMA PieceBytesType ==
    ASSUME NEW b
    PROVE  PieceBytes(b) \in [Pieces -> Nat]
BY DEF PieceBytes, Pieces

\* A conversion begins with nothing written.
LEMMA BeginWrites ==
    ASSUME NEW z \in Seq(Nat), NEW s, s = [NoSplit EXCEPT !.sizes = z]
    PROVE  s \in Splits /\ UserInv("get", s, 0)
  <1>1. /\ s.sizes = z /\ s.buffer_index = 1 /\ s.buffer_position = 0
        /\ s.allocation_position = 0 /\ s.pieces = <<>>
        /\ s \in Splits
    <2>1. NoSplit \in Splits
      BY NoSplitType
    <2>2. s \in Splits /\ s.sizes = z
      BY <2>1 DEF Splits
    <2>3. QED
      BY <2>2 DEF NoSplit
  <1>2. Len(z) \in Nat /\ \A b \in 1 .. Len(z) : z[b] \in Nat
    OBVIOUS
  <1>3. \A b : Total(PieceBytes(b), <<>>) = 0
    BY PieceBytesType, TotalEmpty
  <1>4. Written(s)
    BY <1>1, <1>2, <1>3 DEF Written
  <1>5. Apart(s, 0)
    BY <1>1 DEF Apart
  <1>6. QED
    BY <1>1, <1>4, <1>5 DEF UserInv

\* A new chunk has no piece yet.
LEMMA GotWrites ==
    ASSUME NEW s \in Splits, NEW n \in Nat, UserInv("get", s, n)
    PROVE  UserInv("fill", s, n + 1)
  <1>1. Written(s) /\ Apart(s, n) /\ s.allocation_position = 0
    BY DEF UserInv
  <1>2. Apart(s, n + 1)
    BY <1>1 DEF Apart
  <1>3. InChunk(s, n + 1)
    <2>1. buffer_size \in Nat
      BY PoolAssumption
    <2>2. ASSUME NEW k \in 1 .. Len(s.pieces)
          PROVE  s.pieces[k].chunk_index # n + 1
      BY <1>1 DEF Apart
    <2>3. QED
      BY <1>1, <2>1, <2>2 DEF InChunk
  <1>4. QED
    BY <1>1, <1>2, <1>3 DEF UserInv

\* A full chunk is left for another.
LEMMA ChunkWrites ==
    ASSUME NEW s \in Splits, NEW n \in Nat, UserInv("fill", s, n),
           NEW t, t = [s EXCEPT !.allocation_position = 0]
    PROVE  t \in Splits /\ UserInv("get", t, n)
  <1>1. Written(s) /\ Apart(s, n)
    BY DEF UserInv
  <1>2. /\ t.sizes = s.sizes /\ t.buffer_index = s.buffer_index
        /\ t.buffer_position = s.buffer_position /\ t.pieces = s.pieces
        /\ t.allocation_position = 0 /\ t \in Splits
    BY DEF Splits
  <1>3. Written(t) /\ Apart(t, n)
    BY <1>1, <1>2 DEF Written, Apart
  <1>4. QED
    BY <1>2, <1>3 DEF UserInv

\* A buffer that is written is left for the next.
LEMMA BufferWrites ==
    ASSUME NEW s \in Splits, NEW n \in Nat, UserInv("fill", s, n),
           s.buffer_index <= Len(s.sizes),
           s.buffer_position >= s.sizes[s.buffer_index],
           NEW t, t = [s EXCEPT !.buffer_index = @ + 1, !.buffer_position = 0]
    PROVE  t \in Splits /\ UserInv("fill", t, n)
  <1>1. Written(s) /\ Apart(s, n) /\ InChunk(s, n)
    BY DEF UserInv
  <1>2. /\ t.sizes = s.sizes /\ t.buffer_index = s.buffer_index + 1
        /\ t.buffer_position = 0 /\ t.pieces = s.pieces
        /\ t.allocation_position = s.allocation_position
        /\ t \in Splits
    <2> DEFINE j == s.buffer_index + 1
    <2>1. j \in Nat /\ t = [s EXCEPT !.buffer_index = j, !.buffer_position = 0]
      BY SplitFields
    <2> HIDE DEF j
    <2>2. /\ t.sizes = s.sizes /\ t.buffer_index = j
          /\ t.buffer_position = 0 /\ t.pieces = s.pieces
          /\ t.allocation_position = s.allocation_position
      BY <2>1 DEF Splits
    <2>3. t \in Splits
      <3>1. s = [sizes |-> s.sizes, buffer_index |-> s.buffer_index,
                 buffer_position |-> s.buffer_position,
                 allocation_position |-> s.allocation_position,
                 pieces |-> s.pieces]
        BY DEF Splits
      <3>2. t = [sizes |-> s.sizes, buffer_index |-> j, buffer_position |-> 0,
                 allocation_position |-> s.allocation_position,
                 pieces |-> s.pieces]
        BY <2>1, <3>1
      <3>3. QED
        BY <2>1, <3>2, SplitFields DEF Splits
    <2>4. QED
      BY <2>2, <2>3 DEF j
  <1>3. Apart(t, n) /\ InChunk(t, n)
    BY <1>1, <1>2 DEF Apart, InChunk
  <1>4. Written(t)
    <2> DEFINE i == s.buffer_index
               m == Len(s.sizes)
    <2>1. /\ i \in 1 .. m /\ m \in Nat
          /\ s.buffer_position = s.sizes[i]
          /\ \A b \in 1 .. m : s.sizes[b] \in Nat
      <3>1. i \in 1 .. m + 1 /\ s.buffer_position <= s.sizes[i]
        BY <1>1 DEF Written
      <3>2. QED
        BY <3>1, SplitFields
    <2>2. ASSUME NEW b \in 1 .. m
          PROVE  /\ b < i + 1 => Total(PieceBytes(b), s.pieces) = s.sizes[b]
                 /\ b >= i + 1 => Total(PieceBytes(b), s.pieces) = 0
      <3>1. /\ b < i => Total(PieceBytes(b), s.pieces) = s.sizes[b]
            /\ b = i => Total(PieceBytes(b), s.pieces) = s.sizes[b]
            /\ b > i => Total(PieceBytes(b), s.pieces) = 0
        BY <1>1, <2>1 DEF Written
      <3> HIDE DEF i, m
      <3>2. QED
        BY <2>1, <3>1
    <2>3. i + 1 \in 1 .. m + 1
      BY <2>1
    <2> HIDE DEF i, m
    <2>4. i + 1 <= m => 0 <= s.sizes[i + 1]
      BY <2>1
    <2>5. /\ t.buffer_index = i + 1 /\ Len(t.sizes) = m
          /\ t.sizes = s.sizes /\ t.pieces = s.pieces /\ t.buffer_position = 0
      BY <1>2 DEF i, m
    <2>6. ASSUME NEW b \in 1 .. m
          PROVE  /\ b < i + 1 => Total(PieceBytes(b), s.pieces) = s.sizes[b]
                 /\ b = i + 1 => Total(PieceBytes(b), s.pieces) = 0
                 /\ b > i + 1 => Total(PieceBytes(b), s.pieces) = 0
      <3>1. b \in Int /\ i + 1 \in Int
        BY <2>1
      <3>2. QED
        BY <2>2, <3>1
    <2>7. QED
      BY <2>3, <2>4, <2>5, <2>6 DEF Written
  <1>5. QED
    BY <1>2, <1>3, <1>4 DEF UserInv


\* A piece is written behind the others of its chunk, and it fits.
LEMMA PieceWrites ==
    ASSUME NEW s \in Splits, NEW n \in Nat, UserInv("fill", s, n),
           s.buffer_index <= Len(s.sizes),
           s.buffer_position < s.sizes[s.buffer_index],
           s.allocation_position # buffer_size,
           NEW z, z = Min({s.sizes[s.buffer_index] - s.buffer_position,
                           buffer_size - s.allocation_position}),
           NEW p, p = [buffer |-> s.buffer_index, chunk_index |-> n,
                       offset |-> s.allocation_position, size |-> z],
           NEW t, t = [s EXCEPT !.buffer_position = @ + z,
                                !.allocation_position = @ + z,
                                !.pieces = Append(@, p)]
    PROVE  t \in Splits /\ UserInv("fill", t, n)
  <1> DEFINE i == s.buffer_index
             m == Len(s.sizes)
             k == Len(s.pieces)
             bp == s.buffer_position
             ap == s.allocation_position
  <1>1. Written(s) /\ Apart(s, n) /\ InChunk(s, n)
    BY DEF UserInv
  <1>2. /\ i \in 1 .. m /\ m \in Nat /\ k \in Nat
        /\ bp \in Nat /\ ap \in Nat /\ buffer_size \in Nat
        /\ s.sizes[i] \in Nat
        /\ ap < buffer_size /\ bp < s.sizes[i]
        /\ s.pieces \in Seq(Pieces) /\ s.sizes \in Seq(Nat)
    <2>1. i \in 1 .. m + 1
      BY <1>1 DEF Written
    <2>2. ap <= buffer_size
      BY <1>1 DEF InChunk
    <2>3. QED
      BY <2>1, <2>2, SplitFields, PoolAssumption
  <1>3. /\ z \in Nat /\ z > 0
        /\ bp + z <= s.sizes[i]
        /\ ap + z <= buffer_size
    <2> DEFINE q == s.sizes[i]
               x == q - bp
               y == buffer_size - ap
    <2>0. /\ q \in Nat /\ bp \in Nat /\ ap \in Nat /\ buffer_size \in Nat
          /\ ap < buffer_size /\ bp < q
      BY <1>2
    <2>2. z = Min({x, y})
      OBVIOUS
    <2> HIDE DEF q, bp, ap
    <2>1. x \in Int /\ y \in Int /\ x > 0 /\ y > 0
      BY <2>0
    <2> HIDE DEF x, y
    <2>3. z \in {x, y} /\ z <= x /\ z <= y
      BY <2>1, <2>2, MinOfTwo
    <2>4. z \in Int /\ z > 0
      BY <2>1, <2>3
    <2>5. bp + z <= q /\ ap + z <= buffer_size
      BY <2>0, <2>3, <2>4 DEF x, y
    <2>6. QED
      BY <2>4, <2>5 DEF q
  <1>4. /\ p \in Pieces
        /\ p.buffer = i /\ p.chunk_index = n /\ p.offset = ap /\ p.size = z
    BY <1>2, <1>3 DEF Pieces
  <1> DEFINE ps == Append(s.pieces, p)
  <1>5. /\ ps \in Seq(Pieces)
        /\ Len(ps) = k + 1
        /\ \A j \in 1 .. k : ps[j] = s.pieces[j]
        /\ ps[k + 1] = p
    BY <1>2, <1>4, AppendProperties
  <1>6. t = [sizes |-> s.sizes, buffer_index |-> i,
             buffer_position |-> bp + z, allocation_position |-> ap + z,
             pieces |-> ps]
    <2>1. s = [sizes |-> s.sizes, buffer_index |-> i, buffer_position |-> bp,
               allocation_position |-> ap, pieces |-> s.pieces]
      BY DEF Splits
    <2>2. QED
      BY <2>1
  <1>7. /\ t.sizes = s.sizes /\ t.buffer_index = i
        /\ t.buffer_position = bp + z /\ t.allocation_position = ap + z
        /\ t.pieces = ps
    BY <1>6
  <1> HIDE DEF ps
  <1>8. t \in Splits
    <2>1. i \in Nat /\ bp + z \in Nat /\ ap + z \in Nat
      <3>1. i \in Nat
        BY SplitFields
      <3>2. bp \in Nat /\ ap \in Nat /\ z \in Nat
        BY <1>2, <1>3
      <3> HIDE DEF i, bp, ap
      <3>3. QED
        BY <3>1, <3>2
    <2>2. QED
      BY <1>2, <1>5, <1>6, <2>1 DEF Splits
  <1>9. Written(t)
    <2>1. ASSUME NEW b \in 1 .. m
          PROVE  /\ b # i => Total(PieceBytes(b), ps)
                               = Total(PieceBytes(b), s.pieces)
                 /\ b = i => Total(PieceBytes(b), ps) = bp + z
      <3>1. /\ Total(PieceBytes(b), s.pieces) \in Nat
            /\ Total(PieceBytes(b), ps)
                 = Total(PieceBytes(b), s.pieces) + PieceBytes(b)[p]
        BY <1>2, <1>4, PieceBytesType, TotalAppend DEF ps
      <3>2. PieceBytes(b)[p] = IF i = b THEN z ELSE 0
        BY <1>4 DEF PieceBytes
      <3>3. b = i => Total(PieceBytes(b), s.pieces) = bp
        BY <1>1 DEF Written
      <3> HIDE DEF i, m, bp
      <3>4. QED
        BY <1>2, <1>3, <3>1, <3>2, <3>3
    <2>2. ASSUME NEW b \in 1 .. m
          PROVE  /\ b < i => Total(PieceBytes(b), s.pieces) = s.sizes[b]
                 /\ b > i => Total(PieceBytes(b), s.pieces) = 0
      BY <1>1 DEF Written
    <2>3. ASSUME NEW b \in 1 .. m
          PROVE  /\ b < i => Total(PieceBytes(b), ps) = s.sizes[b]
                 /\ b = i => Total(PieceBytes(b), ps) = bp + z
                 /\ b > i => Total(PieceBytes(b), ps) = 0
      <3> HIDE DEF i, m, bp
      <3>1. b < i \/ b > i => b # i
        BY <1>2
      <3>2. QED
        BY <2>1, <2>2, <3>1
    <2>4. i \in 1 .. m + 1
      BY <1>2
    <2>5. /\ Len(t.sizes) = m /\ t.sizes = s.sizes /\ t.buffer_index = i
          /\ t.buffer_position = bp + z /\ t.pieces = ps
      BY <1>7
    <2> HIDE DEF i, m, bp
    <2>6. QED
      BY <1>3, <2>3, <2>4, <2>5 DEF Written
  <1>10. ASSUME NEW j \in 1 .. k, s.pieces[j].chunk_index = n
         PROVE  s.pieces[j].offset + s.pieces[j].size <= ap
    BY <1>1, <1>10 DEF InChunk
  <1>11. Apart(t, n)
    <2> SUFFICES ASSUME NEW j \in 1 .. k + 1
                 PROVE  /\ ps[j].size > 0
                        /\ ps[j].offset + ps[j].size <= buffer_size
                        /\ ps[j].chunk_index \in 1 .. n
                        /\ \A l \in 1 .. j - 1 : ~Overlap(ps[j], ps[l])
      BY <1>5, <1>7 DEF Apart
    <2>1. CASE j \in 1 .. k
      <3>1. /\ s.pieces[j].size > 0
            /\ s.pieces[j].offset + s.pieces[j].size <= buffer_size
            /\ s.pieces[j].chunk_index \in 1 .. n
            /\ \A l \in 1 .. j - 1 : ~Overlap(s.pieces[j], s.pieces[l])
        BY <1>1, <2>1 DEF Apart
      <3> HIDE DEF k
      <3>2. \A l \in 1 .. j - 1 : ps[l] = s.pieces[l]
        BY <1>2, <1>5, <2>1
      <3>3. ps[j] = s.pieces[j]
        BY <1>5, <2>1
      <3>4. QED
        BY <3>1, <3>2, <3>3
    <2>2. CASE j = k + 1
      <3>1. ps[j] = p
        BY <1>5, <2>2
      <3>2. n \in 1 .. n
        BY <1>1 DEF InChunk
      <3>3. ASSUME NEW l \in 1 .. j - 1, Overlap(p, ps[l]) PROVE FALSE
        <4>1. l \in 1 .. k /\ ps[l] = s.pieces[l]
          BY <1>2, <1>5, <2>2
        <4>2. /\ s.pieces[l].chunk_index = n
              /\ ap < s.pieces[l].offset + s.pieces[l].size
          BY <1>4, <3>3, <4>1 DEF Overlap
        <4>3. s.pieces[l].offset + s.pieces[l].size <= ap
          BY <1>10, <4>1, <4>2
        <4>4. s.pieces[l].offset \in Nat /\ s.pieces[l].size \in Nat
          BY <4>1, SplitFields
        <4> DEFINE o == s.pieces[l].offset
                   y == s.pieces[l].size
        <4>5. ap < o + y /\ o + y <= ap
          BY <4>2, <4>3
        <4>6. o \in Nat /\ y \in Nat
          BY <4>4
        <4>7. ap \in Nat
          BY <1>2
        <4> HIDE DEF ap, o, y
        <4>8. QED
          BY <4>5, <4>6, <4>7
      <3>4. QED
        BY <1>3, <1>4, <3>1, <3>2, <3>3
    <2>3. j \in 1 .. k \/ j = k + 1
      <3> HIDE DEF k
      <3>1. QED
        BY <1>2
    <2>4. QED
      BY <2>1, <2>2, <2>3
  <1>12. InChunk(t, n)
    <2>1. ASSUME NEW j \in 1 .. k + 1, ps[j].chunk_index = n
          PROVE  ps[j].offset + ps[j].size <= ap + z
      <3>1. CASE j \in 1 .. k
        <4>1. ps[j] = s.pieces[j]
          BY <1>5, <3>1
        <4>2. s.pieces[j].offset + s.pieces[j].size <= ap
          BY <1>10, <2>1, <3>1, <4>1
        <4>3. s.pieces[j].offset \in Nat /\ s.pieces[j].size \in Nat
          BY <3>1, SplitFields
        <4> DEFINE o == s.pieces[j].offset
                   e == s.pieces[j].size
        <4>4. o \in Nat /\ e \in Nat /\ o + e <= ap
          BY <4>2, <4>3
        <4> HIDE DEF ap, o, e
        <4>5. o + e <= ap + z
          BY <1>2, <1>3, <4>4
        <4>6. QED
          BY <4>1, <4>5 DEF o, e
      <3>2. CASE j = k + 1
        <4>1. ps[j] = p
          BY <1>5, <3>2
        <4> HIDE DEF ap
        <4>2. QED
          BY <1>2, <1>3, <1>4, <4>1
      <3>3. QED
        BY <1>2, <3>1, <3>2
    <2>2. n > 0
      BY <1>1 DEF InChunk
    <2>3. QED
      BY <1>3, <1>5, <1>7, <2>1, <2>2 DEF InChunk
  <1>13. QED
    BY <1>8, <1>9, <1>11, <1>12 DEF UserInv


\* Only thread u moves: what the others have written stays.
LEMMA OneWrites ==
    ASSUME PoolInv, SplitInv, NEW u \in Users,
           NEW p \in {"idle", "get", "fill", "table", "destroy"},
           NEW s \in Splits,
           pc' = [pc EXCEPT ![u] = p], split' = [split EXCEPT ![u] = s],
           \A v \in Users : v # u => hold'[v] = hold[v],
           UserInv(p, s, Len(hold'[u]))
    PROVE  SplitInv'
  <1>1. /\ split \in [Users -> Splits]
        /\ pc \in [Users -> {"idle", "get", "fill", "table", "destroy"}]
        /\ \A v \in Users : UserInv(pc[v], split[v], Len(hold[v]))
    BY DEF SplitInv, PoolInv, UserTypes
  <1>2. /\ split' \in [Users -> Splits]
        /\ split'[u] = s /\ pc'[u] = p
        /\ \A v \in Users : v # u => split'[v] = split[v] /\ pc'[v] = pc[v]
    BY <1>1
  <1>3. ASSUME NEW v \in Users
        PROVE  UserInv(pc'[v], split'[v], Len(hold'[v]))
    <2>1. CASE v = u
      BY <1>2, <2>1
    <2>2. CASE v # u
      <3>1. /\ pc'[v] = pc[v] /\ split'[v] = split[v]
            /\ hold'[v] = hold[v]
        BY <1>2, <2>2
      <3>2. QED
        BY <1>1, <3>1
    <2>3. QED
      BY <2>1, <2>2
  <1>4. QED
    BY <1>2, <1>3 DEF SplitInv

\* A thread that is idle, or whose table is being destroyed, owes nothing.
LEMMA NothingOwed ==
    ASSUME NEW n, NEW s
    PROVE  UserInv("destroy", s, n) /\ UserInv("idle", NoSplit, n)
BY DEF UserInv

\* get_chunk hands out a chunk.
LEMMA GetsWrites ==
    ASSUME PoolInv, SplitInv, NEW u \in Users, NEW c \in Chunks,
           pc[u] = "get", gets(u, c)
    PROVE  SplitInv'
  <1>1. /\ hold \in [Users -> Seq(Chunks)]
        /\ split \in [Users -> Splits]
        /\ UserInv(pc[u], split[u], Len(hold[u]))
    BY DEF SplitInv, PoolInv, UserTypes
  <1>2. /\ hold' = [hold EXCEPT ![u] = Append(hold[u], c)]
        /\ pc' = [pc EXCEPT ![u] = "fill"]
        /\ split' = split
    BY DEF gets
  <1>3. /\ Len(hold'[u]) = Len(hold[u]) + 1
        /\ Len(hold[u]) \in Nat
        /\ \A v \in Users : v # u => hold'[v] = hold[v]
    BY <1>1, <1>2, AppendProperties
  <1>4. split' = [split EXCEPT ![u] = split[u]] /\ split[u] \in Splits
    BY <1>1, <1>2
  <1>5. UserInv("fill", split[u], Len(hold[u]) + 1)
    BY <1>1, <1>3, <1>4, GotWrites
  <1>6. UserInv("fill", split[u], Len(hold'[u]))
    BY <1>3, <1>5
  <1>7. QED
    BY <1>2, <1>3, <1>4, <1>6, OneWrites

\* Each turn of the loop of convert_gpu_buffers_to_chunks.
LEMMA ConvertWrites ==
    ASSUME PoolInv, SplitInv, NEW u \in Users, Convert(u)
    PROVE  SplitInv'
  <1> DEFINE s == split[u]
             n == Len(hold[u])
  <1>1. /\ split \in [Users -> Splits]
        /\ pc \in [Users -> {"idle", "get", "fill", "table", "destroy"}]
        /\ hold \in [Users -> Seq(Chunks)]
        /\ s \in Splits
        /\ n \in Nat
        /\ UserInv(pc[u], s, n)
    BY DEF SplitInv, PoolInv, UserTypes
  <1>2. hold' = hold /\ Len(hold'[u]) = n
    BY DEF Convert, convert_begin, next_chunk, next_piece, next_buffer,
           convert_end
  <1>3. pc[u] = "fill" => pc = [pc EXCEPT ![u] = "fill"]
    BY <1>1
  <1>4. CASE convert_begin(u)
    <2>1. pc[u] = "idle" /\ pc' = [pc EXCEPT ![u] = "get"]
      BY <1>4 DEF convert_begin
    <2>2. PICK z \in Tables : split' = [split EXCEPT ![u].sizes = z]
      BY <1>4 DEF convert_begin
    <2>3. s = NoSplit /\ n = 0
      <3>1. hold[u] = <<>>
        BY <2>1 DEF PoolInv, IdleInv
      <3>2. QED
        BY <1>1, <2>1, <3>1 DEF UserInv
    <2> DEFINE t == [NoSplit EXCEPT !.sizes = z]
    <2>4. split' = [split EXCEPT ![u] = t]
      BY <1>1, <2>2, <2>3
    <2>5. z \in Seq(Nat)
      BY PoolAssumption
    <2>6. t \in Splits /\ UserInv("get", t, 0)
      BY <2>5, BeginWrites
    <2> HIDE DEF t
    <2>7. QED
      BY <1>2, <2>1, <2>3, <2>4, <2>6, OneWrites
  <1>5. CASE next_chunk(u)
    <2> DEFINE t == [s EXCEPT !.allocation_position = 0]
    <2>1. /\ pc[u] = "fill" /\ pc' = [pc EXCEPT ![u] = "get"]
          /\ split' = [split EXCEPT ![u] = t]
      BY <1>1, <1>5 DEF next_chunk
    <2>2. t \in Splits /\ UserInv("get", t, n)
      BY <1>1, <2>1, ChunkWrites
    <2> HIDE DEF t
    <2>3. QED
      BY <1>2, <2>1, <2>2, OneWrites
  <1>6. CASE next_piece(u)
    <2> DEFINE z == Min({s.sizes[s.buffer_index] - s.buffer_position,
                         buffer_size - s.allocation_position})
               p == [buffer |-> s.buffer_index, chunk_index |-> n,
                     offset |-> s.allocation_position, size |-> z]
               t == [s EXCEPT !.buffer_position = @ + z,
                              !.allocation_position = @ + z,
                              !.pieces = Append(@, p)]
    <2>1. /\ pc[u] = "fill" /\ pc' = pc
          /\ s.buffer_index <= Len(s.sizes)
          /\ s.buffer_position < s.sizes[s.buffer_index]
          /\ s.allocation_position # buffer_size
      BY <1>6 DEF next_piece, MoreBuffers, Current
    <2>2. piece_size(u) = z
      BY DEF piece_size, Current
    <2>3. split' = [split EXCEPT ![u] = t]
      <3> HIDE DEF z
      <3>1. split' = [split EXCEPT
                 ![u].buffer_position = @ + z,
                 ![u].allocation_position = @ + z,
                 ![u].pieces = Append(@, p)]
        BY <1>6, <2>2 DEF next_piece
      <3> HIDE DEF p
      <3>2. QED
        BY <1>1, <3>1
    <2>4. t \in Splits /\ UserInv("fill", t, n)
      BY <1>1, <2>1, PieceWrites
    <2> HIDE DEF t
    <2>5. QED
      BY <1>2, <1>3, <2>1, <2>3, <2>4, OneWrites
  <1>7. CASE next_buffer(u)
    <2> DEFINE t == [s EXCEPT !.buffer_index = @ + 1, !.buffer_position = 0]
    <2>1. /\ pc[u] = "fill" /\ pc' = pc
          /\ s.buffer_index <= Len(s.sizes)
          /\ s.buffer_position >= s.sizes[s.buffer_index]
          /\ split' = [split EXCEPT ![u] = t]
      BY <1>1, <1>7 DEF next_buffer, MoreBuffers, Current
    <2>2. t \in Splits /\ UserInv("fill", t, n)
      BY <1>1, <2>1, BufferWrites
    <2> HIDE DEF t
    <2>3. QED
      BY <1>2, <1>3, <2>1, <2>2, OneWrites
  <1>8. CASE convert_end(u)
    <2>1. /\ pc[u] = "fill" /\ pc' = [pc EXCEPT ![u] = "table"]
          /\ ~(s.buffer_index <= Len(s.sizes))
          /\ split' = split
      BY <1>8 DEF convert_end, MoreBuffers
    <2>2. split' = [split EXCEPT ![u] = s]
      BY <1>1, <2>1
    <2>3. s.buffer_index > Len(s.sizes)
      BY <1>1, <2>1, SplitFields
    <2>4. UserInv("table", s, n)
      BY <1>1, <2>1, <2>3 DEF UserInv
    <2>5. QED
      BY <1>1, <1>2, <2>1, <2>2, <2>4, OneWrites
  <1>9. QED
    BY <1>4, <1>5, <1>6, <1>7, <1>8 DEF Convert

\* Nothing is written in the beginning.
LEMMA SplitInit == Init => SplitInv
  <1> SUFFICES ASSUME Init PROVE SplitInv
    OBVIOUS
  <1>1. /\ pc = [u \in Users |-> "idle"]
        /\ split = [u \in Users |-> NoSplit]
    BY DEF Init
  <1>2. QED
    BY <1>1, NoSplitType, NothingOwed DEF SplitInv

\* Every step of every thread keeps what has been written.
LEMMA SplitNext == PoolInv /\ SplitInv /\ [Next]_vars => SplitInv'
  <1> SUFFICES ASSUME PoolInv, SplitInv, [Next]_vars PROVE SplitInv'
    OBVIOUS
  <1>0. /\ split \in [Users -> Splits]
        /\ hold \in [Users -> Seq(Chunks)]
        /\ allocations \in Seq(Ids)
        /\ free \in [Ids -> SUBSET Nat]
    BY DEF SplitInv, PoolInv, UserTypes, PoolTypes
  <1>1. ASSUME NEW u \in Users, get_free(u) PROVE SplitInv'
    <2>1. PICK i \in DOMAIN allocations : \E n \in free[allocations[i]] :
              gets(u, [allocation |-> allocations[i], number |-> n])
      BY <1>1 DEF get_free
    <2>2. PICK n \in free[allocations[i]] :
              gets(u, [allocation |-> allocations[i], number |-> n])
      BY <2>1
    <2>3. [allocation |-> allocations[i], number |-> n] \in Chunks
      BY <1>0 DEF Chunks
    <2>4. pc[u] = "get"
      BY <1>1 DEF get_free
    <2>5. QED
      BY <2>2, <2>3, <2>4, GetsWrites
  <1>2. ASSUME NEW u \in Users, get_grown(u) PROVE SplitInv'
    <2>1. num_new_buffers \in Nat
      BY GrowthIsNat DEF PoolInv
    <2>2. PICK a \in Ids, n \in 0 .. num_new_buffers - 1 :
              gets(u, [allocation |-> a, number |-> n])
      BY <1>2 DEF get_grown
    <2>3. [allocation |-> a, number |-> n] \in Chunks
      BY <2>1 DEF Chunks
    <2>4. pc[u] = "get"
      BY <1>2 DEF get_grown
    <2>5. QED
      BY <2>2, <2>3, <2>4, GetsWrites
  <1>3. ASSUME NEW u \in Users, get_throws(u) PROVE SplitInv'
    <2>1. /\ pc' = [pc EXCEPT ![u] = "idle"]
          /\ split' = [split EXCEPT ![u] = NoSplit]
          /\ \A v \in Users : v # u => hold'[v] = hold[v]
      BY <1>0, <1>3 DEF get_throws
    <2>2. QED
      BY <2>1, NoSplitType, NothingOwed, OneWrites
  <1>4. ASSUME NEW u \in Users, free_chunk(u) PROVE SplitInv'
    <2>1. /\ pc' = [pc EXCEPT ![u] = "destroy"]
          /\ split' = split
          /\ \A v \in Users : v # u => hold'[v] = hold[v]
      BY <1>0, <1>4 DEF free_chunk
    <2>2. split' = [split EXCEPT ![u] = split[u]] /\ split[u] \in Splits
      BY <1>0, <2>1
    <2>3. QED
      BY <2>1, <2>2, NothingOwed, OneWrites
  <1>5. ASSUME NEW u \in Users, destroyed(u) PROVE SplitInv'
    <2>1. /\ pc' = [pc EXCEPT ![u] = "idle"]
          /\ split' = [split EXCEPT ![u] = NoSplit]
          /\ hold' = hold
      BY <1>5 DEF destroyed
    <2>2. QED
      BY <2>1, NoSplitType, NothingOwed, OneWrites
  <1>6. ASSUME NEW u \in Users, Convert(u) PROVE SplitInv'
    BY <1>6, ConvertWrites
  <1>7. CASE free_all
    BY <1>7 DEF free_all, SplitInv
  <1>8. CASE UNCHANGED vars
    BY <1>8 DEF vars, SplitInv
  <1>9. QED
    BY <1>1, <1>2, <1>3, <1>4, <1>5, <1>6, <1>7, <1>8 DEF Next

\* The account of what is written is right in every state.
LEMMA SplitInvariant == Spec => [](PoolInv /\ SplitInv)
  <1>1. QED
    BY PoolInit, PoolNext, SplitInit, SplitNext, PTL DEF Spec

\* Whatever the sizes of the buffers and of the chunks, the table that comes
\* out of convert_gpu_buffers_to_chunks has every byte of its buffers, in pieces
\* that lie inside chunks it owns and not over one another.
THEOREM SplitsAreWhole == Spec => []SplitIsWhole
  <1>1. PoolInv /\ SplitInv => SplitIsWhole
    <2> SUFFICES ASSUME PoolInv, SplitInv, NEW u \in Users, pc[u] = "table",
                        NEW s, s = split[u]
                 PROVE  /\ \A b \in DOMAIN s.sizes :
                              Total(PieceBytes(b), s.pieces) = s.sizes[b]
                        /\ \A k \in DOMAIN s.pieces :
                              /\ s.pieces[k].size > 0
                              /\ s.pieces[k].offset + s.pieces[k].size
                                   <= buffer_size
                              /\ s.pieces[k].chunk_index \in DOMAIN hold[u]
                              /\ \A l \in 1 .. k - 1 :
                                    ~Overlap(s.pieces[k], s.pieces[l])
      BY DEF SplitIsWhole
    <2>1. /\ s \in Splits
          /\ UserInv("table", s, Len(hold[u]))
          /\ hold[u] \in Seq(Chunks)
      BY DEF SplitInv, PoolInv, UserTypes
    <2>2. /\ Written(s) /\ Apart(s, Len(hold[u]))
          /\ s.buffer_index > Len(s.sizes)
      BY <2>1 DEF UserInv
    <2>3. /\ DOMAIN s.sizes = 1 .. Len(s.sizes)
          /\ DOMAIN s.pieces = 1 .. Len(s.pieces)
          /\ DOMAIN hold[u] = 1 .. Len(hold[u])
          /\ Len(s.sizes) \in Nat /\ s.buffer_index \in Nat
      BY <2>1, SplitFields
    <2>4. ASSUME NEW b \in 1 .. Len(s.sizes)
          PROVE  Total(PieceBytes(b), s.pieces) = s.sizes[b]
      <3>1. b < s.buffer_index
        BY <2>2, <2>3
      <3>2. QED
        BY <2>2, <3>1 DEF Written
    <2>5. QED
      BY <2>2, <2>3, <2>4 DEF Apart
  <1>2. QED
    BY <1>1, SplitInvariant, PTL

-----------------------------------------------------------------------------
(* The types, of which the signs of index and of the counters take more    *)
(* than a look at the assignments.                                         *)

NumberInv ==
    /\ allocator \in {"host", "pinned"}
    /\ index \in [Ids -> Nat]
    /\ buffer_counter \in 0 .. MaxBuffers

\* The constructor.
LEMMA NumberInit == Init => NumberInv
BY PoolAssumption DEF Init, NumberInv

\* free_chunk lowers the index of the allocations behind another only.
LEMMA RenumberedNat ==
    ASSUME PoolInv, NumberInv, NEW i \in Nat, i > 1
    PROVE  Renumbered(i) \in [Ids -> Nat]
  <1> SUFFICES ASSUME NEW a \in Ids PROVE Renumbered(i)[a] \in Nat
    BY DEF Renumbered
  <1>1. index[a] \in Nat
    BY DEF NumberInv
  <1>2. CASE \E j \in DOMAIN allocations : j > i /\ allocations[j] = a
    <2>1. PICK j \in DOMAIN allocations : j > i /\ allocations[j] = a
      BY <1>2
    <2>2. index[a] = j - 1
      BY <2>1 DEF PoolInv, VectorInv
    <2>3. j \in Nat
      BY DEF PoolInv, PoolTypes
    <2>4. index[a] - 1 \in Nat
      BY <2>1, <2>2, <2>3
    <2>5. QED
      BY <1>2, <2>4 DEF Renumbered
  <1>3. CASE ~ \E j \in DOMAIN allocations : j > i /\ allocations[j] = a
    BY <1>1, <1>3 DEF Renumbered
  <1>4. QED
    BY <1>2, <1>3

\* grow numbers the new allocation with its place.
LEMMA GrowNumbers ==
    ASSUME PoolInv, NumberInv, NEW a \in Ids, NEW n \in Nat, NEW d,
           grow(a, n, d), allocator' = allocator
    PROVE  NumberInv'
  <1>1. allocations \in Seq(Ids) /\ Len(allocations) \in Nat
    BY DEF PoolInv, PoolTypes
  <1>2. /\ index' = [index EXCEPT ![a] = Len(allocations)]
        /\ buffer_counter' = buffer_counter + n
        /\ buffer_counter + n <= MaxBuffers
    BY DEF grow
  <1>3. index' \in [Ids -> Nat]
    BY <1>1, <1>2 DEF NumberInv
  <1>4. buffer_counter' \in 0 .. MaxBuffers
    BY <1>2, PoolAssumption DEF NumberInv
  <1>5. QED
    BY <1>3, <1>4 DEF NumberInv

\* Every operation keeps the numbers.
LEMMA NumberNext == PoolInv /\ NumberInv /\ [Next]_vars => NumberInv'
  <1> SUFFICES ASSUME PoolInv, NumberInv, [Next]_vars PROVE NumberInv'
    OBVIOUS
  <1>1. ASSUME NEW u \in Users, get_free(u) PROVE NumberInv'
    BY <1>1 DEF get_free, gets, config, NumberInv
  <1>2. ASSUME NEW u \in Users, get_grown(u) PROVE NumberInv'
    <2>1. num_new_buffers \in Nat
      BY GrowthIsNat DEF PoolInv
    <2>2. PICK a \in Ids, d \in Allocated, n \in 0 .. num_new_buffers - 1 :
              /\ grow(a, num_new_buffers, d)
              /\ gets(u, [allocation |-> a, number |-> n])
      BY <1>2 DEF get_grown
    <2>3. allocator' = allocator
      BY <2>2 DEF gets, config
    <2>4. QED
      BY <2>1, <2>2, <2>3, GrowNumbers
  <1>3. ASSUME NEW u \in Users, get_throws(u) PROVE NumberInv'
    <2>1. PICK a \in Ids, d \in {"live", "null"} : grow(a, 0, d)
      BY <1>3 DEF get_throws
    <2>2. allocator' = allocator
      BY <1>3 DEF get_throws, config
    <2>3. QED
      BY <2>1, <2>2, GrowNumbers
  <1>4. ASSUME NEW u \in Users, free_chunk(u) PROVE NumberInv'
    <2> DEFINE c == Head(hold[u])
               i == index[c.allocation] + 1
               f == [free EXCEPT ![c.allocation] = @ \cup {c.number}]
    <2>1. /\ allocator' = allocator
          /\ return_chunk(c)
      BY <1>4 DEF free_chunk, config
    <2>2. /\ buffer_counter' = buffer_counter
          /\ \/ Emptied(i, f) /\ index' = Renumbered(i)
             \/ index' = index
      BY <2>1, Zenon DEF return_chunk
    <2>3. i \in Nat
      <3>1. hold[u] # <<>> /\ hold[u] \in Seq(Chunks)
        BY <1>4 DEF free_chunk, PoolInv, UserTypes
      <3>2. c \in Chunks
        BY <3>1
      <3>3. c.allocation \in Ids
        BY <3>2 DEF Chunks
      <3>4. QED
        BY <3>3 DEF NumberInv
    <2>4. Emptied(i, f) => i > 1
      BY DEF Emptied
    <2> HIDE DEF c, i, f
    <2>5. index' \in [Ids -> Nat]
      BY <2>2, <2>3, <2>4, RenumberedNat DEF NumberInv
    <2>6. QED
      BY <2>1, <2>2, <2>5 DEF NumberInv
  <1>5. ASSUME NEW u \in Users, destroyed(u) PROVE NumberInv'
    BY <1>5 DEF destroyed, config, poolVars, NumberInv
  <1>6. ASSUME NEW u \in Users, Convert(u) PROVE NumberInv'
    BY <1>6 DEF Convert, convert_begin, next_chunk, next_piece, next_buffer,
                convert_end, config, poolVars, NumberInv
  <1>7. CASE free_all
    BY <1>7, PoolAssumption DEF free_all, config, NumberInv
  <1>8. CASE UNCHANGED vars
    BY <1>8 DEF vars, config, poolVars, NumberInv
  <1>9. QED
    BY <1>1, <1>2, <1>3, <1>4, <1>5, <1>6, <1>7, <1>8 DEF Next

\* The variables of the pool and of its users have their types: no index and no
\* counter of unsigned type goes below zero in free_chunk.
THEOREM TypeCorrect == Spec => []TypeOK
  <1>1. PoolInv /\ CountInv /\ SplitInv /\ NumberInv => TypeOK
    <2> SUFFICES ASSUME PoolInv, CountInv, SplitInv, NumberInv PROVE TypeOK
      OBVIOUS
    <2>1. allocation_counter \in Nat
      BY FS_CardinalityType DEF CountInv
    <2>2. leaked \subseteq Chunks
      BY DEF CountInv, LeakedInv
    <2>3. QED
      BY <2>1, <2>2 DEF PoolInv, PoolTypes, UserTypes, SplitInv, NumberInv,
                        TypeOK
  <1>2. QED
    BY <1>1, CountInvariant, SplitInvariant, PoolInit, PoolNext, NumberInit,
       NumberNext, PTL DEF Spec
=============================================================================
