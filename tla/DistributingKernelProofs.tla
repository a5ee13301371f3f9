----------------------- MODULE DistributingKernelProofs -----------------------
(***************************************************************************)
(* Machine-checked proofs about DistributingKernel, for any number of      *)
(* nodes, batches, partitions, retries, exceptions and losses.             *)
(*                                                                         *)
(* A node's counts are the numbers of tables it sent, since every table it *)
(* adds is a new one; what a node has summed up is the number of tables    *)
(* that the nodes it has heard of sent it, which those nodes, being        *)
(* through with their tasks, cannot increase any more.  So no wait finds   *)
(* more tables than were announced, and one that finds as many finds all.  *)
(* All this holds as long as no task threw: the wait for the tasks then    *)
(* means that they are done (Quiet).                                       *)
(***************************************************************************)
EXTENDS DistributingKernel, QueueTheorems, FiniteSetTheorems

-----------------------------------------------------------------------------
(* Types. *)

Sides == {"none", "left", "right"}
SendRecords ==
    [at : Nat, to : SUBSET Nodes, tracker : Trackers, rows : BOOLEAN,
     always : BOOLEAN]
AttemptTables ==
    UNION {[DOMAIN b -> 0 .. attempts_limit] : b \in Seq(Batches)}

\* What is chosen at the start, and where each node stands.
PlanTypes ==
    /\ kind \in Kinds
    /\ input \in Inputs[kind]
    /\ estimate \in [Nodes -> [left : Int, right : Int]]
    /\ scatter_side \in [Nodes -> Sides]
    /\ pc \in [Nodes -> Pcs]
    /\ \A n \in Nodes : pc[n] \in {"estimate", "decide"} =>
           /\ kind = "join" /\ join_type # "outer"
           /\ estimate[n] \in Estimates

\* The tasks of each node.
TaskTypes ==
    /\ todo \in [Nodes -> Seq(Nat)]
    /\ cur \in [Nodes -> Nat]
    /\ sends \in [Nodes -> SUBSET SendRecords]
    /\ attempts \in [Nodes -> AttemptTables]
    /\ retries \in Nat
    /\ failed \subseteq Nodes
    /\ \A n \in Nodes :
        /\ ToSet(todo[n]) \subseteq DOMAIN input[n]
        /\ cur[n] \in 0 .. Len(input[n])
        /\ attempts[n] \in [DOMAIN input[n] -> 0 .. attempts_limit]

\* The caches and the counts.
CountTypes ==
    /\ next_id \in [Nodes -> Nat]
    /\ node_count \in [Nodes -> [Trackers -> [Nodes -> Nat]]]
    /\ set_empty_part \in [Nodes -> BOOLEAN]
    /\ out_added \in [Nodes -> BOOLEAN]
    /\ cache_added \in [Nodes -> [Trackers -> BOOLEAN]]
    /\ processed \in [Nodes -> [Trackers -> Nat]]
    /\ step \in [Nodes -> Nat]
    /\ to_ask \in [Nodes -> SUBSET Nodes]
    /\ total_count \in [Nodes -> Nat]

\* The messages.
NetTypes ==
    /\ sent \subseteq Messages
    /\ IsFiniteSet(sent)
    /\ arrived \subseteq sent
    /\ lost \subseteq sent
    /\ arrived \cap lost = {}

-----------------------------------------------------------------------------
(* The decision, and the tasks. *)

Decided(n) == pc[n] \notin {"estimate", "decide"}
Past(n) == pc[n] \in {"counting", "summing", "waiting", "returned"}

\* What every node decides, from what every node estimated.
Decision ==
    IF kind = "join" /\ join_type # "outer"
    THEN small_side(join_type, estimate) ELSE "none"

DecisionInv ==
    /\ \A e \in sent : e.body = "estimate" => e.bytes = estimate[e.from]
    /\ \A n \in Nodes : Decided(n) => scatter_side[n] = Decision

\* A task that is under way is one of the batches, and has an attempt left.
TaskOf(n) ==
    /\ sends[n] # {} => Decided(n) /\ cur[n] \in DOMAIN input[n]
    /\ \A t \in DOMAIN input[n] : attempts[n][t] < attempts_limit
    /\ ~Decided(n) => \A t \in DOMAIN input[n] : t \in ToSet(todo[n])
TaskInv == \A n \in Nodes : TaskOf(n)

\* As long as no task threw, the tasks of a kernel that goes on are done.
Quiet ==
    \A n \in Nodes : /\ Past(n) => todo[n] = <<>> /\ sends[n] = {}
                     /\ pc[n] \notin {"threw", "count_error"}

-----------------------------------------------------------------------------
(* Tables and their counts. *)

Tab == {t \in sent : t.body = "table"}
Held == {t \in arrived : t.body = "table"}
TablesOf(n, m, k) == {t \in Tab : t.from = n /\ t.to = m /\ t.tracker = k}
TablesTo(n, k) == {t \in Tab : t.to = n /\ t.tracker = k}

\* Every table is a new one, those kept are there, and a kernel expects the
\* counts of all the trackers of which it may get a table.
TableInv ==
    \A t \in Tab :
        /\ t.id < next_id[t.from]
        /\ t.from = t.to => t \in arrived
        /\ Decided(t.from)
        /\ t.from = t.to \/ t.tracker \in ToSet(count_trackers(t.from))

SendsCounted ==
    \A n \in Nodes : \A s \in sends[n] :
        /\ s.to = {n} \/ n \notin s.to
        /\ s.to = {n} \/ s.tracker \in ToSet(count_trackers(n))
        /\ s.always => s.tracker = 0

\* node_count counts the tables of a node, processed those in a cache.
CountInv ==
    \A n \in Nodes, k \in Trackers :
        /\ processed[n][k] = Cardinality(cached(n, k))
        /\ \A m \in Nodes :
               node_count[n][k][m] = Cardinality(TablesOf(n, m, k))

\* The counts a node tells of are final.
AnnouncedInv ==
    \A c \in sent : c.body = "count" =>
        /\ Past(c.from)
        /\ c.count = node_count[c.from][c.tracker][c.to]

\* The tables for n of the nodes that it has heard of.
Heard(n, k) == {t \in TablesTo(n, k) : t.from \notin to_ask[n]}

\* The trackers whose tables n has waited for.
Awaited(n) ==
    {count_trackers(n)[i] :
       i \in {i \in DOMAIN count_trackers(n) :
                 \/ pc[n] = "returned"
                 \/ pc[n] \in {"summing", "waiting"} /\ i < step[n]}}

StepInv ==
    \A n \in Nodes :
        /\ pc[n] \in {"counting", "summing", "waiting"} =>
               step[n] \in DOMAIN count_trackers(n)
        /\ pc[n] \in {"estimate", "decide", "tasks"} => step[n] = 1

SumOf(n) ==
    /\ pc[n] \in {"summing", "waiting"} =>
           /\ n \notin to_ask[n]
           /\ \A m \in Nodes \ to_ask[n] : Past(m)
           /\ total_count[n] =
                  Cardinality(Heard(n, count_trackers(n)[step[n]]))
    /\ pc[n] = "waiting" => to_ask[n] = {}
    /\ Awaited(n) # {} => \A m \in Nodes : Past(m)
    /\ \A k \in Awaited(n) : TablesTo(n, k) \subseteq arrived
SumInv == \A n \in Nodes : SumOf(n)

-----------------------------------------------------------------------------
(* What the tasks have sent. *)

\* Node m has sent a table with the rows of task t for d.
Delivered(m, t, d) ==
    \E c \in Tab : /\ c.from = m /\ c.task = t /\ c.rows
                   /\ c.to = d[1] /\ c.tracker = d[2]
\* It still has to.
Outstanding(m, t, d) ==
    /\ t = cur[m]
    /\ \E s \in sends[m] : s.rows /\ d[1] \in s.to /\ s.tracker = d[2]

DeliveredOf(m) ==
    \A t \in DOMAIN input[m] :
        \/ t \in ToSet(todo[m])
        \/ \A d \in belongs(m, t) :
              Delivered(m, t, d) \/ Outstanding(m, t, d)
DeliveredInv == \A m \in Nodes : DeliveredOf(m)

\* As long as no task has been run again.
OnceOf(n) ==
    /\ IsInjective(todo[n]) /\ cur[n] \notin ToSet(todo[n])
    /\ \A c \in Tab : c.from = n => c.task \notin ToSet(todo[n])
    /\ \A s \in sends[n] : s.rows =>
          /\ \A c \in Tab : c.from = n /\ c.task = cur[n] /\ c.rows =>
                c.tracker # s.tracker \/ c.to \notin s.to
          /\ \A r \in sends[n] : r.rows /\ r.tracker = s.tracker /\ r # s =>
                r.to \cap s.to = {}
OnceInv ==
    retries = 0 =>
        /\ \A n \in Nodes : OnceOf(n)
        /\ \A c, d \in Tab :
              c.from = d.from /\ c.task = d.task /\ c.to = d.to
                 /\ c.tracker = d.tracker /\ c.rows /\ d.rows => c = d

\* Task t of n leaves a table in a cache of n itself.
Keeps(n, t, k) ==
    /\ kind \in {"aggregate", "no_group"} => k = 0
    /\ kind = "join" => k = input[n][t].side
KeptOf(n) ==
    \A t \in DOMAIN input[n] :
        \/ t \in ToSet(todo[n])
        \/ \E s \in sends[n] :
              t = cur[n] /\ s.to = {n} /\ Keeps(n, t, s.tracker)
        \/ \E k \in Trackers : Keeps(n, t, k) /\ cache_added[n][k]
SchemaInv ==
    /\ \A n \in Nodes, k \in Trackers : cache_added[n][k] => cached(n, k) # {}
    /\ \A n \in Nodes : set_empty_part[n] => cache_added[n][0]
    /\ \A n \in Nodes : KeptOf(n)

-----------------------------------------------------------------------------
(* Nodes, batches and trackers. *)

\* The nodes, in their order.
LEMMA NodeFacts ==
    /\ Len(NodeSeq) \in Nat /\ Len(NodeSeq) > 1
    /\ DOMAIN NodeSeq = 1 .. Len(NodeSeq)
    /\ \A i \in 1 .. Len(NodeSeq) : NodeSeq[i] \in Nodes
    /\ \A n \in Nodes : \E i \in 1 .. Len(NodeSeq) : NodeSeq[i] = n
    /\ \A i, j \in 1 .. Len(NodeSeq) : NodeSeq[i] = NodeSeq[j] => i = j
    /\ Master \in Nodes
  <1>1. /\ NodeSeq \in Seq(Nodes) /\ IsInjective(NodeSeq)
        /\ Len(NodeSeq) > 1 /\ Master \in Nodes
    BY DistributionAssumption
  <1>2. Len(NodeSeq) \in Nat /\ DOMAIN NodeSeq = 1 .. Len(NodeSeq)
    BY <1>1
  <1>3. \A i, j \in 1 .. Len(NodeSeq) : NodeSeq[i] = NodeSeq[j] => i = j
    BY <1>1, <1>2 DEF IsInjective
  <1>4. /\ \A i \in 1 .. Len(NodeSeq) : NodeSeq[i] \in Nodes
        /\ \A n \in Nodes : \E i \in 1 .. Len(NodeSeq) : NodeSeq[i] = n
    BY <1>2 DEF Nodes, ToSet
  <1>5. QED
    BY <1>1, <1>2, <1>3, <1>4

\* What a node's input is.
LEMMA InputFacts ==
    ASSUME PlanTypes, NEW n \in Nodes
    PROVE  /\ input[n] \in Seq(Batches)
           /\ DOMAIN input[n] = 1 .. Len(input[n])
           /\ Len(input[n]) \in Nat
           /\ \A t \in DOMAIN input[n] :
                  /\ input[n][t].side \in TableSides
                  /\ input[n][t].rows \subseteq Nodes \X Trackers
  <1>1. input \in [Nodes -> Seq(Batches)]
    BY DistributionAssumption DEF PlanTypes
  <1>2. input[n] \in Seq(Batches)
    BY <1>1
  <1>3. DOMAIN input[n] = 1 .. Len(input[n]) /\ Len(input[n]) \in Nat
    BY <1>2
  <1>4. \A t \in DOMAIN input[n] : input[n][t] \in Batches
    BY <1>2, <1>3
  <1>5. QED
    BY <1>2, <1>3, <1>4 DEF Batches

\* The kernels.
LEMMA KindFacts ==
    ASSUME PlanTypes
    PROVE  kind \in {"aggregate", "no_group", "join", "partition"}
  BY DistributionAssumption DEF PlanTypes

\* The message trackers: one for each partition of a node, and at least two.
LEMMA PartFacts ==
    /\ TableSides \subseteq Trackers /\ 0 \in Trackers
    /\ Trackers \subseteq Nat
    /\ num_partitions_per_node \in Nat \ {0}
    /\ \A p \in Nat : p < num_partitions_per_node => p \in Trackers
  <1>1. Parts \in Nat \ {0}
    BY DistributionAssumption
  <1>2. num_partitions_per_node \in {1, Parts}
    BY DEF num_partitions_per_node
  <1>3. QED
    BY <1>1, <1>2 DEF Trackers, TableSides

\* The trackers whose counts are exchanged.
LEMMA TrackerFacts ==
    ASSUME PlanTypes, NEW n
    PROVE  /\ count_trackers(n) \in Seq(Trackers)
           /\ Len(count_trackers(n)) \in Nat \ {0}
           /\ DOMAIN count_trackers(n) = 1 .. Len(count_trackers(n))
           /\ \A i \in DOMAIN count_trackers(n) :
                  count_trackers(n)[i] \in Trackers
           /\ ToSet(count_trackers(n)) =
                  {count_trackers(n)[i] : i \in DOMAIN count_trackers(n)}
           /\ kind \in {"aggregate", "no_group"} =>
                  ToSet(count_trackers(n)) = {0}
           /\ kind = "partition" =>
                  ToSet(count_trackers(n)) =
                      {k \in Trackers : k < num_partitions_per_node}
           /\ kind = "join" /\ scatter_side[n] = "none" =>
                  ToSet(count_trackers(n)) = TableSides
           /\ kind = "join" /\ scatter_side[n] # "none" =>
                  ToSet(count_trackers(n)) = {small_tracker(n)}
  <1> DEFINE c == count_trackers(n)
  <1>1. small_tracker(n) \in Trackers
    BY PartFacts DEF small_tracker, TableSides
  <1>2. CASE kind \in {"aggregate", "no_group"}
    <2>1. c = <<0>>
      BY <1>2 DEF count_trackers
    <2>2. c \in Seq(Trackers) /\ Len(c) = 1 /\ DOMAIN c = 1 .. 1 /\ c[1] = 0
      BY <2>1, PartFacts
    <2>3. QED
      BY <1>2, <2>2, PartFacts DEF ToSet
  <1>3. CASE kind = "partition"
    <2> DEFINE p == num_partitions_per_node
    <2>1. c = [i \in 1 .. p |-> i - 1] /\ p \in Nat \ {0}
      BY <1>3, PartFacts DEF count_trackers, partition_trackers
    <2> HIDE DEF p
    <2>2. \A i \in 1 .. p : i - 1 \in Nat /\ i - 1 < p
      BY <2>1
    <2>3. \A i \in 1 .. p : i - 1 \in Trackers
      BY <2>2, PartFacts DEF p
    <2>4. /\ c \in Seq(Trackers) /\ Len(c) = p /\ DOMAIN c = 1 .. p
          /\ \A i \in 1 .. p : c[i] = i - 1
      BY <2>1, <2>3
    <2> HIDE DEF c
    <2>5. ASSUME NEW k \in Trackers, k < p PROVE \E i \in 1 .. p : c[i] = k
      <3>1. k + 1 \in 1 .. p /\ (k + 1) - 1 = k
        BY <2>1, <2>5, PartFacts
      <3>2. QED
        BY <2>4, <3>1
    <2>6. ToSet(c) = {c[i] : i \in 1 .. p}
      BY <2>4 DEF ToSet
    <2>7. ToSet(c) = {k \in Trackers : k < p}
      BY <2>2, <2>3, <2>4, <2>5, <2>6
    <2>8. QED
      BY <1>3, <2>1, <2>3, <2>4, <2>6, <2>7 DEF c, p
  <1>4. CASE kind = "join" /\ scatter_side[n] = "none"
    <2>1. c = <<0, 1>>
      BY <1>4 DEF count_trackers, join_trackers
    <2>2. c \in Seq(Trackers) /\ Len(c) = 2 /\ DOMAIN c = 1 .. 2
          /\ c[1] = 0 /\ c[2] = 1
      BY <2>1, PartFacts DEF TableSides
    <2>3. ToSet(c) = {0, 1}
      BY <2>2 DEF ToSet
    <2>4. QED
      BY <1>4, <2>2, <2>3, PartFacts DEF ToSet, TableSides
  <1>5. CASE kind = "join" /\ scatter_side[n] # "none"
    <2>1. c = <<small_tracker(n)>>
      BY <1>5 DEF count_trackers, join_trackers
    <2>2. c \in Seq(Trackers) /\ Len(c) = 1 /\ DOMAIN c = 1 .. 1
          /\ c[1] = small_tracker(n)
      BY <1>1, <2>1
    <2>3. QED
      BY <1>1, <1>5, <2>2 DEF ToSet
  <1>6. QED
    BY <1>2, <1>3, <1>4, <1>5, KindFacts

-----------------------------------------------------------------------------
(* What a task adds and sends. *)

\* The adds and sends S of a task of n bring its rows to D, each table
\* once.
Complete(n, S, D) ==
    /\ S \subseteq SendRecords
    /\ \A s \in S : s.to = {n} \/ n \notin s.to
    /\ \A s \in S : s.always => s.tracker = 0
    /\ \A d \in D : \E s \in S : s.rows /\ d[1] \in s.to /\ s.tracker = d[2]
    /\ \A r, s \in S : r.rows /\ s.rows /\ r.tracker = s.tracker /\ r # s =>
           r.to \cap s.to = {}

\* They leave a table in cache k of n itself.
Stays(n, S, k) == \E s \in S : s.to = {n} /\ s.tracker = k

\* An add or a send.
LEMMA SendTyped ==
    ASSUME NEW i \in Nat, NEW to \in SUBSET Nodes, NEW k \in Trackers,
           NEW p, NEW a \in BOOLEAN, p \in BOOLEAN
    PROVE  Send(i, to, k, p, a) \in SendRecords
  BY DEF Send, SendRecords

\* scatter
LEMMA ScatterComplete ==
    ASSUME NEW n \in Nodes, NEW k \in Trackers,
           NEW rows \in SUBSET (Nodes \X Trackers)
    PROVE  /\ Complete(n, scatter(k, rows), {d \in rows : d[2] = k})
           /\ Stays(n, scatter(k, rows), k)
           /\ \A s \in scatter(k, rows) : s.tracker = k
  <1> DEFINE S == scatter(k, rows)
             e(i) == Send(i, {NodeSeq[i]}, k, <<NodeSeq[i], k>> \in rows,
                          FALSE)
  <1>1. S = {e(i) : i \in 1 .. Len(NodeSeq)}
    BY NodeFacts DEF scatter
  <1>2. ASSUME NEW i \in 1 .. Len(NodeSeq)
        PROVE  /\ e(i) \in SendRecords /\ e(i) \in S
               /\ e(i).to = {NodeSeq[i]} /\ e(i).tracker = k
               /\ e(i).rows = (<<NodeSeq[i], k>> \in rows) /\ ~e(i).always
    <2>1. e(i) \in S
      BY <1>1
    <2>2. NodeSeq[i] \in Nodes /\ i \in Nat
      BY NodeFacts
    <2>3. e(i) \in SendRecords
      <3>1. {NodeSeq[i]} \in SUBSET Nodes /\ FALSE \in BOOLEAN
            /\ (<<NodeSeq[i], k>> \in rows) \in BOOLEAN
        BY <2>2
      <3>2. QED
        BY <2>2, <3>1, SendTyped
    <2>4. QED
      BY <2>1, <2>3 DEF Send
  <1>3. \A s \in S : \E i \in 1 .. Len(NodeSeq) : s = e(i)
    BY <1>1
  <1> HIDE DEF S, e
  <1>4. S \subseteq SendRecords /\ \A s \in S : s.tracker = k
    BY <1>2, <1>3
  <1>5. ASSUME NEW s \in S
        PROVE  (s.to = {n} \/ n \notin s.to) /\ ~s.always
    <2>1. PICK i \in 1 .. Len(NodeSeq) : s = e(i)
      BY <1>3
    <2>2. s.to = {NodeSeq[i]} /\ ~s.always
      BY <1>2, <2>1
    <2>3. QED
      BY <2>2
  <1>6. ASSUME NEW d \in rows, d[2] = k
        PROVE  \E s \in S : s.rows /\ d[1] \in s.to /\ s.tracker = d[2]
    <2>1. d \in Nodes \X Trackers
      OBVIOUS
    <2>2. d = <<d[1], d[2]>> /\ d[1] \in Nodes
      BY <2>1
    <2>3. PICK i \in 1 .. Len(NodeSeq) : NodeSeq[i] = d[1]
      BY <2>2, NodeFacts
    <2>4. QED
      BY <1>2, <1>6, <2>2, <2>3
  <1>7. ASSUME NEW r \in S, NEW s \in S, r # s
        PROVE  r.to \cap s.to = {}
    <2>1. PICK i, j \in 1 .. Len(NodeSeq) : r = e(i) /\ s = e(j)
      BY <1>3
    <2>2. NodeSeq[i] # NodeSeq[j]
      BY <1>7, <2>1, NodeFacts
    <2>3. QED
      BY <1>2, <2>1, <2>2
  <1>8. Stays(n, S, k)
    <2>1. PICK i \in 1 .. Len(NodeSeq) : NodeSeq[i] = n
      BY NodeFacts
    <2>2. QED
      BY <1>2, <2>1 DEF Stays
  <1>9. QED
    BY <1>4, <1>5, <1>6, <1>7, <1>8 DEF Complete, S

\* broadcast
LEMMA BroadcastComplete ==
    ASSUME NEW n \in Nodes, NEW k \in Trackers, NEW rows
    PROVE  /\ Complete(n, broadcast(n, k, rows),
                       IF rows = {} THEN {} ELSE Nodes \X {k})
           /\ Stays(n, broadcast(n, k, rows), k)
           /\ \A s \in broadcast(n, k, rows) : s.tracker = k
  <1> DEFINE a == Send(1, Others(n), k, rows # {}, FALSE)
             b == Send(2, {n}, k, rows # {}, FALSE)
  <1>1. broadcast(n, k, rows) = {a, b}
    BY DEF broadcast
  <1>2. /\ a \in SendRecords /\ b \in SendRecords
        /\ a.to = Nodes \ {n} /\ b.to = {n}
        /\ a.tracker = k /\ b.tracker = k
        /\ a.rows = (rows # {}) /\ b.rows = (rows # {})
        /\ ~a.always /\ ~b.always
    BY DEF Send, SendRecords, Others
  <1> HIDE DEF a, b
  <1> DEFINE S == broadcast(n, k, rows)
             D == IF rows = {} THEN {} ELSE Nodes \X {k}
  <1>3. /\ S \subseteq SendRecords
        /\ \A s \in S : s.tracker = k /\ (s.to = {n} \/ n \notin s.to)
        /\ \A s \in S : ~s.always
        /\ Stays(n, S, k)
    BY <1>1, <1>2 DEF Stays
  <1>4. ASSUME NEW d \in D
        PROVE  \E s \in S : s.rows /\ d[1] \in s.to /\ s.tracker = d[2]
    <2>1. rows # {} /\ d[1] \in Nodes /\ d[2] = k
      OBVIOUS
    <2>2. CASE d[1] = n
      BY <1>1, <1>2, <2>1, <2>2
    <2>3. CASE d[1] # n
      BY <1>1, <1>2, <2>1, <2>3
    <2>4. QED
      BY <2>2, <2>3
  <1>5. \A r, s \in S : r # s => r.to \cap s.to = {}
    BY <1>1, <1>2
  <1> HIDE DEF S, D
  <1>6. Complete(n, S, D)
    BY <1>3, <1>4, <1>5 DEF Complete
  <1>7. QED
    BY <1>3, <1>6 DEF S, D

\* The big side of a broadcast join stays where it is.
LEMMA PassComplete ==
    ASSUME NEW n \in Nodes, NEW k \in Trackers, NEW rows
    PROVE  /\ Complete(n, pass_big_side(n, k, rows),
                       IF rows = {} THEN {} ELSE {<<n, k>>})
           /\ Stays(n, pass_big_side(n, k, rows), k)
           /\ \A s \in pass_big_side(n, k, rows) : s.to = {n}
  <1> DEFINE a == Send(1, {n}, k, rows # {}, FALSE)
  <1>1. pass_big_side(n, k, rows) = {a}
    BY DEF pass_big_side
  <1>2. /\ a \in SendRecords
        /\ a.to = {n} /\ a.tracker = k /\ a.rows = (rows # {})
        /\ ~a.always
    BY DEF Send, SendRecords
  <1> HIDE DEF a
  <1> DEFINE S == pass_big_side(n, k, rows)
             D == IF rows = {} THEN {} ELSE {<<n, k>>}
  <1>3. ASSUME NEW d \in D PROVE rows # {} /\ d[1] = n /\ d[2] = k
    OBVIOUS
  <1>4. S = {a}
    BY <1>1
  <1> HIDE DEF S, D
  <1>5. Complete(n, S, D)
    BY <1>2, <1>3, <1>4 DEF Complete
  <1>6. QED
    BY <1>2, <1>4, <1>5 DEF S, D, Stays

\* Without GROUP BY everything goes to the master, and the first task of
\* another node leaves an empty table where it is.
LEMMA MasterComplete ==
    ASSUME NEW n \in Nodes, NEW rows
    PROVE  /\ Complete(n, to_master(n, rows),
                       IF rows = {} THEN {} ELSE {<<Master, 0>>})
           /\ set_empty_part[n] \/ Stays(n, to_master(n, rows), 0)
           /\ \A s \in to_master(n, rows) : s.tracker = 0
  <1> DEFINE a == Send(1, {n}, 0, FALSE, TRUE)
             b == Send(2, {Master}, 0, rows # {}, FALSE)
             S == to_master(n, rows)
             D == IF rows = {} THEN {} ELSE {<<Master, 0>>}
  <1>1. /\ S = {a, b} \/ S = {b}
        /\ n = Master \/ set_empty_part[n] \/ S = {a, b}
    BY DEF to_master
  <1>2. /\ a.to = {n} /\ a.tracker = 0 /\ ~a.rows
        /\ b.to = {Master} /\ b.tracker = 0 /\ b.rows = (rows # {})
    BY DEF Send
  <1>3. a \in SendRecords /\ b \in SendRecords
    BY NodeFacts, PartFacts DEF Send, SendRecords
  <1>4. ASSUME NEW d \in D PROVE rows # {} /\ d[1] = Master /\ d[2] = 0
    OBVIOUS
  <1> HIDE DEF a, b, S, D
  <1>5. Complete(n, S, D)
    <2>1. S \subseteq SendRecords /\ \A s \in S : s.to = {n} \/ n \notin s.to
      BY <1>1, <1>2, <1>3
    <2>2. \A d \in D : b \in S /\ b.rows /\ d[1] \in b.to /\ b.tracker = d[2]
      BY <1>1, <1>2, <1>4
    <2>3. \A r, s \in S : r.rows /\ s.rows => r = s
      BY <1>1, <1>2
    <2>4. \A s \in S : s.tracker = 0
      BY <1>1, <1>2
    <2>5. QED
      BY <2>1, <2>2, <2>3, <2>4 DEF Complete
  <1>6. set_empty_part[n] \/ Stays(n, S, 0)
    BY <1>1, <1>2 DEF Stays
  <1>7. \A s \in S : s.tracker = 0
    BY <1>1, <1>2
  <1>8. QED
    BY <1>5, <1>6, <1>7 DEF S, D

\* Dividing by the number of partitions of a node.
LEMMA Division ==
    ASSUME NEW d \in Nat \ {0}, NEW x \in Nat
    PROVE  /\ x \div d \in Nat /\ x % d \in Nat /\ x % d < d
           /\ \A L \in Nat : x \in 0 .. d * L - 1 => x \div d \in 0 .. L - 1
           /\ \A y \in Nat : x \div d = y \div d /\ x % d = y % d => x = y
  <1>1. x \div d \in Nat /\ x % d \in Nat /\ x % d < d
    OBVIOUS
  <1>2. ASSUME NEW L \in Nat, x \in 0 .. d * L - 1
        PROVE  x \div d \in 0 .. L - 1
    <2>1. x \div d < L
      BY <1>2
    <2>2. QED
      BY <1>1, <2>1
  <1>3. ASSUME NEW y \in Nat, x \div d = y \div d, x % d = y % d
        PROVE  x = y
    BY <1>3
  <1>4. QED
    BY <1>1, <1>2, <1>3

\* The partitions of a batch: each part of each node once.
LEMMA PartitionFacts ==
    ASSUME NEW rows \in SUBSET (Nodes \X Trackers), NEW n \in Nodes
    PROVE  LET all == partitions(rows) IN
           /\ Len(all) \in Nat /\ DOMAIN all = 1 .. Len(all)
           /\ \A i \in DOMAIN all :
                  /\ all[i] = <<all[i][1], all[i][2]>>
                  /\ all[i][1] \in Nodes /\ all[i][2] \in Trackers
                  /\ all[i][2] < num_partitions_per_node
           /\ \A i, j \in DOMAIN all : all[i] = all[j] => i = j
           /\ \A d \in rows : d[2] < num_partitions_per_node =>
                  \E i \in DOMAIN all : all[i] = d
           /\ \E i \in DOMAIN all : all[i][1] = n
  <1> DEFINE all == partitions(rows)
             num == num_partitions_per_node
             L == Len(NodeSeq)
             at(i) == ((i - 1) \div num) + 1
  <1>1. num \in Nat \ {0} /\ L \in Nat /\ L > 1
    BY PartFacts, NodeFacts
  <1>2. PICK j \in 1 .. L : NodeSeq[j] = n
    BY NodeFacts
  <1>3. CASE rows = {}
    <2>1. all = [i \in 1 .. L |-> <<NodeSeq[i], (i - 1) % num>>]
      BY <1>3, NodeFacts DEF partitions
    <2>2. Len(all) = L /\ DOMAIN all = 1 .. L
      BY <1>1, <2>1
    <2>3. ASSUME NEW i \in 1 .. L
          PROVE  /\ all[i] = <<all[i][1], all[i][2]>>
                 /\ all[i][1] = NodeSeq[i]
                 /\ all[i][1] \in Nodes /\ all[i][2] \in Trackers
                 /\ all[i][2] < num
      <3>1. (i - 1) % num \in Trackers /\ (i - 1) % num < num
        <4>1. i - 1 \in Nat
          BY <1>1
        <4>2. (i - 1) % num \in Nat /\ (i - 1) % num < num
          BY <1>1, <4>1, Division
        <4>3. QED
          BY <4>2, PartFacts
      <3>2. QED
        BY <2>1, <3>1, NodeFacts
    <2>4. \A i, k \in 1 .. L : all[i] = all[k] => i = k
      BY <2>3, NodeFacts
    <2> HIDE DEF all
    <2>5. QED
      BY <1>1, <1>2, <1>3, <2>2, <2>3, <2>4 DEF all
  <1>4. CASE rows # {}
    <2>1. all = [i \in 1 .. num * L |-> <<NodeSeq[at(i)], (i - 1) % num>>]
      BY <1>4 DEF partitions
    <2>2. num * L \in Nat
      BY <1>1
    <2>3. Len(all) = num * L /\ DOMAIN all = 1 .. num * L
      BY <2>1, <2>2
    <2>4. ASSUME NEW i \in 1 .. num * L
          PROVE  /\ at(i) \in 1 .. L
                 /\ (i - 1) % num \in Trackers
                 /\ (i - 1) % num < num
      <3>1. i - 1 \in 0 .. num * L - 1 /\ i - 1 \in Nat
        BY <1>1, <2>2
      <3>2. /\ (i - 1) % num \in Nat /\ (i - 1) % num < num
            /\ (i - 1) \div num \in 0 .. L - 1
        BY <1>1, <3>1, Division
      <3>3. at(i) \in 1 .. L
        BY <1>1, <3>2
      <3>4. QED
        BY <3>2, <3>3, PartFacts
    <2>5. ASSUME NEW k \in 1 .. L, NEW p \in Trackers, p < num
          PROVE  \E i \in 1 .. num * L : at(i) = k /\ (i - 1) % num = p
      <3>1. p \in 0 .. num - 1 /\ k - 1 \in 0 .. L - 1
        BY <1>1, <2>5, PartFacts
      <3>2. PICK x \in 0 .. num * L - 1 : x \div num = k - 1 /\ x % num = p
        <4>1. num \in Nat \ {0} /\ L \in Nat
          BY <1>1
        <4> HIDE DEF num, L
        <4>2. PICK x : x = num * (k - 1) + p
          OBVIOUS
        <4>3. x \in 0 .. num * L - 1
          BY <3>1, <4>1, <4>2
        <4>4. x \div num = k - 1 /\ x % num = p
          BY <3>1, <4>1, <4>2
        <4>5. QED
          BY <4>3, <4>4
      <3>3. x + 1 \in 1 .. num * L /\ (x + 1) - 1 = x
        BY <1>1, <2>2
      <3>4. QED
        BY <3>2, <3>3
    <2>6. ASSUME NEW i \in 1 .. num * L
          PROVE  /\ all[i] = <<all[i][1], all[i][2]>>
                 /\ all[i][1] = NodeSeq[at(i)]
                 /\ all[i][2] = (i - 1) % num
      BY <2>1
    <2> HIDE DEF all, at, num
    <2>7. ASSUME NEW i \in 1 .. num * L, NEW k \in 1 .. num * L,
                 all[i] = all[k]
          PROVE  i = k
      <3>1. /\ NodeSeq[at(i)] = NodeSeq[at(k)]
            /\ (i - 1) % num = (k - 1) % num
        BY <2>6, <2>7
      <3>2. at(i) = at(k)
        BY <2>4, <3>1, NodeFacts
      <3>3. i - 1 \in Nat /\ k - 1 \in Nat /\ num \in Nat \ {0}
        BY <1>1, <2>2
      <3>4. (i - 1) \div num = (k - 1) \div num
        BY <3>2, <3>3 DEF at
      <3>5. i - 1 = k - 1
        BY <3>1, <3>3, <3>4, Division
      <3>6. QED
        BY <2>2, <3>5
    <2>8. ASSUME NEW d \in rows, d[2] < num
          PROVE  \E i \in 1 .. num * L : all[i] = d
      <3>1. d \in Nodes \X Trackers
        OBVIOUS
      <3>2. d = <<d[1], d[2]>> /\ d[1] \in Nodes /\ d[2] \in Trackers
        BY <3>1
      <3>3. PICK k \in 1 .. L : NodeSeq[k] = d[1]
        BY <3>2, NodeFacts
      <3>4. PICK i \in 1 .. num * L : at(i) = k /\ (i - 1) % num = d[2]
        BY <2>5, <2>8, <3>2
      <3>5. QED
        BY <2>6, <3>2, <3>3, <3>4
    <2>9. \E i \in 1 .. num * L : all[i][1] = n
      <3>1. 0 \in Trackers /\ 0 < num
        BY <1>1, PartFacts
      <3>2. PICK i \in 1 .. num * L : at(i) = j
        BY <2>5, <3>1
      <3>3. QED
        BY <1>2, <2>6, <3>2
    <2>10. \A i \in 1 .. num * L :
               /\ all[i][1] \in Nodes /\ all[i][2] \in Trackers
               /\ all[i][2] < num
      BY <2>4, <2>6, NodeFacts
    <2>11. QED
      BY <2>2, <2>3, <2>6, <2>7, <2>8, <2>9, <2>10 DEF all, num
  <1>5. QED
    BY <1>3, <1>4

\* scatterParts
LEMMA PartsComplete ==
    ASSUME NEW rows \in SUBSET (Nodes \X Trackers), NEW n \in Nodes
    PROVE  LET num == num_partitions_per_node IN
           /\ Complete(n, scatterParts(n, rows), {d \in rows : d[2] < num})
           /\ \E k \in Trackers : Stays(n, scatterParts(n, rows), k)
           /\ \A s \in scatterParts(n, rows) : s.tracker < num
  <1>1. PICK all : all = partitions(rows)
    OBVIOUS
  <1> DEFINE S == scatterParts(n, rows)
             num == num_partitions_per_node
             remote == {i \in DOMAIN all : all[i][1] # n /\ all[i] \in rows}
             local == {i \in DOMAIN all : all[i][1] = n}
             far(i) == part_send(i, all, i, rows)
             near(i) == part_send(Len(all) + i, all, i, rows)
  <1>2. /\ Len(all) \in Nat /\ DOMAIN all = 1 .. Len(all)
        /\ \A i \in DOMAIN all :
               /\ all[i] = <<all[i][1], all[i][2]>>
               /\ all[i][1] \in Nodes /\ all[i][2] \in Trackers
               /\ all[i][2] < num
        /\ \A i, j \in DOMAIN all : all[i] = all[j] => i = j
        /\ \A d \in rows : d[2] < num => \E i \in DOMAIN all : all[i] = d
        /\ \E i \in DOMAIN all : all[i][1] = n
    BY <1>1, PartitionFacts
  <1>3. S = {far(i) : i \in remote} \cup {near(i) : i \in local}
    BY <1>1 DEF scatterParts
  <1>4. ASSUME NEW i \in DOMAIN all
        PROVE  /\ far(i) \in SendRecords /\ near(i) \in SendRecords
               /\ far(i).to = {all[i][1]} /\ near(i).to = {all[i][1]}
               /\ far(i).tracker = all[i][2] /\ near(i).tracker = all[i][2]
               /\ far(i).rows = (all[i] \in rows)
               /\ near(i).rows = (all[i] \in rows)
               /\ ~far(i).always /\ ~near(i).always
    <2>1. /\ i \in Nat /\ Len(all) + i \in Nat
          /\ {all[i][1]} \in SUBSET Nodes /\ all[i][2] \in Trackers
      BY <1>2
    <2>2. (all[i] \in rows) \in BOOLEAN /\ FALSE \in BOOLEAN
      OBVIOUS
    <2>3. far(i) \in SendRecords /\ near(i) \in SendRecords
      BY <2>1, <2>2, SendTyped DEF part_send
    <2>4. QED
      BY <2>3 DEF part_send, Send
  <1> HIDE DEF S, far, near
  <1>5. ASSUME NEW s \in S
        PROVE  \E i \in DOMAIN all :
                   /\ s = IF all[i][1] = n THEN near(i) ELSE far(i)
                   /\ s \in SendRecords /\ s.to = {all[i][1]}
                   /\ s.tracker = all[i][2] /\ ~s.always
    BY <1>3, <1>4
  <1>6. /\ S \subseteq SendRecords
        /\ \A s \in S : (s.to = {n} \/ n \notin s.to) /\ ~s.always
    BY <1>5
  <1>7. ASSUME NEW d \in rows, d[2] < num
        PROVE  \E s \in S : s.rows /\ d[1] \in s.to /\ s.tracker = d[2]
    <2>1. PICK i \in DOMAIN all : all[i] = d
      BY <1>2, <1>7
    <2>2. CASE all[i][1] = n
      <3>1. near(i) \in S
        BY <1>3, <2>2
      <3>2. QED
        BY <1>4, <2>1, <3>1
    <2>3. CASE all[i][1] # n
      <3>1. far(i) \in S
        BY <1>3, <2>1, <2>3
      <3>2. QED
        BY <1>4, <2>1, <3>1
    <2>4. QED
      BY <2>2, <2>3
  <1>8. ASSUME NEW r \in S, NEW s \in S, r.tracker = s.tracker, r # s
        PROVE  r.to \cap s.to = {}
    <2>1. PICK i \in DOMAIN all :
              /\ r = IF all[i][1] = n THEN near(i) ELSE far(i)
              /\ r.to = {all[i][1]} /\ r.tracker = all[i][2]
      BY <1>5
    <2>2. PICK j \in DOMAIN all :
              /\ s = IF all[j][1] = n THEN near(j) ELSE far(j)
              /\ s.to = {all[j][1]} /\ s.tracker = all[j][2]
      BY <1>5
    <2>3. i # j
      BY <1>8, <2>1, <2>2
    <2>4. all[i][1] # all[j][1]
      BY <1>2, <1>8, <2>1, <2>2, <2>3
    <2>5. QED
      BY <2>1, <2>2, <2>4
  <1>9. \E k \in Trackers : Stays(n, S, k)
    <2>1. PICK i \in DOMAIN all : all[i][1] = n
      BY <1>2
    <2>2. near(i) \in S /\ near(i).to = {n} /\ near(i).tracker \in Trackers
      BY <1>2, <1>3, <1>4, <2>1
    <2>3. QED
      BY <2>2 DEF Stays
  <1>10. \A s \in S : s.tracker < num
    BY <1>2, <1>5
  <1>11. QED
    BY <1>6, <1>7, <1>8, <1>9, <1>10 DEF Complete, S

\* do_process of each kernel brings the rows of a batch where they belong,
\* sends tables only of trackers whose counts are exchanged, and keeps one
\* table, unless the node is one that has already kept an empty one.
LEMMA DoProcessComplete ==
    ASSUME PlanTypes, NEW n \in Nodes, NEW t \in DOMAIN input[n], NEW S,
           S = do_process(n, input[n][t].side, input[n][t].rows)
    PROVE  /\ Complete(n, S, belongs(n, t))
           /\ \A s \in S : s.to = {n} \/ s.tracker \in ToSet(count_trackers(n))
           /\ \/ kind = "no_group" /\ set_empty_part[n]
              \/ \E k \in Trackers : Keeps(n, t, k) /\ Stays(n, S, k)
  <1>1. PICK side \in TableSides, rows \in SUBSET (Nodes \X Trackers) :
            side = input[n][t].side /\ rows = input[n][t].rows
    BY InputFacts
  <1>0. side \in Trackers
    BY PartFacts
  <1>2. S = do_process(n, side, rows)
    BY <1>1
  <1>3. CASE kind = "aggregate"
    <2>1. S = scatter(0, rows) /\ 0 \in Trackers
      BY <1>2, <1>3, PartFacts DEF do_process, aggregate_do_process
    <2>2. /\ Complete(n, S, {d \in rows : d[2] = 0}) /\ Stays(n, S, 0)
          /\ \A s \in S : s.tracker = 0
      BY <2>1, ScatterComplete
    <2>3. belongs(n, t) = {d \in rows : d[2] = 0}
      BY <1>1, <1>3 DEF belongs
    <2>4. ToSet(count_trackers(n)) = {0}
      BY <1>3, TrackerFacts
    <2>5. QED
      BY <1>3, <2>1, <2>2, <2>3, <2>4 DEF Keeps
  <1>4. CASE kind = "no_group"
    <2>1. S = to_master(n, rows) /\ 0 \in Trackers
      BY <1>2, <1>4, PartFacts DEF do_process, aggregate_do_process
    <2>2. /\ Complete(n, S, IF rows = {} THEN {} ELSE {<<Master, 0>>})
          /\ set_empty_part[n] \/ Stays(n, S, 0)
          /\ \A s \in S : s.tracker = 0
      BY <2>1, MasterComplete
    <2>3. belongs(n, t) = IF rows = {} THEN {} ELSE {<<Master, 0>>}
      BY <1>1, <1>4 DEF belongs
    <2>4. ToSet(count_trackers(n)) = {0}
      BY <1>4, TrackerFacts
    <2>5. QED
      BY <1>4, <2>1, <2>2, <2>3, <2>4 DEF Keeps
  <1>5. CASE kind = "partition"
    <2>1. S = scatterParts(n, rows)
      BY <1>2, <1>5 DEF do_process, partition_do_process
    <2> DEFINE num == num_partitions_per_node
    <2>2. /\ Complete(n, S, {d \in rows : d[2] < num})
          /\ \E k \in Trackers : Stays(n, S, k)
          /\ \A s \in S : s.tracker < num
      BY <2>1, PartsComplete
    <2>3. belongs(n, t) = {d \in rows : d[2] < num}
      BY <1>1, <1>5 DEF belongs
    <2>4. ToSet(count_trackers(n)) = {k \in Trackers : k < num}
      BY <1>5, TrackerFacts
    <2>5. \A s \in S : s.tracker \in Trackers
      BY <2>2 DEF Complete, SendRecords
    <2>6. QED
      BY <1>5, <2>2, <2>3, <2>4, <2>5 DEF Keeps
  <1>6. CASE kind = "join" /\ scatter_side[n] = "none"
    <2>1. S = scatter(side, rows)
      BY <1>2, <1>6 DEF do_process, join_do_process
    <2>2. /\ Complete(n, S, {d \in rows : d[2] = side}) /\ Stays(n, S, side)
          /\ \A s \in S : s.tracker = side
      BY <1>0, <2>1, ScatterComplete
    <2>3. belongs(n, t) = {d \in rows : d[2] = side}
      BY <1>1, <1>6 DEF belongs
    <2>4. ToSet(count_trackers(n)) = TableSides
      BY <1>6, TrackerFacts
    <2>5. QED
      BY <1>0, <1>1, <1>6, <2>2, <2>3, <2>4 DEF Keeps
  <1>7. CASE kind = "join" /\ scatter_side[n] # "none"
                 /\ side = small_tracker(n)
    <2>1. S = broadcast(n, side, rows)
      BY <1>2, <1>7 DEF do_process, join_do_process
    <2>2. /\ Complete(n, S, IF rows = {} THEN {} ELSE Nodes \X {side})
          /\ Stays(n, S, side)
          /\ \A s \in S : s.tracker = side
      <3>1. /\ Complete(n, broadcast(n, side, rows),
                        IF rows = {} THEN {} ELSE Nodes \X {side})
            /\ Stays(n, broadcast(n, side, rows), side)
            /\ \A s \in broadcast(n, side, rows) : s.tracker = side
        BY ONLY <1>0, BroadcastComplete, n \in Nodes, Zenon
      <3>2. QED
        BY ONLY <2>1, <3>1
    <2>3. belongs(n, t) = IF rows = {} THEN {} ELSE Nodes \X {side}
      <3>1. CASE rows = {}
        BY <1>1, <1>7, <3>1 DEF belongs
      <3>2. CASE rows # {}
        BY <1>1, <1>7, <3>2 DEF belongs
      <3>3. QED
        BY <3>1, <3>2
    <2>4. ToSet(count_trackers(n)) = {side}
      BY <1>7, TrackerFacts
    <2>5. QED
      BY <1>0, <1>1, <1>7, <2>2, <2>3, <2>4 DEF Keeps
  <1>8. CASE kind = "join" /\ scatter_side[n] # "none"
                 /\ side # small_tracker(n)
    <2>1. S = pass_big_side(n, side, rows)
      BY <1>2, <1>8 DEF do_process, join_do_process
    <2>2. /\ Complete(n, S, IF rows = {} THEN {} ELSE {<<n, side>>})
          /\ Stays(n, S, side)
          /\ \A s \in S : s.to = {n}
      <3>1. /\ Complete(n, pass_big_side(n, side, rows),
                        IF rows = {} THEN {} ELSE {<<n, side>>})
            /\ Stays(n, pass_big_side(n, side, rows), side)
            /\ \A s \in pass_big_side(n, side, rows) : s.to = {n}
        BY ONLY <1>0, PassComplete, n \in Nodes, Zenon
      <3>2. QED
        BY ONLY <2>1, <3>1
    <2>3. belongs(n, t) = IF rows = {} THEN {} ELSE {<<n, side>>}
      BY <1>1, <1>8 DEF belongs
    <2>4. QED
      BY <1>0, <1>1, <1>8, <2>2, <2>3 DEF Keeps
  <1>9. QED
    BY <1>3, <1>4, <1>5, <1>6, <1>7, <1>8, KindFacts

-----------------------------------------------------------------------------
(* One add or send, and the tables it makes. *)

NewTables(n, s) == {table(n, s, m) : m \in s.to}

\* What no add and no send changes.
AddFrame ==
    UNCHANGED <<planVars, scatter_side, pc, todo, cur, attempts, retries,
                failed, countVars, lost>>

\* A table was added for each of the targets, and counted.
Adds(n, s) ==
    /\ s \in sends[n]
    /\ sends' = [sends EXCEPT ![n] = @ \ {s}]
    /\ sent' = sent \cup NewTables(n, s)
    /\ arrived' = arrived \cup IF s.to = {n} THEN NewTables(n, s) ELSE {}
    /\ next_id' = [next_id EXCEPT ![n] = @ + 1]
    /\ \A x \in Nodes, k \in Trackers :
        /\ processed'[x][k] =
              IF s.to = {n} /\ x = n /\ k = s.tracker
              THEN processed[x][k] + 1 ELSE processed[x][k]
        /\ cache_added'[x][k] <=>
              cache_added[x][k] \/ (s.to = {n} /\ x = n /\ k = s.tracker)
        /\ \A y \in Nodes :
              node_count'[x][k][y] =
                 IF x = n /\ k = s.tracker /\ y \in s.to
                 THEN node_count[x][k][y] + 1 ELSE node_count[x][k][y]
    /\ \A x \in Nodes :
          set_empty_part'[x] => set_empty_part[x]
                                \/ (x = n /\ s.to = {n} /\ s.always)

\* Nothing was: it has no rows, and the cache is not empty.
Skips(n, s) ==
    /\ s \in sends[n] /\ ~s.rows
    /\ s.to = {n} => cache_added[n][s.tracker]
    /\ sends' = [sends EXCEPT ![n] = @ \ {s}]
    /\ UNCHANGED <<trackVars, cacheVars, sent, arrived>>

\* A function of two arguments, changed in one place.
LEMMA Nested ==
    ASSUME NEW A, NEW B, NEW C, NEW f \in [A -> [B -> C]],
           NEW a \in A, NEW b \in B, NEW c \in C, NEW g,
           g = [f EXCEPT ![a][b] = c]
    PROVE  /\ g \in [A -> [B -> C]]
           /\ \A x \in A, y \in B :
                  g[x][y] = IF x = a /\ y = b THEN c ELSE f[x][y]
  OBVIOUS

\* A function of three arguments, changed for some of the third.
LEMMA NestedTwice ==
    ASSUME NEW A, NEW B, NEW D, NEW C, NEW f \in [A -> [B -> [D -> C]]],
           NEW a \in A, NEW b \in B, NEW h \in [D -> C], NEW g,
           g = [f EXCEPT ![a][b] = h]
    PROVE  /\ g \in [A -> [B -> [D -> C]]]
           /\ \A x \in A, y \in B, z \in D :
                  g[x][y][z] = IF x = a /\ y = b THEN h[z] ELSE f[x][y][z]
  OBVIOUS

\* There are finitely many nodes.
LEMMA FiniteNodes == IsFiniteSet(Nodes)
  <1>1. NodeSeq \in Surjection(1 .. Len(NodeSeq), Nodes)
    <2>1. NodeSeq \in Seq(Nodes)
      BY DistributionAssumption
    <2>2. NodeSeq \in [1 .. Len(NodeSeq) -> Nodes]
      BY <2>1
    <2>3. QED
      BY <2>2, NodeFacts DEF Surjection
  <1>2. IsFiniteSet(1 .. Len(NodeSeq))
    BY NodeFacts, FS_Interval
  <1>3. QED
    BY <1>1, <1>2, FS_Surjection

\* The tables of a send are new ones.
LEMMA NewFacts ==
    ASSUME TaskTypes, CountTypes, TableInv, NetTypes,
           NEW n \in Nodes, NEW s \in sends[n]
    PROVE  /\ NewTables(n, s) \subseteq Tables
           /\ IsFiniteSet(NewTables(n, s))
           /\ NewTables(n, s) \cap sent = {}
           /\ \A t \in NewTables(n, s) :
                 /\ t.body = "table" /\ t.from = n /\ t.to \in s.to
                 /\ t.tracker = s.tracker /\ t.task = cur[n]
                 /\ t.rows = s.rows /\ t.id = next_id[n]
                 /\ t = table(n, s, t.to)
           /\ \A m \in s.to : /\ table(n, s, m) \in NewTables(n, s)
                              /\ table(n, s, m).to = m
  <1>1. s \in SendRecords
    BY DEF TaskTypes
  <1>2. /\ s.to \subseteq Nodes /\ s.tracker \in Trackers
        /\ s.rows \in BOOLEAN
    BY <1>1 DEF SendRecords
  <1>3. next_id[n] \in Nat /\ cur[n] \in Nat
    BY DEF TaskTypes, CountTypes
  <1>4. ASSUME NEW m \in s.to
        PROVE  /\ table(n, s, m) \in Tables
               /\ table(n, s, m).body = "table"
               /\ table(n, s, m).from = n /\ table(n, s, m).to = m
               /\ table(n, s, m).tracker = s.tracker
               /\ table(n, s, m).task = cur[n]
               /\ table(n, s, m).rows = s.rows
               /\ table(n, s, m).id = next_id[n]
    <2>1. m \in Nodes
      BY <1>2
    <2>2. QED
      BY <1>2, <1>3, <2>1 DEF table, Tables
  <1>5. IsFiniteSet(NewTables(n, s))
    <2> DEFINE f == [m \in s.to |-> table(n, s, m)]
    <2>1. f \in Surjection(s.to, NewTables(n, s))
      BY DEF Surjection, NewTables
    <2>2. IsFiniteSet(s.to)
      BY <1>2, FiniteNodes, FS_Subset
    <2>3. QED
      BY <2>1, <2>2, FS_Surjection
  <1>6. NewTables(n, s) \subseteq Tables
    BY <1>4 DEF NewTables
  <1>7. ASSUME NEW t \in NewTables(n, s)
        PROVE  /\ t.body = "table" /\ t.from = n /\ t.to \in s.to
               /\ t.tracker = s.tracker /\ t.task = cur[n]
               /\ t.rows = s.rows /\ t.id = next_id[n]
               /\ t = table(n, s, t.to)
    <2>1. PICK m \in s.to : t = table(n, s, m)
      BY DEF NewTables
    <2>2. QED
      BY <1>4, <2>1
  <1>8. \A m \in s.to : /\ table(n, s, m) \in NewTables(n, s)
                        /\ table(n, s, m).to = m
    BY <1>4 DEF NewTables
  <1>9. ASSUME NEW t \in NewTables(n, s), t \in sent PROVE FALSE
    <2>1. t \in Tab
      BY <1>7, <1>9 DEF Tab
    <2>2. t.id < next_id[t.from]
      BY <2>1 DEF TableInv
    <2>3. QED
      BY <1>3, <1>7, <2>2
  <1>10. QED
    BY <1>5, <1>6, <1>7, <1>8, <1>9

\* add_local and send_message add or skip.
LEMMA SendSteps ==
    ASSUME TaskTypes, CountTypes, NEW n \in Nodes,
           add_local(n) \/ send_message(n)
    PROVE  AddFrame /\ CountTypes' /\
           \E s \in sends[n] : Adds(n, s) \/ Skips(n, s)
  <1>1. /\ next_id \in [Nodes -> Nat]
        /\ node_count \in [Nodes -> [Trackers -> [Nodes -> Nat]]]
        /\ set_empty_part \in [Nodes -> BOOLEAN]
        /\ out_added \in [Nodes -> BOOLEAN]
        /\ cache_added \in [Nodes -> [Trackers -> BOOLEAN]]
        /\ processed \in [Nodes -> [Trackers -> Nat]]
    BY DEF CountTypes
  <1>2. sends \in [Nodes -> SUBSET SendRecords]
    BY DEF TaskTypes
  <1>3. CASE add_local(n)
    <2>1. PICK s \in sends[n] :
            LET k == s.tracker IN
            /\ s.to = {n}
            /\ \/ /\ s.rows \/ s.always \/ ~cache_added[n][k]
                  /\ sent' = sent \cup {table(n, s, n)}
                  /\ arrived' = arrived \cup {table(n, s, n)}
                  /\ processed' = [processed EXCEPT ![n][k] = @ + 1]
                  /\ cache_added' = [cache_added EXCEPT ![n][k] = TRUE]
                  /\ node_count' = [node_count EXCEPT ![n][k][n] = @ + 1]
                  /\ next_id' = [next_id EXCEPT ![n] = @ + 1]
               \/ /\ ~s.rows /\ ~s.always /\ cache_added[n][k]
                  /\ UNCHANGED <<sent, arrived, cacheVars, node_count, next_id>>
            /\ set_empty_part' = [set_empty_part EXCEPT ![n] = @ \/ s.always]
            /\ sends' = [sends EXCEPT ![n] = @ \ {s}]
            /\ UNCHANGED <<planVars, scatter_side, pc, todo, cur, attempts,
                           retries, failed, out_added, countVars, lost>>
      BY <1>3, Zenon DEF add_local
    <2> DEFINE k == s.tracker
    <2>2. k \in Trackers /\ s.always \in BOOLEAN
      BY <1>2 DEF SendRecords
    <2>3. AddFrame
      BY <2>1 DEF AddFrame
    <2>4. set_empty_part' \in [Nodes -> BOOLEAN]
      BY <1>1, <2>1, <2>2
    <2>5. CASE ~s.rows /\ ~s.always /\ cache_added[n][k]
                 /\ UNCHANGED <<sent, arrived, cacheVars, node_count, next_id>>
      <3>1. set_empty_part' = set_empty_part
        BY <1>1, <2>1, <2>5
      <3>2. Skips(n, s)
        BY <2>1, <2>5, <3>1 DEF Skips, trackVars
      <3>3. CountTypes'
        BY <2>1, <2>5, <3>1 DEF CountTypes, cacheVars, countVars
      <3>4. QED
        BY <2>3, <3>2, <3>3
    <2>6. CASE /\ sent' = sent \cup {table(n, s, n)}
               /\ arrived' = arrived \cup {table(n, s, n)}
               /\ processed' = [processed EXCEPT ![n][k] = @ + 1]
               /\ cache_added' = [cache_added EXCEPT ![n][k] = TRUE]
               /\ node_count' = [node_count EXCEPT ![n][k][n] = @ + 1]
               /\ next_id' = [next_id EXCEPT ![n] = @ + 1]
      <3>1. NewTables(n, s) = {table(n, s, n)}
        BY <2>1 DEF NewTables
      <3>2. /\ processed' \in [Nodes -> [Trackers -> Nat]]
            /\ \A x \in Nodes, j \in Trackers :
                  processed'[x][j] = IF x = n /\ j = k
                                     THEN processed[x][j] + 1
                                     ELSE processed[x][j]
        <4>1. processed[n][k] + 1 \in Nat
          BY <1>1, <2>2
        <4>2. processed' = [processed EXCEPT ![n][k] = processed[n][k] + 1]
          BY <2>6
        <4> HIDE DEF k
        <4>3. QED
          BY <1>1, <2>2, <4>1, <4>2, Nested
      <3>3. /\ cache_added' \in [Nodes -> [Trackers -> BOOLEAN]]
            /\ \A x \in Nodes, j \in Trackers :
                  cache_added'[x][j] <=>
                     cache_added[x][j] \/ (x = n /\ j = k)
        <4> HIDE DEF k
        <4>1. cache_added' = [cache_added EXCEPT ![n][k] = TRUE]
          BY <2>6
        <4>2. QED
          BY <1>1, <2>2, <4>1
      <3>4. /\ node_count' \in [Nodes -> [Trackers -> [Nodes -> Nat]]]
            /\ \A x \in Nodes, j \in Trackers, y \in Nodes :
                  node_count'[x][j][y] = IF x = n /\ j = k /\ y = n
                                         THEN node_count[x][j][y] + 1
                                         ELSE node_count[x][j][y]
        <4> DEFINE h == [node_count[n][k] EXCEPT ![n] = @ + 1]
        <4>1. /\ h \in [Nodes -> Nat]
              /\ \A y \in Nodes : h[y] = IF y = n THEN node_count[n][k][y] + 1
                                         ELSE node_count[n][k][y]
          BY <1>1, <2>2
        <4>2. node_count' = [node_count EXCEPT ![n][k] = h]
          BY <2>6
        <4> HIDE DEF k, h
        <4>3. /\ node_count' \in [Nodes -> [Trackers -> [Nodes -> Nat]]]
              /\ \A x \in Nodes, j \in Trackers, y \in Nodes :
                    node_count'[x][j][y] = IF x = n /\ j = k THEN h[y]
                                           ELSE node_count[x][j][y]
          BY <1>1, <2>2, <4>1, <4>2, NestedTwice
        <4>4. QED
          BY <4>1, <4>3
      <3>5. \A x \in Nodes : set_empty_part'[x] =>
               set_empty_part[x] \/ (x = n /\ s.to = {n} /\ s.always)
        BY <1>1, <2>1
      <3>6. next_id' \in [Nodes -> Nat]
        BY <1>1, <2>6
      <3> HIDE DEF k
      <3>7. CountTypes'
        BY <2>1, <2>4, <3>2, <3>3, <3>4, <3>6 DEF CountTypes, countVars
      <3>8. Adds(n, s)
        <4>1. \A y : y \in s.to <=> y = n
          BY <2>1
        <4>2. /\ s \in sends[n] /\ s.to = {n}
              /\ sends' = [sends EXCEPT ![n] = @ \ {s}]
              /\ sent' = sent \cup NewTables(n, s)
              /\ arrived' = arrived \cup NewTables(n, s)
              /\ next_id' = [next_id EXCEPT ![n] = @ + 1]
          BY <2>1, <2>6, <3>1
        <4>3. QED
          BY <3>2, <3>3, <3>4, <3>5, <4>1, <4>2 DEF Adds, k
      <3>9. QED
        BY <2>3, <3>7, <3>8
    <2>7. QED
      BY <2>1, <2>5, <2>6
  <1>4. CASE send_message(n)
    <2>1. PICK s \in sends[n] :
            /\ s.to # {n}
            /\ \/ /\ s.rows \/ s.always \/ ~out_added[n]
                  /\ sent' = sent \cup {table(n, s, m) : m \in s.to}
                  /\ node_count' = [node_count EXCEPT ![n][s.tracker] =
                       [m \in Nodes |-> IF m \in s.to THEN @[m] + 1 ELSE @[m]]]
                  /\ next_id' = [next_id EXCEPT ![n] = @ + 1]
                  /\ out_added' = [out_added EXCEPT ![n] = TRUE]
               \/ /\ ~s.rows /\ ~s.always /\ out_added[n]
                  /\ UNCHANGED <<sent, node_count, next_id, out_added>>
            /\ sends' = [sends EXCEPT ![n] = @ \ {s}]
            /\ UNCHANGED <<planVars, scatter_side, pc, todo, cur, attempts,
                           retries, failed, set_empty_part, cacheVars,
                           countVars, arrived, lost>>
      BY <1>4, Zenon DEF send_message
    <2> DEFINE k == s.tracker
    <2>2. k \in Trackers
      BY <1>2 DEF SendRecords
    <2>3. AddFrame
      BY <2>1 DEF AddFrame
    <2>4. CASE ~s.rows /\ ~s.always /\ out_added[n]
                  /\ UNCHANGED <<sent, node_count, next_id, out_added>>
      <3>1. Skips(n, s)
        BY <2>1, <2>4 DEF Skips, trackVars
      <3>2. CountTypes'
        BY <2>1, <2>4 DEF CountTypes, cacheVars, countVars
      <3>3. QED
        BY <2>3, <3>1, <3>2
    <2>5. CASE /\ sent' = sent \cup {table(n, s, m) : m \in s.to}
               /\ node_count' = [node_count EXCEPT ![n][s.tracker] =
                    [m \in Nodes |-> IF m \in s.to THEN @[m] + 1 ELSE @[m]]]
               /\ next_id' = [next_id EXCEPT ![n] = @ + 1]
               /\ out_added' = [out_added EXCEPT ![n] = TRUE]
      <3>1. /\ node_count' \in [Nodes -> [Trackers -> [Nodes -> Nat]]]
            /\ \A x \in Nodes, j \in Trackers, y \in Nodes :
                  node_count'[x][j][y] = IF x = n /\ j = k /\ y \in s.to
                                         THEN node_count[x][j][y] + 1
                                         ELSE node_count[x][j][y]
        <4> DEFINE h == [m \in Nodes |-> IF m \in s.to
                                         THEN node_count[n][k][m] + 1
                                         ELSE node_count[n][k][m]]
        <4>1. node_count[n][k] \in [Nodes -> Nat]
          BY <1>1, <2>2
        <4>2. /\ h \in [Nodes -> Nat]
              /\ \A y \in Nodes : h[y] = IF y \in s.to
                                         THEN node_count[n][k][y] + 1
                                         ELSE node_count[n][k][y]
          BY <4>1
        <4>3. node_count' = [node_count EXCEPT ![n][k] = h]
          BY <1>1, <2>2, <2>5
        <4> HIDE DEF k, h
        <4>4. /\ node_count' \in [Nodes -> [Trackers -> [Nodes -> Nat]]]
              /\ \A x \in Nodes, j \in Trackers, y \in Nodes :
                    node_count'[x][j][y] = IF x = n /\ j = k THEN h[y]
                                           ELSE node_count[x][j][y]
          BY <1>1, <2>2, <4>2, <4>3, NestedTwice
        <4>5. QED
          BY <4>2, <4>4
      <3>2. next_id' \in [Nodes -> Nat] /\ out_added' \in [Nodes -> BOOLEAN]
        BY <1>1, <2>5
      <3> HIDE DEF k
      <3>3. CountTypes'
        BY <2>1, <3>1, <3>2 DEF CountTypes, cacheVars, countVars
      <3>4. Adds(n, s)
        <4>1. /\ s \in sends[n] /\ s.to # {n}
              /\ sends' = [sends EXCEPT ![n] = @ \ {s}]
              /\ sent' = sent \cup NewTables(n, s)
              /\ arrived' = arrived
              /\ next_id' = [next_id EXCEPT ![n] = @ + 1]
              /\ processed' = processed /\ cache_added' = cache_added
              /\ set_empty_part' = set_empty_part
          BY <2>1, <2>5 DEF NewTables, cacheVars
        <4>2. QED
          BY <3>1, <4>1 DEF Adds, k
      <3>5. QED
        BY <2>3, <3>3, <3>4
    <2>6. QED
      BY <2>1, <2>4, <2>5
  <1>5. QED
    BY <1>3, <1>4

-----------------------------------------------------------------------------
(* Steps keep the types. *)

\* What is chosen at the start stays.
Fixed ==
    kind' = kind /\ join_type' = join_type /\ input' = input
    /\ estimate' = estimate

\* A decision is one of three.
LEMMA SmallSideTyped ==
    ASSUME NEW type, NEW bytes
    PROVE  small_side(type, bytes) \in Sides
  BY DEF small_side, Sides

\* Every step keeps the plan, and a node that has decided has decided.
LEMMA PlanSteps ==
    ASSUME PlanTypes, TaskTypes, CountTypes, Next
    PROVE  /\ PlanTypes'
           /\ Fixed
           /\ \A x \in Nodes :
                 Decided(x) => /\ Decided(x)'
                               /\ scatter_side'[x] = scatter_side[x]
  <1> DEFINE Kept == \A x \in Nodes :
                 Decided(x) => /\ Decided(x)'
                               /\ scatter_side'[x] = scatter_side[x]
  <1>1. /\ pc \in [Nodes -> Pcs] /\ scatter_side \in [Nodes -> Sides]
        /\ \A x \in Nodes : pc[x] \in {"estimate", "decide"} =>
               /\ kind = "join" /\ join_type # "outer"
               /\ estimate[x] \in Estimates
    BY DEF PlanTypes
  <1>2. ASSUME Fixed, scatter_side' \in [Nodes -> Sides],
               pc' \in [Nodes -> Pcs],
               \A x \in Nodes : pc'[x] \in {"estimate", "decide"} =>
                                pc[x] \in {"estimate", "decide"}
        PROVE  PlanTypes'
    BY <1>2 DEF PlanTypes, Fixed
  <1>3. ASSUME NEW n \in Nodes, NEW q \in Pcs,
               pc' = [pc EXCEPT ![n] = q],
               q \in {"estimate", "decide"} =>
                  pc[n] \in {"estimate", "decide"},
               Decided(n) => q \notin {"estimate", "decide"}
        PROVE  /\ pc' \in [Nodes -> Pcs]
               /\ \A x \in Nodes : pc'[x] \in {"estimate", "decide"} =>
                                   pc[x] \in {"estimate", "decide"}
               /\ \A x \in Nodes : Decided(x) => Decided(x)'
    BY <1>1, <1>3 DEF Decided
  <1>4. ASSUME NEW n \in Nodes, NEW q \in Pcs, Fixed,
               scatter_side' = scatter_side,
               pc' = [pc EXCEPT ![n] = q],
               q \in {"estimate", "decide"} =>
                  pc[n] \in {"estimate", "decide"},
               Decided(n) => q \notin {"estimate", "decide"}
        PROVE  PlanTypes' /\ Kept
    BY <1>1, <1>2, <1>3, <1>4
  <1>5. ASSUME Fixed, scatter_side' = scatter_side, pc' = pc
        PROVE  PlanTypes' /\ Kept
    BY <1>1, <1>2, <1>5 DEF Decided
  <1>6. ASSUME NEW n \in Nodes, send_estimates(n)
        PROVE  PlanTypes' /\ Fixed /\ Kept
    <2>1. /\ Fixed /\ scatter_side' = scatter_side
          /\ pc[n] = "estimate" /\ pc' = [pc EXCEPT ![n] = "decide"]
      BY <1>6 DEF send_estimates, Fixed, planVars
    <2>2. QED
      BY <1>4, <2>1 DEF Decided, Pcs
  <1>7. ASSUME NEW n \in Nodes,
               determine_if_we_are_scattering_a_small_table(n)
        PROVE  PlanTypes' /\ Fixed /\ Kept
    <2>1. /\ Fixed /\ pc[n] = "decide" /\ pc' = [pc EXCEPT ![n] = "tasks"]
          /\ \E b : scatter_side' =
                      [scatter_side EXCEPT ![n] = small_side(join_type, b)]
      BY <1>7 DEF determine_if_we_are_scattering_a_small_table, Fixed,
                  planVars
    <2>2. PICK d \in Sides : scatter_side' = [scatter_side EXCEPT ![n] = d]
      BY <2>1, SmallSideTyped
    <2>3. /\ scatter_side' \in [Nodes -> Sides]
          /\ \A x \in Nodes : x # n => scatter_side'[x] = scatter_side[x]
      BY <1>1, <2>2
    <2>4. /\ pc' \in [Nodes -> Pcs]
          /\ \A x \in Nodes : pc'[x] \in {"estimate", "decide"} =>
                              pc[x] \in {"estimate", "decide"}
          /\ \A x \in Nodes : Decided(x) => Decided(x)'
          /\ ~Decided(n)
      BY <1>3, <2>1 DEF Decided, Pcs
    <2>5. QED
      BY <1>2, <2>1, <2>3, <2>4
  <1>8. ASSUME NEW n \in Nodes, start_task(n)
        PROVE  PlanTypes' /\ Fixed /\ Kept
    <2>1. Fixed /\ scatter_side' = scatter_side /\ pc' = pc
      BY <1>8 DEF start_task, Fixed, planVars
    <2>2. QED
      BY <1>5, <2>1
  <1>9. ASSUME NEW n \in Nodes, add_local(n) \/ send_message(n)
        PROVE  PlanTypes' /\ Fixed /\ Kept
    <2>1. AddFrame
      BY <1>9, SendSteps
    <2>2. Fixed /\ scatter_side' = scatter_side /\ pc' = pc
      BY <2>1 DEF AddFrame, Fixed, planVars
    <2>3. QED
      BY <1>5, <2>2
  <1>10. ASSUME NEW n \in Nodes, bad_alloc(n)
         PROVE  PlanTypes' /\ Fixed /\ Kept
    <2>1. Fixed /\ scatter_side' = scatter_side /\ pc' = pc
      BY <1>10 DEF bad_alloc, Fixed, planVars
    <2>2. QED
      BY <1>5, <2>1
  <1>11. ASSUME NEW n \in Nodes,
                task_throws(n) \/ tasks_done(n) \/ leave_wait(n)
         PROVE  PlanTypes' /\ Fixed /\ Kept
    <2>1. /\ Fixed /\ scatter_side' = scatter_side
          /\ \/ pc' = pc
             \/ pc' = [pc EXCEPT ![n] = "threw"]
             \/ pc' = [pc EXCEPT ![n] = "counting"]
      BY <1>11 DEF task_throws, tasks_done, leave_wait, Fixed, planVars
    <2>2. QED
      BY <1>4, <1>5, <2>1 DEF Pcs
  <1>12. ASSUME NEW n \in Nodes, send_total_partition_counts(n)
         PROVE  PlanTypes' /\ Fixed /\ Kept
    <2>1. /\ Fixed /\ scatter_side' = scatter_side
          /\ pc' = pc \/ pc' = [pc EXCEPT ![n] = "summing"]
      BY <1>12 DEF send_total_partition_counts, Fixed, planVars
    <2>2. QED
      BY <1>4, <1>5, <2>1 DEF Pcs
  <1>13. ASSUME NEW n \in Nodes, get_total_partition_counts(n)
         PROVE  PlanTypes' /\ Fixed /\ Kept
    <2>1. /\ Fixed /\ scatter_side' = scatter_side
          /\ \/ pc' = [pc EXCEPT ![n] = "waiting"]
             \/ pc' = [pc EXCEPT ![n] = pc[n]]
      BY <1>13 DEF get_total_partition_counts, Fixed, planVars
    <2>2. pc' = pc \/ pc' = [pc EXCEPT ![n] = "waiting"]
      BY <1>1, <2>1
    <2>3. QED
      BY <1>4, <1>5, <2>1, <2>2 DEF Pcs
  <1>14. ASSUME NEW n \in Nodes, wait_for_count(n)
         PROVE  PlanTypes' /\ Fixed /\ Kept
    <2>1. /\ Fixed /\ scatter_side' = scatter_side
          /\ \/ pc' = [pc EXCEPT ![n] = "count_error"]
             \/ pc' = [pc EXCEPT ![n] = "summing"]
             \/ pc' = [pc EXCEPT ![n] = "returned"]
      BY <1>14 DEF wait_for_count, Fixed, planVars
    <2>2. QED
      BY <1>4, <2>1 DEF Pcs
  <1>15. ASSUME NEW m \in sent, receive(m) \/ lose(m)
         PROVE  PlanTypes' /\ Fixed /\ Kept
    <2>1. Fixed /\ scatter_side' = scatter_side /\ pc' = pc
      BY <1>15 DEF receive, lose, Fixed, planVars
    <2>2. QED
      BY <1>5, <2>1
  <1> HIDE DEF Kept
  <1>16. PlanTypes' /\ Fixed /\ Kept
    BY <1>6, <1>7, <1>8, <1>9, <1>10, <1>11, <1>12, <1>13, <1>14, <1>15
       DEF Next, node_step
  <1>17. QED
    BY <1>16 DEF Kept

\* The trackers counted, and where rows belong, are as they were.
LEMMA PlanKept ==
    ASSUME Fixed, NEW n \in Nodes, scatter_side'[n] = scatter_side[n]
    PROVE  /\ count_trackers(n)' = count_trackers(n)
           /\ small_tracker(n)' = small_tracker(n)
           /\ \A t : belongs(n, t)' = belongs(n, t)
  <1>1. num_partitions_per_node' = num_partitions_per_node
    BY DEF Fixed, num_partitions_per_node
  <1>2. small_tracker(n)' = small_tracker(n)
    BY DEF small_tracker
  <1>3. join_trackers(n)' = join_trackers(n)
        /\ partition_trackers' = partition_trackers
    BY <1>1, <1>2 DEF join_trackers, partition_trackers
  <1>4. count_trackers(n)' = count_trackers(n)
    BY <1>3 DEF count_trackers, Fixed
  <1>5. \A t : belongs(n, t)' = belongs(n, t)
    BY <1>1, <1>2 DEF belongs, Fixed
  <1>6. QED
    BY <1>2, <1>4, <1>5

\* Sets of tables are finite.
LEMMA TableSets ==
    ASSUME NetTypes
    PROVE  /\ IsFiniteSet(Tab) /\ IsFiniteSet(arrived)
           /\ \A T \in SUBSET sent : IsFiniteSet(T) /\ Cardinality(T) \in Nat
  <1>1. ASSUME NEW T \in SUBSET sent
        PROVE  IsFiniteSet(T) /\ Cardinality(T) \in Nat
    BY FS_Subset, FS_CardinalityType DEF NetTypes
  <1>2. Tab \in SUBSET sent /\ arrived \in SUBSET sent
    BY DEF Tab, NetTypes
  <1>3. QED
    BY <1>1, <1>2

\* When a wait ends it has found the tables that were announced, and these
\* are all there are.
LEMMA WaitFacts ==
    ASSUME PlanTypes, CountTypes, NetTypes, CountInv, StepInv, SumInv,
           NEW n \in Nodes, wait_for_count(n)
    PROVE  LET k == count_trackers(n)[step[n]] IN
           /\ step[n] \in DOMAIN count_trackers(n) /\ k \in Trackers
           /\ pc[n] = "waiting" /\ to_ask[n] = {}
           /\ \A m \in Nodes : Past(m)
           /\ TablesTo(n, k) \subseteq arrived
           /\ \/ /\ step[n] < Len(count_trackers(n))
                 /\ begin_sum(n, step[n] + 1)
                 /\ pc' = [pc EXCEPT ![n] = "summing"]
              \/ /\ step[n] = Len(count_trackers(n))
                 /\ pc' = [pc EXCEPT ![n] = "returned"]
                 /\ UNCHANGED countVars
  <1> DEFINE k == count_trackers(n)[step[n]]
             total == total_count[n]
             found == processed[n][k]
  <1>1. /\ pc[n] = "waiting" /\ found >= total
        /\ \/ /\ step[n] < Len(count_trackers(n))
              /\ begin_sum(n, step[n] + 1)
              /\ pc' = [pc EXCEPT ![n] =
                          IF found > total THEN "count_error" ELSE "summing"]
           \/ /\ step[n] = Len(count_trackers(n))
              /\ pc' = [pc EXCEPT ![n] =
                          IF found > total THEN "count_error" ELSE "returned"]
              /\ UNCHANGED countVars
    BY DEF wait_for_count
  <1>2. /\ step[n] \in DOMAIN count_trackers(n) /\ to_ask[n] = {}
        /\ \A m \in Nodes : Past(m)
        /\ total = Cardinality(Heard(n, k))
    BY <1>1 DEF StepInv, SumInv, SumOf
  <1>3. k \in Trackers
    BY <1>2, TrackerFacts
  <1>4. found = Cardinality(cached(n, k))
    BY <1>3 DEF CountInv
  <1>5. Heard(n, k) = TablesTo(n, k)
    BY <1>2 DEF Heard
  <1>6. TablesTo(n, k) \in SUBSET sent /\ cached(n, k) \in SUBSET TablesTo(n, k)
        /\ cached(n, k) \subseteq arrived
    BY DEF TablesTo, Tab, cached, NetTypes
  <1> HIDE DEF k
  <1>7. /\ IsFiniteSet(TablesTo(n, k)) /\ total \in Nat
        /\ cached(n, k) \in SUBSET sent
    BY <1>2, <1>5, <1>6, TableSets
  <1>8. found \in Nat
    BY <1>4, <1>7, TableSets
  <1>9. /\ Cardinality(cached(n, k)) <= Cardinality(TablesTo(n, k))
        /\ Cardinality(TablesTo(n, k)) = Cardinality(cached(n, k)) =>
              TablesTo(n, k) = cached(n, k)
    BY <1>6, <1>7, FS_Subset
  <1>10. found = total
    BY <1>1, <1>2, <1>4, <1>5, <1>7, <1>8, <1>9
  <1>11. ~(found > total)
    BY <1>8, <1>10
  <1>12. TablesTo(n, k) \subseteq arrived
    BY <1>2, <1>4, <1>5, <1>6, <1>9, <1>10
  <1>13. QED
    BY <1>1, <1>2, <1>3, <1>11, <1>12 DEF k

\* No step changes the tasks in any other way than these.
LEMMA TaskCases ==
    ASSUME Next
    PROVE  \/ UNCHANGED taskVars
           \/ \E n \in Nodes : \/ start_task(n) \/ bad_alloc(n)
                               \/ add_local(n) \/ send_message(n)
                               \/ task_throws(n)
  <1>1. \A n \in Nodes :
           \/ send_estimates(n)
           \/ determine_if_we_are_scattering_a_small_table(n)
           \/ tasks_done(n) \/ leave_wait(n)
           \/ send_total_partition_counts(n)
           \/ get_total_partition_counts(n) \/ wait_for_count(n)
           => UNCHANGED taskVars
    BY DEF send_estimates, determine_if_we_are_scattering_a_small_table,
           tasks_done, leave_wait, send_total_partition_counts,
           get_total_partition_counts, wait_for_count
  <1>2. \A m : receive(m) \/ lose(m) => UNCHANGED taskVars
    BY DEF receive, lose
  <1>3. QED
    BY <1>1, <1>2 DEF Next, node_step

\* start_task, and what it leaves alone.
LEMMA StartFacts ==
    ASSUME PlanTypes, TaskTypes, NEW n \in Nodes, start_task(n)
    PROVE  LET t == Head(todo[n]) IN
           /\ Decided(n) /\ sends[n] = {} /\ todo[n] # <<>>
           /\ t \in DOMAIN input[n] /\ t \in Nat
           /\ cur' = [cur EXCEPT ![n] = t]
           /\ sends' = [sends EXCEPT ![n] =
                          do_process(n, input[n][t].side, input[n][t].rows)]
           /\ todo' = [todo EXCEPT ![n] = Tail(todo[n])]
           /\ ToSet(todo[n]) = ToSet(Tail(todo[n])) \cup {t}
           /\ Tail(todo[n]) \in Seq(Nat)
           /\ IsInjective(todo[n]) => /\ IsInjective(Tail(todo[n]))
                                      /\ t \notin ToSet(Tail(todo[n]))
           /\ Fixed
           /\ UNCHANGED <<scatter_side, pc, attempts, retries, failed,
                          trackVars, cacheVars, countVars, netVars>>
  <1> DEFINE t == Head(todo[n])
  <1>1. /\ Decided(n) /\ sends[n] = {} /\ todo[n] # <<>>
        /\ cur' = [cur EXCEPT ![n] = t]
        /\ sends' = [sends EXCEPT ![n] =
                       do_process(n, input[n][t].side, input[n][t].rows)]
        /\ todo' = [todo EXCEPT ![n] = Tail(todo[n])]
        /\ Fixed
        /\ UNCHANGED <<scatter_side, pc, attempts, retries, failed,
                       trackVars, cacheVars, countVars, netVars>>
    BY DEF start_task, Decided, Fixed, planVars
  <1>2. todo[n] \in Seq(Nat) /\ ToSet(todo[n]) \subseteq DOMAIN input[n]
    BY DEF TaskTypes
  <1>3. /\ t \in Nat /\ t \in ToSet(todo[n]) /\ Tail(todo[n]) \in Seq(Nat)
        /\ ToSet(todo[n]) = ToSet(Tail(todo[n])) \cup {t}
        /\ IsInjective(todo[n]) => /\ IsInjective(Tail(todo[n]))
                                   /\ t \notin ToSet(Tail(todo[n]))
    BY <1>1, <1>2, TailQueue
  <1> HIDE DEF t
  <1>4. QED
    BY <1>1, <1>2, <1>3 DEF t

\* bad_alloc, and what it leaves alone.
LEMMA BadFacts ==
    ASSUME PlanTypes, TaskTypes, TaskInv, NEW n \in Nodes, bad_alloc(n)
    PROVE  /\ Decided(n) /\ sends[n] # {} /\ cur[n] \in DOMAIN input[n]
           /\ cur[n] \in Nat /\ retries' = retries + 1
           /\ sends' = [sends EXCEPT ![n] = {}]
           /\ attempts[n][cur[n]] < attempts_limit
           /\ \/ /\ attempts[n][cur[n]] + 1 < attempts_limit
                 /\ attempts' = [attempts EXCEPT ![n][cur[n]] = @ + 1]
                 /\ todo' = [todo EXCEPT ![n] = Append(todo[n], cur[n])]
                 /\ failed' = failed
              \/ /\ failed' = failed \cup {n}
                 /\ attempts' = attempts /\ todo' = todo
           /\ Append(todo[n], cur[n]) \in Seq(Nat)
           /\ ToSet(Append(todo[n], cur[n])) = ToSet(todo[n]) \cup {cur[n]}
           /\ Fixed
           /\ UNCHANGED <<scatter_side, pc, cur, trackVars, cacheVars,
                          countVars, netVars>>
  <1>1. sends[n] # {}
    BY DEF bad_alloc, allocates
  <1>2. /\ Decided(n) /\ cur[n] \in DOMAIN input[n]
        /\ \A t \in DOMAIN input[n] : attempts[n][t] < attempts_limit
    BY <1>1 DEF TaskInv, TaskOf
  <1>3. todo[n] \in Seq(Nat) /\ cur[n] \in Nat
    BY DEF TaskTypes
  <1>4. /\ Append(todo[n], cur[n]) \in Seq(Nat)
        /\ ToSet(Append(todo[n], cur[n])) = ToSet(todo[n]) \cup {cur[n]}
    BY <1>3, AppendQueue
  <1>5. /\ retries' = retries + 1
        /\ sends' = [sends EXCEPT ![n] = {}]
        /\ Fixed
        /\ UNCHANGED <<scatter_side, pc, cur, trackVars, cacheVars,
                       countVars, netVars>>
    BY DEF bad_alloc, Fixed, planVars
  <1>6. \/ /\ attempts[n][cur[n]] + 1 < attempts_limit
           /\ attempts' = [attempts EXCEPT ![n][cur[n]] = @ + 1]
           /\ todo' = [todo EXCEPT ![n] = Append(todo[n], cur[n])]
           /\ failed' = failed
        \/ /\ failed' = failed \cup {n}
           /\ attempts' = attempts /\ todo' = todo
    BY DEF bad_alloc
  <1>7. QED
    BY <1>1, <1>2, <1>3, <1>4, <1>5, <1>6

\* task_throws drops the current task or none.
LEMMA ThrowFacts ==
    ASSUME TaskTypes, TaskInv, NEW n \in Nodes, task_throws(n)
    PROVE  /\ failed' = failed \cup {n}
           /\ sends' \in [Nodes -> SUBSET SendRecords]
           /\ \A x \in Nodes : sends'[x] = sends[x] \/ sends'[x] = {}
           /\ pc' = pc \/ (pc' = [pc EXCEPT ![n] = "threw"] /\ Decided(n))
           /\ Fixed
           /\ UNCHANGED <<scatter_side, todo, cur, attempts, retries,
                          trackVars, cacheVars, countVars, netVars>>
  <1>0. pc' = pc \/ (pc' = [pc EXCEPT ![n] = "threw"] /\ sends[n] # {})
    <2>1. CASE UNCHANGED <<sends, pc>>
      BY <2>1
    <2>2. CASE /\ sends[n] # {}
               /\ pc' = IF on_big_side(n, cur[n])
                        THEN [pc EXCEPT ![n] = "threw"] ELSE pc
      <3>1. CASE on_big_side(n, cur[n])
        BY <2>2, <3>1
      <3>2. CASE ~on_big_side(n, cur[n])
        BY <2>2, <3>2
      <3>3. QED
        BY <3>1, <3>2
    <2>3. QED
      BY <2>1, <2>2 DEF task_throws
  <1>1. /\ failed' = failed \cup {n}
        /\ sends' = sends \/ sends' = [sends EXCEPT ![n] = {}]
        /\ Fixed
        /\ UNCHANGED <<scatter_side, todo, cur, attempts, retries,
                       trackVars, cacheVars, countVars, netVars>>
    BY DEF task_throws, Fixed, planVars
  <1>2. sends \in [Nodes -> SUBSET SendRecords]
    BY DEF TaskTypes
  <1>3. /\ sends' \in [Nodes -> SUBSET SendRecords]
        /\ \A x \in Nodes : sends'[x] = sends[x] \/ sends'[x] = {}
    BY <1>1, <1>2
  <1>4. sends[n] # {} => Decided(n)
    BY DEF TaskInv, TaskOf
  <1>5. QED
    BY <1>0, <1>1, <1>3, <1>4

\* A task that is run again has one more attempt.
LEMMA AttemptFacts ==
    ASSUME PlanTypes, TaskTypes, NEW n \in Nodes,
           cur[n] \in DOMAIN input[n], attempts[n][cur[n]] < attempts_limit,
           attempts' = [attempts EXCEPT ![n][cur[n]] = @ + 1]
    PROVE  /\ attempts' \in [Nodes -> AttemptTables]
           /\ \A x \in Nodes : x # n => attempts'[x] = attempts[x]
           /\ attempts'[n] \in [DOMAIN input[n] -> 0 .. attempts_limit]
           /\ \A t \in DOMAIN input[n] :
                 attempts'[n][t] = IF t = cur[n] THEN attempts[n][t] + 1
                                   ELSE attempts[n][t]
  <1>1. /\ attempts \in [Nodes -> AttemptTables]
        /\ attempts[n] \in [DOMAIN input[n] -> 0 .. attempts_limit]
    BY DEF TaskTypes
  <1>2. PICK g : g = [attempts[n] EXCEPT ![cur[n]] = @ + 1]
    OBVIOUS
  <1>3. attempts[n][cur[n]] + 1 \in 0 .. attempts_limit
    <2>1. attempts_limit \in Nat
      BY DistributionAssumption
    <2>2. attempts[n][cur[n]] \in 0 .. attempts_limit
      BY <1>1
    <2>3. QED
      BY <2>1, <2>2
  <1>4. /\ g \in [DOMAIN input[n] -> 0 .. attempts_limit]
        /\ \A t \in DOMAIN input[n] :
              g[t] = IF t = cur[n] THEN attempts[n][t] + 1
                     ELSE attempts[n][t]
    BY <1>1, <1>2, <1>3
  <1>5. attempts' = [attempts EXCEPT ![n] = g]
    BY <1>2
  <1>6. g \in AttemptTables
    BY <1>4, InputFacts DEF AttemptTables
  <1>7. attempts' \in [Nodes -> AttemptTables] /\ attempts'[n] = g
        /\ \A x \in Nodes : x # n => attempts'[x] = attempts[x]
    BY <1>1, <1>5, <1>6
  <1>8. QED
    BY <1>4, <1>7

\* Steps keep the types of the tasks.
LEMMA TaskTypesSteps ==
    ASSUME PlanTypes, TaskTypes, CountTypes, TaskInv, Next
    PROVE  TaskTypes'
  <1>1. input' = input
    BY PlanSteps DEF Fixed
  <1>2. /\ todo \in [Nodes -> Seq(Nat)] /\ cur \in [Nodes -> Nat]
        /\ sends \in [Nodes -> SUBSET SendRecords]
        /\ attempts \in [Nodes -> AttemptTables] /\ retries \in Nat
        /\ failed \subseteq Nodes
        /\ \A x \in Nodes :
              /\ ToSet(todo[x]) \subseteq DOMAIN input[x]
              /\ cur[x] \in 0 .. Len(input[x])
              /\ attempts[x] \in [DOMAIN input[x] -> 0 .. attempts_limit]
    BY DEF TaskTypes
  <1>3. CASE UNCHANGED taskVars
    BY <1>1, <1>2, <1>3 DEF TaskTypes, taskVars
  <1>4. ASSUME NEW n \in Nodes, start_task(n) PROVE TaskTypes'
    <2>0. PICK t, S, r :
              /\ t = Head(todo[n]) /\ r = Tail(todo[n])
              /\ S = do_process(n, input[n][t].side, input[n][t].rows)
      OBVIOUS
    <2>1. /\ t \in Nat /\ t \in DOMAIN input[n] /\ r \in Seq(Nat)
          /\ ToSet(todo[n]) = ToSet(r) \cup {t}
          /\ cur' = [cur EXCEPT ![n] = t]
          /\ sends' = [sends EXCEPT ![n] = S]
          /\ todo' = [todo EXCEPT ![n] = r]
          /\ attempts' = attempts /\ retries' = retries /\ failed' = failed
      BY <1>4, <2>0, StartFacts
    <2>2. S \in SUBSET SendRecords
      BY <2>0, <2>1, DoProcessComplete DEF Complete
    <2>3. t \in 0 .. Len(input[n])
      BY <2>1, InputFacts
    <2>4. /\ todo' \in [Nodes -> Seq(Nat)] /\ cur' \in [Nodes -> Nat]
          /\ sends' \in [Nodes -> SUBSET SendRecords]
      BY <1>2, <2>1, <2>2
    <2>5. ASSUME NEW x \in Nodes
          PROVE  /\ ToSet(todo'[x]) \subseteq DOMAIN input[x]
                 /\ cur'[x] \in 0 .. Len(input[x])
      <3>1. CASE x = n
        <4>1. todo'[x] = r /\ cur'[x] = t
          BY <1>2, <2>1, <3>1
        <4>2. QED
          BY <1>2, <2>1, <2>3, <3>1, <4>1
      <3>2. CASE x # n
        BY <1>2, <2>1, <3>2
      <3>3. QED
        BY <3>1, <3>2
    <2>6. QED
      BY <1>1, <1>2, <2>1, <2>4, <2>5 DEF TaskTypes
  <1>5. ASSUME NEW n \in Nodes, bad_alloc(n) PROVE TaskTypes'
    <2>1. /\ cur[n] \in DOMAIN input[n] /\ cur' = cur
          /\ retries' = retries + 1
          /\ sends' = [sends EXCEPT ![n] = {}]
          /\ attempts[n][cur[n]] < attempts_limit
          /\ failed' \subseteq failed \cup {n}
      BY <1>5, BadFacts
    <2>2. retries' \in Nat /\ sends' \in [Nodes -> SUBSET SendRecords]
      BY <1>2, <2>1
    <2>3. /\ attempts' \in [Nodes -> AttemptTables]
          /\ \A x \in Nodes :
                attempts'[x] \in [DOMAIN input[x] -> 0 .. attempts_limit]
      <3>1. CASE attempts' = attempts
        BY <1>2, <3>1
      <3>2. CASE attempts' = [attempts EXCEPT ![n][cur[n]] = @ + 1]
        <4>1. /\ attempts' \in [Nodes -> AttemptTables]
              /\ \A x \in Nodes : x # n => attempts'[x] = attempts[x]
              /\ attempts'[n] \in [DOMAIN input[n] -> 0 .. attempts_limit]
          BY <2>1, <3>2, AttemptFacts
        <4>2. QED
          BY <1>2, <4>1
      <3>3. QED
        BY <1>5, <3>1, <3>2, BadFacts
    <2>4. /\ todo' \in [Nodes -> Seq(Nat)]
          /\ \A x \in Nodes : ToSet(todo'[x]) \subseteq DOMAIN input[x]
      <3>1. CASE todo' = todo
        BY <1>2, <3>1
      <3>2. CASE todo' = [todo EXCEPT ![n] = Append(todo[n], cur[n])]
        <4>1. PICK q \in Seq(Nat) : /\ todo' = [todo EXCEPT ![n] = q]
                                    /\ ToSet(q) = ToSet(todo[n]) \cup {cur[n]}
          BY <1>5, <3>2, BadFacts
        <4>2. todo' \in [Nodes -> Seq(Nat)] /\ todo'[n] = q
              /\ \A x \in Nodes : x # n => todo'[x] = todo[x]
          BY <1>2, <4>1
        <4>3. QED
          BY <1>2, <2>1, <4>1, <4>2
      <3>3. QED
        BY <1>5, <3>1, <3>2, BadFacts
    <2>5. QED
      BY <1>1, <1>2, <2>1, <2>2, <2>3, <2>4 DEF TaskTypes
  <1>6. ASSUME NEW n \in Nodes, add_local(n) \/ send_message(n)
        PROVE  TaskTypes'
    <2>1. /\ UNCHANGED <<todo, cur, attempts, retries, failed>>
          /\ \E s : sends' = [sends EXCEPT ![n] = @ \ {s}]
      BY <1>6, SendSteps DEF AddFrame, Adds, Skips
    <2>2. sends' \in [Nodes -> SUBSET SendRecords]
      BY <1>2, <2>1
    <2>3. QED
      BY <1>1, <1>2, <2>1, <2>2 DEF TaskTypes
  <1>7. ASSUME NEW n \in Nodes, task_throws(n) PROVE TaskTypes'
    <2>1. /\ UNCHANGED <<todo, cur, attempts, retries>>
          /\ sends' \in [Nodes -> SUBSET SendRecords]
          /\ failed' = failed \cup {n}
      BY <1>7, ThrowFacts
    <2>2. QED
      BY <1>1, <1>2, <2>1 DEF TaskTypes
  <1>8. QED
    BY <1>3, <1>4, <1>5, <1>6, <1>7, TaskCases

\* A task that is under way stays one of the batches.
LEMMA TaskSteps ==
    ASSUME PlanTypes, TaskTypes, CountTypes, TaskInv, Next
    PROVE  TaskInv'
  <1>1. /\ input' = input /\ \A x \in Nodes : Decided(x) => Decided(x)'
    BY PlanSteps DEF Fixed
  <1>2. /\ todo \in [Nodes -> Seq(Nat)] /\ cur \in [Nodes -> Nat]
        /\ sends \in [Nodes -> SUBSET SendRecords]
        /\ \A x \in Nodes :
              attempts[x] \in [DOMAIN input[x] -> 0 .. attempts_limit]
    BY DEF TaskTypes
  <1>3. \A x \in Nodes : TaskOf(x)
    BY DEF TaskInv
  \* Nodes of which only Decided changes, or whose task is dropped.
  <1>4. ASSUME NEW x \in Nodes, todo'[x] = todo[x], cur'[x] = cur[x],
               attempts'[x] = attempts[x], sends'[x] \subseteq sends[x]
        PROVE  TaskOf(x)'
    BY <1>1, <1>3, <1>4 DEF TaskOf
  <1>5. CASE UNCHANGED taskVars
    <2>1. \A x \in Nodes : TaskOf(x)'
      BY <1>4, <1>5 DEF taskVars
    <2>2. QED
      BY <2>1 DEF TaskInv
  <1>6. ASSUME NEW n \in Nodes, start_task(n) PROVE TaskInv'
    <2>0. PICK t, S, r :
              /\ t = Head(todo[n]) /\ r = Tail(todo[n])
              /\ S = do_process(n, input[n][t].side, input[n][t].rows)
      OBVIOUS
    <2>1. /\ t \in Nat /\ t \in DOMAIN input[n] /\ Decided(n)
          /\ cur' = [cur EXCEPT ![n] = t]
          /\ sends' = [sends EXCEPT ![n] = S]
          /\ todo' = [todo EXCEPT ![n] = r]
          /\ attempts' = attempts
      BY <1>6, <2>0, StartFacts
    <2>2. ASSUME NEW x \in Nodes PROVE TaskOf(x)'
      <3>1. CASE x = n
        <4>1. cur'[x] = t /\ Decided(x)' /\ attempts'[x] = attempts[x]
          BY <1>1, <1>2, <2>1, <3>1
        <4>2. \A i \in DOMAIN input[x] : attempts[x][i] < attempts_limit
          BY <1>3 DEF TaskOf
        <4>3. QED
          BY <1>1, <2>1, <3>1, <4>1, <4>2 DEF TaskOf
      <3>2. CASE x # n
        BY <1>2, <1>4, <2>1, <3>2
      <3>3. QED
        BY <3>1, <3>2
    <2>3. QED
      BY <2>2 DEF TaskInv
  <1>7. ASSUME NEW n \in Nodes, bad_alloc(n) PROVE TaskInv'
    <2>1. /\ Decided(n) /\ cur' = cur
          /\ sends' = [sends EXCEPT ![n] = {}]
          /\ cur[n] \in DOMAIN input[n]
          /\ attempts[n][cur[n]] < attempts_limit
      BY <1>7, BadFacts
    <2>2. /\ \A x \in Nodes : x # n => /\ todo'[x] = todo[x]
                                       /\ attempts'[x] = attempts[x]
          /\ \A i \in DOMAIN input[n] : attempts'[n][i] < attempts_limit
      <3>0. \A i \in DOMAIN input[n] : attempts[n][i] < attempts_limit
        BY <1>3 DEF TaskOf
      <3>1. CASE /\ attempts[n][cur[n]] + 1 < attempts_limit
                 /\ attempts' = [attempts EXCEPT ![n][cur[n]] = @ + 1]
                 /\ todo' = [todo EXCEPT ![n] = Append(todo[n], cur[n])]
        <4>1. /\ \A x \in Nodes : x # n => attempts'[x] = attempts[x]
              /\ \A t \in DOMAIN input[n] :
                 attempts'[n][t] = IF t = cur[n] THEN attempts[n][t] + 1
                                   ELSE attempts[n][t]
          BY <2>1, <3>1, AttemptFacts
        <4>2. \A x \in Nodes : x # n => todo'[x] = todo[x]
          BY <1>2, <3>1
        <4>3. QED
          BY <2>1, <3>0, <3>1, <4>1, <4>2
      <3>2. CASE attempts' = attempts /\ todo' = todo
        BY <3>0, <3>2
      <3>3. QED
        BY <1>7, <3>1, <3>2, BadFacts
    <2>3. ASSUME NEW x \in Nodes PROVE TaskOf(x)'
      <3>1. CASE x = n
        <4>1. sends'[x] = {} /\ Decided(x)'
          BY <1>1, <1>2, <2>1, <3>1
        <4>2. QED
          BY <1>1, <2>2, <3>1, <4>1 DEF TaskOf
      <3>2. CASE x # n
        BY <1>2, <1>4, <2>1, <2>2, <3>2
      <3>3. QED
        BY <3>1, <3>2
    <2>4. QED
      BY <2>3 DEF TaskInv
  <1>8. ASSUME NEW n \in Nodes, add_local(n) \/ send_message(n)
        PROVE  TaskInv'
    <2>1. PICK s \in sends[n] : sends' = [sends EXCEPT ![n] = @ \ {s}]
      BY <1>8, SendSteps DEF Adds, Skips
    <2>2. UNCHANGED <<todo, cur, attempts>>
      BY <1>8, SendSteps DEF AddFrame
    <2>3. \A x \in Nodes : sends'[x] \subseteq sends[x]
      BY <1>2, <2>1
    <2>4. QED
      BY <1>4, <2>2, <2>3 DEF TaskInv
  <1>9. ASSUME NEW n \in Nodes, task_throws(n) PROVE TaskInv'
    <2>1. /\ UNCHANGED <<todo, cur, attempts>>
          /\ \A x \in Nodes : sends'[x] \subseteq sends[x]
      BY <1>9, ThrowFacts
    <2>2. QED
      BY <1>4, <2>1 DEF TaskInv
  <1>10. QED
    BY <1>5, <1>6, <1>7, <1>8, <1>9, TaskCases

\* While no task threw, none is left to a kernel that goes on.
LEMMA QuietSteps ==
    ASSUME PlanTypes, TaskTypes, CountTypes, NetTypes, TaskInv, CountInv,
           StepInv, SumInv, Quiet, Next, failed = {}, failed' = {}
    PROVE  Quiet'
  <1>1. pc \in [Nodes -> Pcs]
    BY DEF PlanTypes
  <1>2. /\ todo \in [Nodes -> Seq(Nat)]
        /\ sends \in [Nodes -> SUBSET SendRecords]
    BY DEF TaskTypes
  <1>3. \A x \in Nodes : /\ Past(x) => todo[x] = <<>> /\ sends[x] = {}
                         /\ pc[x] \notin {"threw", "count_error"}
    BY DEF Quiet
  \* A node that is past its tasks stays so.
  <1>4. ASSUME NEW n \in Nodes, NEW q, pc' = [pc EXCEPT ![n] = q],
               q # "threw", q # "count_error", UNCHANGED <<todo, sends>>,
               q \in {"decide", "tasks"} \/ (todo[n] = <<>> /\ sends[n] = {})
        PROVE  Quiet'
    BY <1>1, <1>3, <1>4 DEF Quiet, Past
  <1>0. ASSUME UNCHANGED <<todo, sends, pc>> PROVE Quiet'
    BY <1>0, <1>3 DEF Quiet, Past
  \* One that is not may change its tasks.
  <1>5. ASSUME NEW n \in Nodes, ~Past(n), pc' = pc,
               \A x \in Nodes : x # n => todo'[x] = todo[x]
                                         /\ sends'[x] = sends[x]
        PROVE  Quiet'
    BY <1>3, <1>5 DEF Quiet, Past
  <1>6. ASSUME NEW n \in Nodes, send_estimates(n) PROVE Quiet'
    <2>1. pc' = [pc EXCEPT ![n] = "decide"] /\ UNCHANGED <<todo, sends>>
      BY <1>6 DEF send_estimates, taskVars
    <2>2. QED
      BY <1>1, <1>3, <2>1 DEF Quiet, Past
  <1>7. ASSUME NEW n \in Nodes,
               determine_if_we_are_scattering_a_small_table(n)
        PROVE  Quiet'
    <2>1. pc' = [pc EXCEPT ![n] = "tasks"] /\ UNCHANGED <<todo, sends>>
      BY <1>7 DEF determine_if_we_are_scattering_a_small_table, taskVars
    <2>2. QED
      BY <1>1, <1>3, <2>1 DEF Quiet, Past
  <1>8. ASSUME NEW n \in Nodes, start_task(n) PROVE Quiet'
    <2>1. /\ todo[n] # <<>> /\ pc' = pc
          /\ \E S : sends' = [sends EXCEPT ![n] = S]
          /\ \E q : todo' = [todo EXCEPT ![n] = q]
      BY <1>8, StartFacts
    <2>2. ~Past(n) /\ \A x \in Nodes : x # n => todo'[x] = todo[x]
                                               /\ sends'[x] = sends[x]
      BY <1>2, <1>3, <2>1
    <2>3. QED
      BY <1>5, <2>1, <2>2
  <1>9. ASSUME NEW n \in Nodes, bad_alloc(n) PROVE Quiet'
    <2>1. /\ sends[n] # {} /\ pc' = pc
          /\ sends' = [sends EXCEPT ![n] = {}]
          /\ todo' = todo \/ \E q : todo' = [todo EXCEPT ![n] = q]
      BY <1>9, BadFacts
    <2>2. ~Past(n) /\ \A x \in Nodes : x # n => todo'[x] = todo[x]
                                               /\ sends'[x] = sends[x]
      BY <1>2, <1>3, <2>1
    <2>3. QED
      BY <1>5, <2>1, <2>2
  <1>10. ASSUME NEW n \in Nodes, add_local(n) \/ send_message(n)
         PROVE  Quiet'
    <2>1. PICK s \in sends[n] : sends' = [sends EXCEPT ![n] = @ \ {s}]
      BY <1>10, SendSteps DEF Adds, Skips
    <2>2. pc' = pc /\ todo' = todo
      BY <1>10, SendSteps DEF AddFrame
    <2>3. ~Past(n) /\ \A x \in Nodes : x # n => todo'[x] = todo[x]
                                               /\ sends'[x] = sends[x]
      BY <1>2, <1>3, <2>1, <2>2
    <2>4. QED
      BY <1>5, <2>2, <2>3
  <1>11. ASSUME NEW n \in Nodes, tasks_done(n) PROVE Quiet'
    <2>1. /\ sends[n] = {} /\ todo[n] = <<>>
          /\ pc' = [pc EXCEPT ![n] = "counting"] /\ UNCHANGED <<todo, sends>>
      BY <1>11 DEF tasks_done, taskVars
    <2>2. QED
      BY <1>4, <2>1
  <1>12. ASSUME NEW n \in Nodes, Past(n), UNCHANGED <<todo, sends>>, NEW q,
                q \in {"counting", "summing", "waiting", "returned"},
                pc' = pc \/ pc' = [pc EXCEPT ![n] = q]
         PROVE  Quiet'
    BY <1>0, <1>3, <1>4, <1>12
  <1>13. ASSUME NEW n \in Nodes, send_total_partition_counts(n)
         PROVE  Quiet'
    <2>1. /\ Past(n) /\ UNCHANGED <<todo, sends>>
          /\ pc' = pc \/ pc' = [pc EXCEPT ![n] = "summing"]
      BY <1>13 DEF send_total_partition_counts, Past, taskVars
    <2>2. QED
      BY <1>12, <2>1
  <1>14. ASSUME NEW n \in Nodes, get_total_partition_counts(n)
         PROVE  Quiet'
    <2>1. /\ Past(n) /\ UNCHANGED <<todo, sends>>
          /\ \/ pc' = [pc EXCEPT ![n] = "waiting"]
             \/ pc' = [pc EXCEPT ![n] = pc[n]]
      BY <1>14 DEF get_total_partition_counts, Past, taskVars
    <2>2. pc' = pc \/ pc' = [pc EXCEPT ![n] = "waiting"]
      BY <1>1, <2>1
    <2>3. QED
      BY <1>12, <2>1, <2>2
  <1>15. ASSUME NEW n \in Nodes, wait_for_count(n) PROVE Quiet'
    <2>1. /\ Past(n)
          /\ \/ pc' = [pc EXCEPT ![n] = "summing"]
             \/ pc' = [pc EXCEPT ![n] = "returned"]
      BY <1>15, WaitFacts
    <2>2. UNCHANGED <<todo, sends>>
      BY <1>15 DEF wait_for_count, taskVars
    <2>3. QED
      BY <1>12, <2>1, <2>2
  <1>16. ASSUME NEW m, receive(m) \/ lose(m) PROVE Quiet'
    <2>1. UNCHANGED <<todo, sends, pc>>
      BY <1>16 DEF receive, lose, taskVars
    <2>2. QED
      BY <1>0, <2>1
  <1>17. \A n \in Nodes : ~task_throws(n) /\ ~leave_wait(n)
    BY DEF task_throws, leave_wait
  <1>18. QED
    BY <1>6, <1>7, <1>8, <1>9, <1>10, <1>11, <1>13, <1>14, <1>15, <1>16,
       <1>17 DEF Next, node_step

-----------------------------------------------------------------------------
(* The messages of each step. *)

\* A message is a table, a count or an estimate.
LEMMA MessageKinds ==
    ASSUME NEW m \in Messages
    PROVE  /\ m.body \in {"table", "count", "estimate"}
           /\ m.from \in Nodes /\ m.to \in Nodes
           /\ m.body = "table" => m \in Tables /\ m.tracker \in Trackers
           /\ m.body = "count" => m \in Counts /\ m.tracker \in Trackers
           /\ m.body = "estimate" => m \in EstimateMessages
  BY DEF Messages, Tables, Counts, EstimateMessages

\* The estimates that a node sends.
LEMMA EstimatesSent ==
    ASSUME PlanTypes, NEW n \in Nodes, send_estimates(n)
    PROVE  \E E \in SUBSET EstimateMessages :
              /\ sent' = sent \cup E /\ IsFiniteSet(E)
              /\ \A e \in E : /\ e.body = "estimate" /\ e.from = n
                              /\ e.bytes = estimate[n]
  <1> DEFINE e(m) == [body |-> "estimate", from |-> n, to |-> m,
                      bytes |-> estimate[n]]
             E == {e(m) : m \in Nodes \ {n}}
             f == [m \in Nodes \ {n} |-> e(m)]
  <1>1. sent' = sent \cup E /\ pc[n] = "estimate"
    BY DEF send_estimates
  <1>2. estimate[n] \in Estimates
    BY <1>1 DEF PlanTypes
  <1>3. \A m \in Nodes \ {n} :
           /\ e(m) \in EstimateMessages /\ e(m).body = "estimate"
           /\ e(m).from = n /\ e(m).bytes = estimate[n]
    BY <1>2 DEF EstimateMessages
  <1>4. f \in Surjection(Nodes \ {n}, E)
    BY DEF Surjection
  <1>5. IsFiniteSet(Nodes \ {n})
    BY FiniteNodes, FS_Subset
  <1>6. IsFiniteSet(E)
    BY <1>4, <1>5, FS_Surjection
  <1>7. E \in SUBSET EstimateMessages
        /\ \A x \in E : /\ x.body = "estimate" /\ x.from = n
                        /\ x.bytes = estimate[n]
    BY <1>3
  <1> HIDE DEF E
  <1>8. QED
    BY <1>1, <1>6, <1>7

\* The counts that a node sends.
LEMMA CountsSent ==
    ASSUME PlanTypes, CountTypes, StepInv, NEW n \in Nodes,
           send_total_partition_counts(n)
    PROVE  \E C \in SUBSET Counts :
              /\ sent' = sent \cup C /\ IsFiniteSet(C)
              /\ \A c \in C : /\ c.body = "count" /\ c.from = n
                              /\ c.count = node_count[n][c.tracker][c.to]
  <1>1. PICK k : k = count_trackers(n)[step[n]]
    OBVIOUS
  <1> DEFINE e(m) == [body |-> "count", from |-> n, to |-> m, tracker |-> k,
                      count |-> node_count[n][k][m]]
             C == {e(m) : m \in Nodes \ {n}}
             f == [m \in Nodes \ {n} |-> e(m)]
  <1>2. sent' = sent \cup C /\ pc[n] = "counting"
    BY <1>1 DEF send_total_partition_counts
  <1>3. k \in Trackers
    BY <1>1, <1>2, TrackerFacts DEF StepInv
  <1>4. ASSUME NEW m \in Nodes \ {n}
        PROVE  /\ e(m) \in Counts /\ e(m).body = "count" /\ e(m).from = n
               /\ e(m).count = node_count[n][e(m).tracker][e(m).to]
    <2>1. node_count[n][k][m] \in Nat
      BY <1>3 DEF CountTypes
    <2>2. QED
      BY <1>3, <2>1 DEF Counts
  <1>5. f \in Surjection(Nodes \ {n}, C)
    BY DEF Surjection
  <1>6. IsFiniteSet(Nodes \ {n})
    BY FiniteNodes, FS_Subset
  <1>7. IsFiniteSet(C)
    BY <1>5, <1>6, FS_Surjection
  <1>8. C \in SUBSET Counts
        /\ \A x \in C : /\ x.body = "count" /\ x.from = n
                        /\ x.count = node_count[n][x.tracker][x.to]
    BY <1>4
  <1> HIDE DEF C
  <1>9. QED
    BY <1>2, <1>7, <1>8

\* Only these steps send, and only these let messages arrive or get lost.
LEMMA NetCases ==
    ASSUME Next
    PROVE  \/ UNCHANGED netVars
           \/ \E n \in Nodes : \/ send_estimates(n) \/ add_local(n)
                               \/ send_message(n)
                               \/ send_total_partition_counts(n)
           \/ \E m \in sent : receive(m) \/ lose(m)
  <1>1. \A n \in Nodes :
           \/ determine_if_we_are_scattering_a_small_table(n)
           \/ start_task(n) \/ tasks_done(n) \/ leave_wait(n)
           \/ bad_alloc(n) \/ task_throws(n)
           \/ get_total_partition_counts(n) \/ wait_for_count(n)
           => UNCHANGED netVars
    BY DEF determine_if_we_are_scattering_a_small_table, start_task,
           bad_alloc, task_throws, tasks_done, leave_wait,
           get_total_partition_counts, wait_for_count
  <1>2. QED
    BY <1>1 DEF Next, node_step

\* Steps keep the types of the messages, and what was sent and arrived.
LEMMA NetSteps ==
    ASSUME PlanTypes, TaskTypes, CountTypes, NetTypes, TableInv, StepInv, Next
    PROVE  NetTypes' /\ sent \subseteq sent' /\ arrived \subseteq arrived'
  <1>1. /\ sent \subseteq Messages /\ IsFiniteSet(sent)
        /\ arrived \subseteq sent /\ lost \subseteq sent
        /\ arrived \cap lost = {}
    BY DEF NetTypes
  <1>2. ASSUME NEW A, A \subseteq Messages, IsFiniteSet(A), NEW B,
               B \subseteq A, B \cap sent = {}, sent' = sent \cup A,
               arrived' = arrived \cup B, lost' = lost
        PROVE  NetTypes' /\ sent \subseteq sent' /\ arrived \subseteq arrived'
    <2>1. IsFiniteSet(sent')
      BY <1>1, <1>2, FS_Union
    <2>2. QED
      BY <1>1, <1>2, <2>1 DEF NetTypes
  <1>3. CASE UNCHANGED netVars
    BY <1>1, <1>3 DEF NetTypes, netVars
  <1>4. ASSUME NEW n \in Nodes, send_estimates(n)
        PROVE  NetTypes' /\ sent \subseteq sent' /\ arrived \subseteq arrived'
    <2>1. PICK E \in SUBSET EstimateMessages :
              sent' = sent \cup E /\ IsFiniteSet(E)
      BY <1>4, EstimatesSent
    <2>2. arrived' = arrived \cup {} /\ lost' = lost
      BY <1>4 DEF send_estimates
    <2>3. E \subseteq Messages
      BY DEF Messages
    <2>4. QED
      BY <1>2, <2>1, <2>2, <2>3
  <1>5. ASSUME NEW n \in Nodes, send_total_partition_counts(n)
        PROVE  NetTypes' /\ sent \subseteq sent' /\ arrived \subseteq arrived'
    <2>1. PICK C \in SUBSET Counts : sent' = sent \cup C /\ IsFiniteSet(C)
      BY <1>5, CountsSent
    <2>2. arrived' = arrived \cup {} /\ lost' = lost
      BY <1>5 DEF send_total_partition_counts
    <2>3. C \subseteq Messages
      BY DEF Messages
    <2>4. QED
      BY <1>2, <2>1, <2>2, <2>3
  <1>6. ASSUME NEW n \in Nodes, add_local(n) \/ send_message(n)
        PROVE  NetTypes' /\ sent \subseteq sent' /\ arrived \subseteq arrived'
    <2>1. PICK s \in sends[n] : Adds(n, s) \/ Skips(n, s)
      BY <1>6, SendSteps
    <2>2. lost' = lost
      BY <1>6, SendSteps DEF AddFrame
    <2>3. CASE Skips(n, s)
      BY <1>3, <2>2, <2>3 DEF Skips, netVars
    <2>4. CASE Adds(n, s)
      <3>1. /\ NewTables(n, s) \subseteq Messages
            /\ IsFiniteSet(NewTables(n, s)) /\ NewTables(n, s) \cap sent = {}
        BY NewFacts DEF Messages
      <3>2. sent' = sent \cup NewTables(n, s)
        BY <2>4 DEF Adds
      <3>3. PICK B : /\ B \subseteq NewTables(n, s)
                     /\ arrived' = arrived \cup B
        BY <2>4 DEF Adds
      <3>4. QED
        BY <1>2, <2>2, <3>1, <3>2, <3>3
    <2>5. QED
      BY <2>1, <2>3, <2>4
  <1>7. ASSUME NEW m \in sent, receive(m)
        PROVE  NetTypes' /\ sent \subseteq sent' /\ arrived \subseteq arrived'
    <2>1. /\ m \notin lost /\ arrived' = arrived \cup {m}
          /\ sent' = sent /\ lost' = lost
      BY <1>7 DEF receive, InFlight
    <2>2. QED
      BY <1>1, <2>1 DEF NetTypes
  <1>8. ASSUME NEW m \in sent, lose(m)
        PROVE  NetTypes' /\ sent \subseteq sent' /\ arrived \subseteq arrived'
    <2>1. /\ m \notin arrived /\ lost' = lost \cup {m}
          /\ sent' = sent /\ arrived' = arrived
      BY <1>8 DEF lose, InFlight
    <2>2. QED
      BY <1>1, <2>1 DEF NetTypes
  <1>9. QED
    BY <1>3, <1>4, <1>5, <1>6, <1>7, <1>8, NetCases

\* receive, and what it leaves alone.
LEMMA ReceiveFacts ==
    ASSUME CountTypes, NetTypes, NEW m \in sent, receive(m)
    PROVE  /\ m \notin arrived /\ arrived' = arrived \cup {m}
           /\ Fixed
           /\ UNCHANGED <<scatter_side, pc, taskVars, trackVars, countVars,
                          sent, lost>>
           /\ m.to \in Nodes
           /\ processed' \in [Nodes -> [Trackers -> Nat]]
           /\ cache_added' \in [Nodes -> [Trackers -> BOOLEAN]]
           /\ m.body = "table" =>
                /\ m.tracker \in Trackers
                /\ \A x \in Nodes, k \in Trackers :
                    /\ processed'[x][k] = IF x = m.to /\ k = m.tracker
                                          THEN processed[x][k] + 1
                                          ELSE processed[x][k]
                    /\ cache_added'[x][k] <=>
                          cache_added[x][k] \/ (x = m.to /\ k = m.tracker)
           /\ m.body # "table" => UNCHANGED cacheVars
  <1>1. /\ processed \in [Nodes -> [Trackers -> Nat]]
        /\ cache_added \in [Nodes -> [Trackers -> BOOLEAN]]
    BY DEF CountTypes
  <1>2. /\ m \notin arrived /\ arrived' = arrived \cup {m}
        /\ Fixed
        /\ UNCHANGED <<scatter_side, pc, taskVars, trackVars, countVars,
                       sent, lost>>
    BY DEF receive, InFlight, Fixed, planVars
  <1>3. m.to \in Nodes /\ (m.body = "table" => m.tracker \in Trackers)
    BY MessageKinds DEF NetTypes
  <1>4. CASE m.body = "table"
    <2> DEFINE k == m.tracker
               d == m.to
    <2>1. /\ processed' = [processed EXCEPT ![d][k] = @ + 1]
          /\ cache_added' = [cache_added EXCEPT ![d][k] = TRUE]
      BY <1>4 DEF receive
    <2>2. d \in Nodes /\ k \in Trackers
      BY <1>3, <1>4
    <2>3. processed[d][k] + 1 \in Nat
          /\ processed' = [processed EXCEPT ![d][k] = processed[d][k] + 1]
      BY <1>1, <2>1, <2>2
    <2> HIDE DEF k, d
    <2>4. /\ processed' \in [Nodes -> [Trackers -> Nat]]
          /\ \A x \in Nodes, j \in Trackers :
                processed'[x][j] = IF x = d /\ j = k THEN processed[d][k] + 1
                                   ELSE processed[x][j]
      BY <1>1, <2>2, <2>3, Nested
    <2>5. /\ cache_added' \in [Nodes -> [Trackers -> BOOLEAN]]
          /\ \A x \in Nodes, j \in Trackers :
                cache_added'[x][j] <=>
                   cache_added[x][j] \/ (x = d /\ j = k)
      BY <1>1, <2>1, <2>2
    <2>6. QED
      BY <1>2, <1>3, <1>4, <2>4, <2>5 DEF k, d
  <1>5. CASE m.body # "table"
    <2>1. UNCHANGED cacheVars
      BY <1>5 DEF receive
    <2>2. QED
      BY <1>1, <1>2, <1>3, <1>5, <2>1 DEF cacheVars
  <1>6. QED
    BY <1>4, <1>5

\* begin_sum, for tracker i.
LEMMA BeginFacts ==
    ASSUME PlanTypes, CountTypes, NEW n \in Nodes,
           NEW i \in DOMAIN count_trackers(n), begin_sum(n, i)
    PROVE  LET k == count_trackers(n)[i] IN
           /\ step' = [step EXCEPT ![n] = i]
           /\ total_count' = [total_count EXCEPT ![n] = node_count[n][k][n]]
           /\ to_ask' = [to_ask EXCEPT ![n] = Nodes \ {n}]
           /\ k \in Trackers /\ i \in Nat
           /\ step' \in [Nodes -> Nat]
           /\ total_count' \in [Nodes -> Nat]
           /\ to_ask' \in [Nodes -> SUBSET Nodes]
  <1> DEFINE k == count_trackers(n)[i]
  <1>1. k \in Trackers /\ i \in Nat
    BY TrackerFacts
  <1>2. /\ step' = [step EXCEPT ![n] = i]
        /\ total_count' = [total_count EXCEPT ![n] = node_count[n][k][n]]
        /\ to_ask' = [to_ask EXCEPT ![n] = Nodes \ {n}]
    BY DEF begin_sum, Others
  <1> HIDE DEF k
  <1>3. node_count[n][k][n] \in Nat
    BY <1>1 DEF CountTypes
  <1>4. /\ step \in [Nodes -> Nat] /\ total_count \in [Nodes -> Nat]
        /\ to_ask \in [Nodes -> SUBSET Nodes]
    BY DEF CountTypes
  <1>5. /\ step' \in [Nodes -> Nat] /\ total_count' \in [Nodes -> Nat]
        /\ to_ask' \in [Nodes -> SUBSET Nodes]
    BY <1>1, <1>2, <1>3, <1>4
  <1>6. QED
    BY <1>1, <1>2, <1>5 DEF k

\* get_total_partition_counts, of one node's count.
LEMMA AskFacts ==
    ASSUME PlanTypes, CountTypes, NetTypes, NEW n \in Nodes,
           get_total_partition_counts(n)
    PROVE  \E m \in to_ask[n], c \in arrived :
              /\ c.body = "count" /\ c.from = m /\ c.to = n
              /\ c.tracker = count_trackers(n)[step[n]]
              /\ c.count \in Nat /\ m \in Nodes
              /\ total_count' = [total_count EXCEPT ![n] = @ + c.count]
              /\ to_ask' = [to_ask EXCEPT ![n] = @ \ {m}]
              /\ pc[n] = "summing"
              /\ \/ to_ask[n] = {m} /\ pc' = [pc EXCEPT ![n] = "waiting"]
                 \/ to_ask[n] # {m} /\ pc' = pc
  <1>1. PICK m \in to_ask[n], c \in arrived :
              /\ c.body = "count" /\ c.from = m /\ c.to = n
              /\ c.tracker = count_trackers(n)[step[n]]
              /\ total_count' = [total_count EXCEPT ![n] = @ + c.count]
              /\ to_ask' = [to_ask EXCEPT ![n] = @ \ {m}]
              /\ pc[n] = "summing"
              /\ pc' = [pc EXCEPT ![n] =
                          IF to_ask[n] = {m} THEN "waiting" ELSE @]
    BY DEF get_total_partition_counts
  <1>2. c \in Messages /\ m \in Nodes
    BY DEF NetTypes, CountTypes
  <1>3. c.count \in Nat
    BY <1>1, <1>2, MessageKinds DEF Counts
  <1>4. \/ to_ask[n] = {m} /\ pc' = [pc EXCEPT ![n] = "waiting"]
        \/ to_ask[n] # {m} /\ pc' = pc
    BY <1>1 DEF PlanTypes
  <1>5. QED
    BY <1>1, <1>2, <1>3, <1>4

\* Steps keep the types of the caches and the counts.
LEMMA CountTypesSteps ==
    ASSUME PlanTypes, TaskTypes, CountTypes, NetTypes, StepInv, Next
    PROVE  CountTypes'
  <1>1. ASSUME UNCHANGED <<trackVars, cacheVars, countVars>>
        PROVE  CountTypes'
    BY <1>1 DEF CountTypes, trackVars, cacheVars, countVars
  <1>2. ASSUME NEW n \in Nodes, send_estimates(n) PROVE CountTypes'
    <2>1. /\ out_added' = [out_added EXCEPT ![n] = TRUE]
          /\ UNCHANGED <<node_count, next_id, set_empty_part, cacheVars,
                         countVars>>
      BY <1>2 DEF send_estimates
    <2>2. out_added' \in [Nodes -> BOOLEAN]
      BY <2>1 DEF CountTypes
    <2>3. QED
      BY <2>1, <2>2 DEF CountTypes, cacheVars, countVars
  <1>3. ASSUME NEW n \in Nodes, send_total_partition_counts(n)
        PROVE  CountTypes'
    <2>1. /\ out_added' = [out_added EXCEPT ![n] = TRUE]
          /\ UNCHANGED <<node_count, next_id, set_empty_part, cacheVars>>
          /\ pc[n] = "counting"
      BY <1>3 DEF send_total_partition_counts
    <2>2. out_added' \in [Nodes -> BOOLEAN]
      BY <2>1 DEF CountTypes
    <2>3. /\ step' \in [Nodes -> Nat] /\ total_count' \in [Nodes -> Nat]
          /\ to_ask' \in [Nodes -> SUBSET Nodes]
      <3>1. CASE /\ step' = [step EXCEPT ![n] = @ + 1]
                 /\ UNCHANGED <<to_ask, total_count>>
        BY <3>1 DEF CountTypes
      <3>2. CASE begin_sum(n, 1)
        <4>1. 1 \in DOMAIN count_trackers(n)
          BY TrackerFacts
        <4>2. QED
          BY <3>2, <4>1, BeginFacts
      <3>3. QED
        BY <1>3, <3>1, <3>2 DEF send_total_partition_counts
    <2>4. QED
      BY <2>1, <2>2, <2>3 DEF CountTypes, cacheVars
  <1>4. ASSUME NEW n \in Nodes, get_total_partition_counts(n)
        PROVE  CountTypes'
    <2>1. PICK m \in to_ask[n], c \in arrived :
              /\ total_count' = [total_count EXCEPT ![n] = @ + c.count]
              /\ to_ask' = [to_ask EXCEPT ![n] = @ \ {m}]
              /\ c.count \in Nat
      BY <1>4, AskFacts
    <2>2. UNCHANGED <<trackVars, cacheVars, step>>
      BY <1>4 DEF get_total_partition_counts
    <2>3. /\ total_count' \in [Nodes -> Nat]
          /\ to_ask' \in [Nodes -> SUBSET Nodes]
      BY <2>1 DEF CountTypes
    <2>4. QED
      BY <2>2, <2>3 DEF CountTypes, trackVars, cacheVars
  <1>5. ASSUME NEW n \in Nodes, wait_for_count(n) PROVE CountTypes'
    <2>1. UNCHANGED <<trackVars, cacheVars>>
      BY <1>5 DEF wait_for_count
    <2>2. CASE UNCHANGED countVars
      BY <1>1, <2>1, <2>2
    <2>3. CASE /\ step[n] < Len(count_trackers(n))
               /\ begin_sum(n, step[n] + 1)
      <3>1. step[n] \in DOMAIN count_trackers(n)
        BY <1>5 DEF wait_for_count, StepInv
      <3>2. step[n] + 1 \in DOMAIN count_trackers(n)
        BY <2>3, <3>1, TrackerFacts
      <3>3. /\ step' \in [Nodes -> Nat] /\ total_count' \in [Nodes -> Nat]
            /\ to_ask' \in [Nodes -> SUBSET Nodes]
        BY <2>3, <3>2, BeginFacts
      <3>4. QED
        BY <2>1, <3>3 DEF CountTypes, trackVars, cacheVars
    <2>4. QED
      BY <1>5, <2>2, <2>3 DEF wait_for_count
  <1>6. ASSUME NEW m \in sent, receive(m) PROVE CountTypes'
    <2>1. /\ UNCHANGED <<trackVars, countVars>>
          /\ processed' \in [Nodes -> [Trackers -> Nat]]
          /\ cache_added' \in [Nodes -> [Trackers -> BOOLEAN]]
      BY <1>6, ReceiveFacts
    <2>2. QED
      BY <2>1 DEF CountTypes, trackVars, countVars
  <1>7. ASSUME NEW n \in Nodes, \/ tasks_done(n) \/ leave_wait(n)
                \/ bad_alloc(n) \/ task_throws(n) \/ start_task(n)
                \/ determine_if_we_are_scattering_a_small_table(n)
        PROVE CountTypes'
    <2>1. UNCHANGED <<trackVars, cacheVars, countVars>>
      BY <1>7 DEF tasks_done, leave_wait, bad_alloc, task_throws, start_task,
                  determine_if_we_are_scattering_a_small_table
    <2>2. QED
      BY <1>1, <2>1
  <1>8. ASSUME NEW m, lose(m) PROVE CountTypes'
    <2>1. UNCHANGED <<trackVars, cacheVars, countVars>>
      BY <1>8 DEF lose
    <2>2. QED
      BY <1>1, <2>1
  <1>9. QED
    BY <1>2, <1>3, <1>4, <1>5, <1>6, <1>7, <1>8, SendSteps
       DEF Next, node_step

-----------------------------------------------------------------------------
(* The decision, and the tables. *)

\* A node that is through with its tasks stays so.
LEMMA PastKept ==
    ASSUME PlanTypes, TaskTypes, CountTypes, NetTypes, CountInv, StepInv,
           SumInv, Next, failed = {}, failed' = {}
    PROVE  \A x \in Nodes : Past(x) => Past(x)'
  <1>1. pc \in [Nodes -> Pcs]
    BY DEF PlanTypes
  <1>2. ASSUME NEW n \in Nodes, NEW q, pc' = [pc EXCEPT ![n] = q],
               ~Past(n) \/ q \in {"counting", "summing", "waiting", "returned"}
        PROVE  \A x \in Nodes : Past(x) => Past(x)'
    BY <1>1, <1>2 DEF Past
  <1>3. ASSUME pc' = pc PROVE \A x \in Nodes : Past(x) => Past(x)'
    BY <1>3 DEF Past
  <1>4. ASSUME NEW n \in Nodes, \/ send_estimates(n)
                \/ determine_if_we_are_scattering_a_small_table(n)
        PROVE  \A x \in Nodes : Past(x) => Past(x)'
    <2>1. pc[n] \in {"estimate", "decide"} /\ \E q : pc' = [pc EXCEPT ![n] = q]
      BY <1>4 DEF send_estimates,
                  determine_if_we_are_scattering_a_small_table
    <2>2. QED
      BY <1>2, <2>1 DEF Past
  <1>5. ASSUME NEW n \in Nodes, start_task(n) \/ add_local(n) \/ send_message(n)
        PROVE  \A x \in Nodes : Past(x) => Past(x)'
    <2>1. pc' = pc
      BY <1>5, SendSteps DEF start_task, AddFrame
    <2>2. QED
      BY <1>3, <2>1
  <1>6. ASSUME NEW n \in Nodes, bad_alloc(n)
        PROVE  \A x \in Nodes : Past(x) => Past(x)'
    <2>1. pc' = pc
      BY <1>6 DEF bad_alloc
    <2>2. QED
      BY <1>3, <2>1
  <1>7. ASSUME NEW n \in Nodes, tasks_done(n)
        PROVE  \A x \in Nodes : Past(x) => Past(x)'
    <2>1. pc' = [pc EXCEPT ![n] = "counting"]
      BY <1>7 DEF tasks_done
    <2>2. QED
      BY <1>2, <2>1
  <1>8. ASSUME NEW n \in Nodes, send_total_partition_counts(n)
        PROVE  \A x \in Nodes : Past(x) => Past(x)'
    <2>1. pc' = pc \/ pc' = [pc EXCEPT ![n] = "summing"]
      BY <1>8 DEF send_total_partition_counts
    <2>2. QED
      BY <1>2, <1>3, <2>1
  <1>9. ASSUME NEW n \in Nodes, get_total_partition_counts(n)
        PROVE  \A x \in Nodes : Past(x) => Past(x)'
    <2>1. pc' = pc \/ pc' = [pc EXCEPT ![n] = "waiting"]
      BY <1>9, AskFacts
    <2>2. QED
      BY <1>2, <1>3, <2>1
  <1>10. ASSUME NEW n \in Nodes, wait_for_count(n)
         PROVE  \A x \in Nodes : Past(x) => Past(x)'
    <2>1. \/ pc' = [pc EXCEPT ![n] = "summing"]
          \/ pc' = [pc EXCEPT ![n] = "returned"]
      BY <1>10, WaitFacts
    <2>2. QED
      BY <1>2, <2>1
  <1>11. ASSUME NEW m, receive(m) \/ lose(m)
         PROVE  \A x \in Nodes : Past(x) => Past(x)'
    <2>1. pc' = pc
      BY <1>11 DEF receive, lose
    <2>2. QED
      BY <1>3, <2>1
  <1>12. \A n \in Nodes : ~task_throws(n) /\ ~leave_wait(n)
    BY DEF task_throws, leave_wait
  <1>13. QED
    BY <1>4, <1>5, <1>6, <1>7, <1>8, <1>9, <1>10, <1>11, <1>12
       DEF Next, node_step

\* No table was sent.
NoTable == Tab' = Tab /\ UNCHANGED <<node_count, next_id>>

\* The tables change in one way only.
LEMMA TabCases ==
    ASSUME PlanTypes, TaskTypes, CountTypes, NetTypes, StepInv, Next
    PROVE  \/ NoTable
           \/ \E n \in Nodes : \E s \in sends[n] : Adds(n, s) /\ AddFrame
  <1>1. ASSUME NEW A, sent' = sent \cup A, \A a \in A : a.body # "table"
        PROVE  Tab' = Tab
    BY <1>1 DEF Tab
  <1>2. ASSUME NEW n \in Nodes, send_estimates(n) PROVE NoTable
    <2>1. PICK E \in SUBSET EstimateMessages :
              sent' = sent \cup E /\ \A e \in E : e.body = "estimate"
      BY <1>2, EstimatesSent
    <2>2. Tab' = Tab
      BY <1>1, <2>1
    <2>3. UNCHANGED <<node_count, next_id>>
      BY <1>2 DEF send_estimates
    <2>4. QED
      BY <2>2, <2>3 DEF NoTable
  <1>3. ASSUME NEW n \in Nodes, send_total_partition_counts(n) PROVE NoTable
    <2>1. PICK C \in SUBSET Counts :
              sent' = sent \cup C /\ \A c \in C : c.body = "count"
      BY <1>3, CountsSent
    <2>2. Tab' = Tab
      BY <1>1, <2>1
    <2>3. UNCHANGED <<node_count, next_id>>
      BY <1>3 DEF send_total_partition_counts
    <2>4. QED
      BY <2>2, <2>3 DEF NoTable
  <1>4. ASSUME UNCHANGED <<sent, node_count, next_id>> PROVE NoTable
    BY <1>4 DEF NoTable, Tab
  <1>5. ASSUME NEW n \in Nodes, \/ tasks_done(n) \/ leave_wait(n)
                \/ bad_alloc(n) \/ task_throws(n)
                \/ start_task(n) \/ get_total_partition_counts(n)
                \/ wait_for_count(n)
                \/ determine_if_we_are_scattering_a_small_table(n)
        PROVE  NoTable
    <2>1. UNCHANGED <<sent, node_count, next_id>>
      BY <1>5 DEF tasks_done, leave_wait, bad_alloc, task_throws,
                  start_task, wait_for_count,
                  get_total_partition_counts, trackVars, netVars,
                  determine_if_we_are_scattering_a_small_table
    <2>2. QED
      BY <1>4, <2>1
  <1>6. ASSUME NEW m, receive(m) \/ lose(m) PROVE NoTable
    <2>1. UNCHANGED <<sent, node_count, next_id>>
      BY <1>6 DEF receive, lose, trackVars
    <2>2. QED
      BY <1>4, <2>1
  <1>7. ASSUME NEW n \in Nodes, add_local(n) \/ send_message(n)
        PROVE  NoTable \/ \E s \in sends[n] : Adds(n, s) /\ AddFrame
    <2>1. AddFrame /\ \E s \in sends[n] : Adds(n, s) \/ Skips(n, s)
      BY <1>7, SendSteps
    <2>2. ASSUME NEW s, Skips(n, s) PROVE NoTable
      <3>1. UNCHANGED <<sent, node_count, next_id>>
        BY <2>2 DEF Skips, trackVars
      <3>2. QED
        BY <1>4, <3>1
    <2>3. QED
      BY <2>1, <2>2
  <1>8. QED
    BY <1>2, <1>3, <1>5, <1>6, <1>7 DEF Next, node_step

\* The step that adds the tables of s, whose node is not through yet.
LEMMA AddsFacts ==
    ASSUME TaskTypes, CountTypes, NetTypes, TableInv, TaskInv,
           NEW n \in Nodes, NEW s \in sends[n], Adds(n, s)
    PROVE  /\ Tab' = Tab \cup NewTables(n, s)
           /\ Tab \cap NewTables(n, s) = {}
           /\ Decided(n) /\ cur[n] \in DOMAIN input[n]
           /\ next_id'[n] = next_id[n] + 1 /\ next_id[n] \in Nat
           /\ \A x \in Nodes : x # n => next_id'[x] = next_id[x]
           /\ sends'[n] = sends[n] \ {s}
           /\ \A x \in Nodes : x # n => sends'[x] = sends[x]
           /\ s.to \subseteq Nodes /\ s.tracker \in Trackers
  <1>1. sent' = sent \cup NewTables(n, s)
    BY DEF Adds
  <1>2. \A t \in NewTables(n, s) : t.body = "table" /\ t \notin sent
    BY NewFacts
  <1>3. Decided(n) /\ cur[n] \in DOMAIN input[n]
    BY DEF TaskInv, TaskOf
  <1>4. /\ next_id'[n] = next_id[n] + 1 /\ next_id[n] \in Nat
        /\ \A x \in Nodes : x # n => next_id'[x] = next_id[x]
    BY DEF Adds, CountTypes
  <1>5. /\ sends'[n] = sends[n] \ {s}
        /\ \A x \in Nodes : x # n => sends'[x] = sends[x]
    BY DEF Adds, TaskTypes
  <1>6. s \in SendRecords
    BY DEF TaskTypes
  <1>7. s.to \subseteq Nodes /\ s.tracker \in Trackers
    BY <1>6 DEF SendRecords
  <1>8. QED
    BY <1>1, <1>2, <1>3, <1>4, <1>5, <1>7 DEF Tab

\* All the nodes decide alike.
LEMMA DecisionSteps ==
    ASSUME PlanTypes, TaskTypes, CountTypes, NetTypes, TaskInv, TableInv,
           StepInv, DecisionInv, Next
    PROVE  DecisionInv'
  <1>1. /\ Fixed
        /\ \A x \in Nodes : Decided(x) => scatter_side'[x] = scatter_side[x]
    BY PlanSteps
  <1>2. Decision' = Decision
    BY <1>1 DEF Decision, Fixed
  <1>3. ASSUME NEW A, sent' = sent \cup A,
               \A e \in A : e.body = "estimate" => e.bytes = estimate[e.from]
        PROVE  \A e \in sent' :
                  e.body = "estimate" => e.bytes = estimate'[e.from]
    BY <1>1, <1>3 DEF DecisionInv, Fixed
  <1>4. \A e \in sent' : e.body = "estimate" => e.bytes = estimate'[e.from]
    <2>1. CASE sent' = sent
      BY <1>1, <2>1 DEF DecisionInv, Fixed
    <2>2. ASSUME NEW n \in Nodes, send_estimates(n)
          PROVE  \E A : /\ sent' = sent \cup A
                        /\ \A e \in A : e.body = "estimate" =>
                              e.bytes = estimate[e.from]
      BY <2>2, EstimatesSent
    <2>3. ASSUME NEW n \in Nodes, send_total_partition_counts(n)
          PROVE  \E A : /\ sent' = sent \cup A
                        /\ \A e \in A : e.body = "estimate" =>
                              e.bytes = estimate[e.from]
      BY <2>3, CountsSent
    <2>4. ASSUME NEW n \in Nodes, add_local(n) \/ send_message(n)
          PROVE  \/ sent' = sent
                 \/ \E A : /\ sent' = sent \cup A
                           /\ \A e \in A : e.body = "estimate" =>
                                 e.bytes = estimate[e.from]
      <3>1. PICK s \in sends[n] : Adds(n, s) \/ Skips(n, s)
        BY <2>4, SendSteps
      <3>2. CASE Skips(n, s)
        BY <3>2 DEF Skips
      <3>3. CASE Adds(n, s)
        <4>1. sent' = sent \cup NewTables(n, s)
          BY <3>3 DEF Adds
        <4>2. \A t \in NewTables(n, s) : t.body = "table"
          BY NewFacts
        <4>3. QED
          BY <4>1, <4>2
      <3>4. QED
        BY <3>1, <3>2, <3>3
    <2>5. ASSUME NEW m, receive(m) \/ lose(m) PROVE sent' = sent
      BY <2>5 DEF receive, lose
    <2>6. UNCHANGED netVars => sent' = sent
      BY DEF netVars
    <2>7. QED
      BY <1>3, <2>1, <2>2, <2>3, <2>4, <2>5, <2>6, NetCases
  <1>5. ASSUME NEW n \in Nodes,
               determine_if_we_are_scattering_a_small_table(n)
        PROVE  \A x \in Nodes : Decided(x)' => scatter_side'[x] = Decision
    <2> DEFINE got(m) == CHOOSE e \in arrived :
                            e.body = "estimate" /\ e.from = m /\ e.to = n
               bytes == [m \in Nodes |-> IF m = n THEN estimate[n]
                                         ELSE got(m).bytes]
    <2>1. /\ pc[n] = "decide" /\ pc' = [pc EXCEPT ![n] = "tasks"]
          /\ \A m \in Nodes \ {n} : \E e \in arrived :
                e.body = "estimate" /\ e.from = m /\ e.to = n
          /\ scatter_side' =
                [scatter_side EXCEPT ![n] = small_side(join_type, bytes)]
      BY <1>5 DEF determine_if_we_are_scattering_a_small_table
    <2>2. ASSUME NEW m \in Nodes \ {n}
          PROVE  got(m).bytes = estimate[m]
      <3>1. /\ got(m) \in arrived /\ got(m).body = "estimate"
            /\ got(m).from = m
        BY <2>1
      <3>2. got(m) \in sent
        BY <3>1 DEF NetTypes
      <3>3. QED
        BY <3>1, <3>2 DEF DecisionInv
    <2>3. estimate \in [Nodes -> [left : Int, right : Int]]
      BY DEF PlanTypes
    <2>4. bytes = estimate
      BY <2>2, <2>3
    <2> HIDE DEF bytes
    <2>5. kind = "join" /\ join_type # "outer"
      BY <2>1 DEF PlanTypes
    <2>6. scatter_side'[n] = Decision
      BY <2>1, <2>4, <2>5 DEF Decision, PlanTypes
    <2>7. ASSUME NEW x \in Nodes, x # n, Decided(x)'
          PROVE  scatter_side'[x] = Decision
      <3>1. pc'[x] = pc[x]
        BY <2>1, <2>7 DEF PlanTypes
      <3>2. Decided(x)
        BY <2>7, <3>1 DEF Decided
      <3>3. QED
        BY <1>1, <3>2 DEF DecisionInv
    <2>8. QED
      BY <2>6, <2>7
  <1>6. ASSUME \A x \in Nodes : Decided(x)' => Decided(x)
        PROVE  \A x \in Nodes : Decided(x)' => scatter_side'[x] = Decision
    BY <1>1, <1>6 DEF DecisionInv
  <1>7. ASSUME NEW n \in Nodes,
               node_step(n) \/ bad_alloc(n) \/ task_throws(n),
               ~determine_if_we_are_scattering_a_small_table(n)
        PROVE  \A x \in Nodes : Decided(x)' => Decided(x)
    <2>1. CASE send_estimates(n)
      <3>1. pc' = [pc EXCEPT ![n] = "decide"]
        BY <2>1 DEF send_estimates
      <3>2. QED
        BY <3>1 DEF Decided, PlanTypes
    <2>2. CASE \/ start_task(n) \/ add_local(n) \/ send_message(n)
               \/ bad_alloc(n)
      <3>1. pc' = pc
        BY <2>2, SendSteps DEF start_task, bad_alloc, AddFrame
      <3>2. QED
        BY <3>1 DEF Decided
    <2>3. CASE \/ task_throws(n) \/ leave_wait(n)
               \/ tasks_done(n) \/ wait_for_count(n)
               \/ send_total_partition_counts(n)
               \/ get_total_partition_counts(n)
      <3> DEFINE Moves == \/ pc' = pc
                          \/ Decided(n) /\ \E q : pc' = [pc EXCEPT ![n] = q]
      <3>3. task_throws(n) => Moves
        BY ThrowFacts
      <3>4. leave_wait(n) \/ tasks_done(n) => Moves
        BY DEF leave_wait, tasks_done, Decided
      <3>5. wait_for_count(n) => Moves
        BY DEF wait_for_count, Decided
      <3>6. send_total_partition_counts(n) => Moves
        BY DEF send_total_partition_counts, Decided
      <3>7. get_total_partition_counts(n) => Moves
        BY DEF get_total_partition_counts, Decided
      <3>1. Moves
        BY <2>3, <3>3, <3>4, <3>5, <3>6, <3>7
      <3>2. QED
        BY <3>1 DEF Decided, PlanTypes
    <2>4. QED
      BY <1>7, <2>1, <2>2, <2>3 DEF node_step
  <1>8. ASSUME NEW m, receive(m) \/ lose(m)
        PROVE  \A x \in Nodes : Decided(x)' => Decided(x)
    <2>1. pc' = pc
      BY <1>8 DEF receive, lose
    <2>2. QED
      BY <2>1 DEF Decided
  <1>9. \A x \in Nodes : Decided(x)' => scatter_side'[x] = Decision
    BY <1>5, <1>6, <1>7, <1>8 DEF Next
  <1>10. QED
    BY <1>2, <1>4, <1>9 DEF DecisionInv

\* Every table is a new one, of a tracker that is counted.
LEMMA TableSteps ==
    ASSUME PlanTypes, TaskTypes, CountTypes, NetTypes, TaskInv, TableInv,
           SendsCounted, StepInv, Next
    PROVE  TableInv'
  <1>1. /\ Fixed /\ arrived \subseteq arrived'
        /\ \A x \in Nodes : Decided(x) => /\ Decided(x)'
                                          /\ scatter_side'[x] = scatter_side[x]
    BY PlanSteps, NetSteps
  <1>2. ASSUME NEW t \in Tab
        PROVE  /\ t.from \in Nodes /\ t.id < next_id[t.from]
               /\ t.from = t.to => t \in arrived'
               /\ Decided(t.from)'
               /\ t.from = t.to \/ t.tracker \in ToSet(count_trackers(t.from)')
    <2>1. t.from \in Nodes
      BY MessageKinds DEF NetTypes, Tab
    <2>2. /\ t.id < next_id[t.from]
          /\ t.from = t.to => t \in arrived
          /\ Decided(t.from)
          /\ t.from = t.to \/ t.tracker \in ToSet(count_trackers(t.from))
      BY DEF TableInv
    <2>3. count_trackers(t.from)' = count_trackers(t.from)
      BY <1>1, <2>1, <2>2, PlanKept
    <2>4. QED
      BY <1>1, <2>1, <2>2, <2>3
  <1>3. CASE NoTable
    BY <1>2, <1>3 DEF NoTable, TableInv
  <1>4. ASSUME NEW n \in Nodes, NEW s \in sends[n], Adds(n, s)
        PROVE  TableInv'
    <2>1. /\ Tab' = Tab \cup NewTables(n, s) /\ Decided(n)
          /\ next_id'[n] = next_id[n] + 1 /\ next_id[n] \in Nat
          /\ \A x \in Nodes : x # n => next_id'[x] = next_id[x]
      BY <1>4, AddsFacts
    <2>2. ASSUME NEW t \in Tab PROVE t.id < next_id'[t.from]
      <3>1. t.id \in Nat /\ t.from \in Nodes
        BY MessageKinds DEF NetTypes, Tab, Tables
      <3>2. t.id < next_id[t.from]
        BY <1>2
      <3>3. QED
        BY <2>1, <3>1, <3>2
    <2>4. count_trackers(n)' = count_trackers(n) /\ Decided(n)'
      BY <1>1, <2>1, PlanKept
    <2>5. ASSUME NEW t \in NewTables(n, s)
          PROVE  /\ t.id < next_id'[t.from]
                 /\ t.from = t.to => t \in arrived'
                 /\ Decided(t.from)'
                 /\ t.from = t.to
                       \/ t.tracker \in ToSet(count_trackers(t.from)')
      <3>1. /\ t.from = n /\ t.to \in s.to /\ t.tracker = s.tracker
            /\ t.id = next_id[n]
        BY NewFacts
      <3>2. /\ s.to = {n} \/ n \notin s.to
            /\ s.to = {n} \/ s.tracker \in ToSet(count_trackers(n))
        BY DEF SendsCounted
      <3>3. s.to = {n} => t \in arrived'
        BY <1>4 DEF Adds
      <3>4. t.id < next_id'[t.from]
        BY <2>1, <3>1
      <3>5. t.from = t.to => t \in arrived'
        BY <3>1, <3>2, <3>3
      <3>6. t.from = t.to \/ t.tracker \in ToSet(count_trackers(t.from)')
        BY <2>4, <3>1, <3>2
      <3>7. QED
        BY <2>4, <3>1, <3>4, <3>5, <3>6
    <2>6. ASSUME NEW t \in Tab'
          PROVE  /\ t.id < next_id'[t.from]
                 /\ t.from = t.to => t \in arrived'
                 /\ Decided(t.from)'
                 /\ t.from = t.to
                       \/ t.tracker \in ToSet(count_trackers(t.from)')
      BY <1>2, <2>1, <2>2, <2>5
    <2>7. QED
      BY <2>6 DEF TableInv
  <1>5. QED
    BY <1>3, <1>4, TabCases

\* What a task has still to add and to send.
LEMMA SendsSteps ==
    ASSUME PlanTypes, TaskTypes, CountTypes, TaskInv, SendsCounted, Next
    PROVE  SendsCounted'
  <1>1. /\ Fixed
        /\ \A x \in Nodes : Decided(x) => scatter_side'[x] = scatter_side[x]
    BY PlanSteps
  <1>2. ASSUME NEW x \in Nodes, NEW s \in sends[x]
        PROVE  /\ s.to = {x} \/ x \notin s.to
               /\ s.to = {x} \/ s.tracker \in ToSet(count_trackers(x)')
               /\ s.always => s.tracker = 0
    <2>1. Decided(x)
      BY DEF TaskInv, TaskOf
    <2>2. count_trackers(x)' = count_trackers(x)
      BY <1>1, <2>1, PlanKept
    <2>3. QED
      BY <2>2 DEF SendsCounted
  <1>3. ASSUME \A x \in Nodes : sends'[x] \subseteq sends[x]
        PROVE  SendsCounted'
    BY <1>2, <1>3 DEF SendsCounted
  <1>4. CASE UNCHANGED taskVars
    BY <1>3, <1>4 DEF taskVars
  <1>5. ASSUME NEW n \in Nodes, bad_alloc(n) PROVE SendsCounted'
    <2>1. sends' = [sends EXCEPT ![n] = {}]
      BY <1>5 DEF bad_alloc
    <2>2. \A x \in Nodes : sends'[x] \subseteq sends[x]
      BY <2>1 DEF TaskTypes
    <2>3. QED
      BY <1>3, <2>2
  <1>6. ASSUME NEW n \in Nodes, add_local(n) \/ send_message(n)
        PROVE  SendsCounted'
    <2>1. PICK s : sends' = [sends EXCEPT ![n] = @ \ {s}]
      BY <1>6, SendSteps DEF Adds, Skips
    <2>2. \A x \in Nodes : sends'[x] \subseteq sends[x]
      BY <2>1 DEF TaskTypes
    <2>3. QED
      BY <1>3, <2>2
  <1>7. ASSUME NEW n \in Nodes, start_task(n) PROVE SendsCounted'
    <2>1. PICK t, S :
              /\ t = Head(todo[n])
              /\ S = do_process(n, input[n][t].side, input[n][t].rows)
      OBVIOUS
    <2>2. /\ t \in DOMAIN input[n] /\ Decided(n)
          /\ sends' = [sends EXCEPT ![n] = S]
      BY <1>7, <2>1, StartFacts
    <2>3. /\ Complete(n, S, belongs(n, t))
          /\ \A s \in S :
                s.to = {n} \/ s.tracker \in ToSet(count_trackers(n))
      BY <2>1, <2>2, DoProcessComplete
    <2>4. count_trackers(n)' = count_trackers(n)
      BY <1>1, <2>2, PlanKept
    <2>5. ASSUME NEW x \in Nodes, NEW s \in sends'[x]
          PROVE  /\ s.to = {x} \/ x \notin s.to
                 /\ s.to = {x} \/ s.tracker \in ToSet(count_trackers(x)')
                 /\ s.always => s.tracker = 0
      <3>1. CASE x = n
        <4>1. s \in S
          BY <2>2, <3>1 DEF TaskTypes
        <4>2. QED
          BY <2>3, <2>4, <3>1, <4>1 DEF Complete
      <3>2. CASE x # n
        <4>1. s \in sends[x]
          BY <2>2, <3>2 DEF TaskTypes
        <4>2. QED
          BY <1>2, <4>1
      <3>3. QED
        BY <3>1, <3>2
    <2>6. QED
      BY <2>5 DEF SendsCounted
  <1>8. ASSUME NEW n \in Nodes, task_throws(n) PROVE SendsCounted'
    <2>1. \A x \in Nodes : sends'[x] \subseteq sends[x]
      BY <1>8, ThrowFacts
    <2>2. QED
      BY <1>3, <2>1
  <1>9. QED
    BY <1>4, <1>5, <1>6, <1>7, <1>8, TaskCases

\* The tables that arrive.
LEMMA HeldCases ==
    ASSUME TaskTypes, CountTypes, NetTypes, TaskInv, TableInv, PlanTypes,
           Next
    PROVE  \/ Held' = Held /\ UNCHANGED cacheVars
           \/ \E n \in Nodes : \E s \in sends[n] : Adds(n, s) /\ AddFrame
           \/ \E m \in sent : /\ receive(m) /\ m.body = "table"
                              /\ Held' = Held \cup {m}
  <1>1. CASE UNCHANGED <<arrived, cacheVars>>
    BY <1>1 DEF Held
  <1>2. ASSUME NEW n \in Nodes, send_estimates(n)
        PROVE  UNCHANGED <<arrived, cacheVars>>
    BY <1>2 DEF send_estimates
  <1>3. ASSUME NEW n \in Nodes, send_total_partition_counts(n)
        PROVE  UNCHANGED <<arrived, cacheVars>>
    BY <1>3 DEF send_total_partition_counts
  <1>4. ASSUME NEW n \in Nodes, \/ tasks_done(n) \/ leave_wait(n)
                \/ bad_alloc(n) \/ task_throws(n)
                \/ start_task(n) \/ get_total_partition_counts(n)
                \/ wait_for_count(n)
                \/ determine_if_we_are_scattering_a_small_table(n)
        PROVE  UNCHANGED <<arrived, cacheVars>>
    BY <1>4 DEF tasks_done, leave_wait, bad_alloc, task_throws, start_task,
                wait_for_count,
                get_total_partition_counts, netVars,
                determine_if_we_are_scattering_a_small_table
  <1>5. ASSUME NEW m, lose(m) PROVE UNCHANGED <<arrived, cacheVars>>
    BY <1>5 DEF lose
  <1>6. ASSUME NEW n \in Nodes, add_local(n) \/ send_message(n)
        PROVE  \/ UNCHANGED <<arrived, cacheVars>>
               \/ \E s \in sends[n] : Adds(n, s) /\ AddFrame
    BY <1>6, SendSteps DEF Skips
  <1>7. ASSUME NEW m \in sent, receive(m)
        PROVE  \/ Held' = Held /\ UNCHANGED cacheVars
               \/ /\ receive(m) /\ m.body = "table"
                  /\ Held' = Held \cup {m}
    <2>1. /\ arrived' = arrived \cup {m}
          /\ m.body # "table" => UNCHANGED cacheVars
      BY <1>7 DEF receive
    <2>2. m.body = "table" => Held' = Held \cup {m}
      BY <2>1 DEF Held
    <2>3. m.body # "table" => Held' = Held
      BY <2>1 DEF Held
    <2>4. QED
      BY <1>7, <2>1, <2>2, <2>3
  <1>8. QED
    BY <1>1, <1>2, <1>3, <1>4, <1>5, <1>6, <1>7 DEF Next, node_step

\* A set of tables with one new one.
LEMMA OneMore ==
    ASSUME NetTypes, NEW T \in SUBSET sent, NEW t, t \notin T
    PROVE  Cardinality(T \cup {t}) = Cardinality(T) + 1
  BY TableSets, FS_AddElement

\* node_count counts the tables of a node.
LEMMA SentCountSteps ==
    ASSUME PlanTypes, TaskTypes, CountTypes, NetTypes, TaskInv, TableInv,
           CountInv, StepInv, Next
    PROVE  \A x \in Nodes, k \in Trackers, y \in Nodes :
              node_count'[x][k][y] = Cardinality(TablesOf(x, y, k)')
  <1>1. \A x \in Nodes, k \in Trackers, y \in Nodes :
           /\ node_count[x][k][y] = Cardinality(TablesOf(x, y, k))
           /\ TablesOf(x, y, k) \in SUBSET sent
    BY DEF CountInv, TablesOf, Tab
  <1>2. CASE NoTable
    BY <1>1, <1>2 DEF NoTable, TablesOf
  <1>3. ASSUME NEW n \in Nodes, NEW s \in sends[n], Adds(n, s),
               NEW x \in Nodes, NEW k \in Trackers, NEW y \in Nodes
        PROVE  node_count'[x][k][y] = Cardinality(TablesOf(x, y, k)')
    <2>1. Tab' = Tab \cup NewTables(n, s) /\ Tab \cap NewTables(n, s) = {}
      BY <1>3, AddsFacts
    <2>2. \A t \in NewTables(n, s) :
             /\ t.from = n /\ t.to \in s.to /\ t.tracker = s.tracker
             /\ t = table(n, s, t.to)
      BY NewFacts
    <2>3. node_count'[x][k][y] =
             IF x = n /\ k = s.tracker /\ y \in s.to
             THEN node_count[x][k][y] + 1 ELSE node_count[x][k][y]
      BY <1>3 DEF Adds
    <2>4. CASE x = n /\ k = s.tracker /\ y \in s.to
      <3> DEFINE t == table(n, s, y)
      <3>1. t \in NewTables(n, s) /\ t.to = y
        BY <2>4, NewFacts
      <3>2. \A u \in NewTables(n, s) : u.to = y <=> u = t
        BY <2>2, <3>1
      <3>3. t.from = n /\ t.tracker = s.tracker
        BY <2>2, <3>1
      <3> HIDE DEF t
      <3>4. TablesOf(x, y, k)' = TablesOf(x, y, k) \cup {t}
        BY <2>1, <2>2, <2>4, <3>1, <3>2, <3>3 DEF TablesOf
      <3>5. t \notin TablesOf(x, y, k)
        BY <2>1, <3>1 DEF TablesOf
      <3>6. QED
        BY <1>1, <2>3, <2>4, <3>4, <3>5, OneMore
    <2>5. CASE ~(x = n /\ k = s.tracker /\ y \in s.to)
      <3>1. TablesOf(x, y, k)' = TablesOf(x, y, k)
        BY <2>1, <2>2, <2>5 DEF TablesOf
      <3>2. QED
        BY <1>1, <2>3, <2>5, <3>1
    <2>6. QED
      BY <2>4, <2>5
  <1>4. QED
    BY <1>2, <1>3, TabCases

\* processed counts the tables in a cache.
LEMMA CacheCountSteps ==
    ASSUME PlanTypes, TaskTypes, CountTypes, NetTypes, TaskInv, TableInv,
           CountInv, StepInv, Next
    PROVE  \A x \in Nodes, k \in Trackers :
              processed'[x][k] = Cardinality(cached(x, k)')
  <1>1. \A x \in Nodes, k \in Trackers :
           /\ processed[x][k] = Cardinality(cached(x, k))
           /\ cached(x, k) \in SUBSET sent
    BY DEF CountInv, cached, NetTypes
  <1>2. /\ \A x, k : cached(x, k) = {m \in Held : m.to = x /\ m.tracker = k}
        /\ \A x, k : cached(x, k)' = {m \in Held' : m.to = x /\ m.tracker = k}
    BY DEF cached, Held
  <1>3. CASE Held' = Held /\ UNCHANGED cacheVars
    BY <1>1, <1>2, <1>3 DEF cacheVars
  <1>4. ASSUME NEW t, t.body = "table", t \notin arrived,
               arrived' = arrived \cup {t},
               NEW x \in Nodes, NEW k \in Trackers,
               processed'[x][k] = IF x = t.to /\ k = t.tracker
                                  THEN processed[x][k] + 1
                                  ELSE processed[x][k]
        PROVE  processed'[x][k] = Cardinality(cached(x, k)')
    <2>1. CASE x = t.to /\ k = t.tracker
      <3>1. cached(x, k)' = cached(x, k) \cup {t} /\ t \notin cached(x, k)
        BY <1>4, <2>1 DEF cached
      <3>2. QED
        BY <1>1, <1>4, <2>1, <3>1, OneMore
    <2>2. CASE ~(x = t.to /\ k = t.tracker)
      <3>1. cached(x, k)' = cached(x, k)
        BY <1>4, <2>2 DEF cached
      <3>2. QED
        BY <1>1, <1>4, <2>2, <3>1
    <2>3. QED
      BY <2>1, <2>2
  <1>5. ASSUME NEW m \in sent, receive(m), m.body = "table",
               NEW x \in Nodes, NEW k \in Trackers
        PROVE  processed'[x][k] = Cardinality(cached(x, k)')
    <2>1. /\ m \notin arrived /\ arrived' = arrived \cup {m}
          /\ processed'[x][k] = IF x = m.to /\ k = m.tracker
                                THEN processed[x][k] + 1
                                ELSE processed[x][k]
      BY <1>5, ReceiveFacts
    <2>2. QED
      BY <1>4, <1>5, <2>1
  <1>6. ASSUME NEW n \in Nodes, NEW s \in sends[n], Adds(n, s),
               NEW x \in Nodes, NEW k \in Trackers
        PROVE  processed'[x][k] = Cardinality(cached(x, k)')
    <2>1. processed'[x][k] = IF s.to = {n} /\ x = n /\ k = s.tracker
                             THEN processed[x][k] + 1 ELSE processed[x][k]
      BY <1>6 DEF Adds
    <2>2. CASE s.to # {n}
      <3>1. arrived' = arrived
        BY <1>6, <2>2 DEF Adds
      <3>2. QED
        BY <1>1, <2>1, <2>2, <3>1 DEF cached
    <2>3. CASE s.to = {n}
      <3> DEFINE t == table(n, s, n)
      <3>1. NewTables(n, s) = {t}
        BY <2>3 DEF NewTables
      <3>2. /\ t \notin sent /\ t.body = "table" /\ t.from = n
            /\ t.tracker = s.tracker /\ t.to \in s.to
        BY <3>1, NewFacts
      <3> HIDE DEF t
      <3>3. arrived' = arrived \cup {t} /\ t \notin arrived /\ t.to = n
        BY <1>6, <2>3, <3>1, <3>2 DEF Adds, NetTypes
      <3>4. processed'[x][k] = IF x = t.to /\ k = t.tracker
                               THEN processed[x][k] + 1 ELSE processed[x][k]
        BY <2>1, <2>3, <3>2, <3>3
      <3>5. QED
        BY <1>4, <3>2, <3>3, <3>4
    <2>4. QED
      BY <2>2, <2>3
  <1>7. QED
    BY <1>3, <1>5, <1>6, HeldCases

\* The counts are right.
LEMMA CountSteps ==
    ASSUME PlanTypes, TaskTypes, CountTypes, NetTypes, TaskInv, TableInv,
           CountInv, StepInv, Next
    PROVE  CountInv'
  BY SentCountSteps, CacheCountSteps DEF CountInv

\* The counts a node tells of are final.
LEMMA AnnouncedSteps ==
    ASSUME PlanTypes, TaskTypes, CountTypes, NetTypes, TaskInv, TableInv,
           CountInv, StepInv, Quiet, SumInv, AnnouncedInv, Next,
           failed = {}, failed' = {}
    PROVE  AnnouncedInv'
  <1>1. \A x \in Nodes : Past(x) => Past(x)'
    BY PastKept
  <1>2. ASSUME NEW c \in sent, c.body = "count"
        PROVE  /\ Past(c.from)'
               /\ c.count = node_count'[c.from][c.tracker][c.to]
    <2>1. /\ c.from \in Nodes /\ c.to \in Nodes /\ c.tracker \in Trackers
      BY <1>2, MessageKinds DEF NetTypes
    <2>2. /\ Past(c.from)
          /\ c.count = node_count[c.from][c.tracker][c.to]
      BY <1>2 DEF AnnouncedInv
    <2>3. CASE NoTable
      BY <1>1, <2>1, <2>2, <2>3 DEF NoTable
    <2>4. ASSUME NEW n \in Nodes, NEW s \in sends[n], Adds(n, s)
          PROVE  node_count'[c.from][c.tracker][c.to] =
                    node_count[c.from][c.tracker][c.to]
      <3>1. ~Past(n)
        BY <2>4 DEF Quiet
      <3>2. c.from # n
        BY <2>2, <3>1
      <3>3. QED
        BY <2>1, <2>4, <3>2 DEF Adds
    <2>5. QED
      BY <1>1, <2>1, <2>2, <2>3, <2>4, TabCases
  <1>3. ASSUME NEW c \in sent', c \notin sent, c.body = "count"
        PROVE  /\ Past(c.from)'
               /\ c.count = node_count'[c.from][c.tracker][c.to]
    <2>1. ASSUME NEW n \in Nodes, send_estimates(n) PROVE FALSE
      BY <1>3, <2>1, EstimatesSent
    <2>2. ASSUME NEW n \in Nodes, add_local(n) \/ send_message(n) PROVE FALSE
      <3>1. PICK s \in sends[n] : Adds(n, s) \/ Skips(n, s)
        BY <2>2, SendSteps
      <3>2. \A t \in NewTables(n, s) : t.body = "table"
        BY NewFacts
      <3>3. sent' = sent \/ sent' = sent \cup NewTables(n, s)
        BY <3>1 DEF Adds, Skips
      <3>4. QED
        BY <1>3, <3>2, <3>3
    <2>3. ASSUME NEW m, receive(m) \/ lose(m) PROVE FALSE
      BY <1>3, <2>3 DEF receive, lose
    <2>4. PICK n \in Nodes : send_total_partition_counts(n)
      <3>1. ~UNCHANGED netVars
        BY <1>3 DEF netVars
      <3>2. QED
        BY <2>1, <2>2, <2>3, <3>1, NetCases
    <2>5. c.from = n /\ c.count = node_count[n][c.tracker][c.to]
      BY <1>3, <2>4, CountsSent
    <2>6. Past(n) /\ node_count' = node_count
      BY <2>4 DEF send_total_partition_counts, Past
    <2>7. QED
      BY <1>1, <2>5, <2>6
  <1>4. QED
    BY <1>2, <1>3 DEF AnnouncedInv

-----------------------------------------------------------------------------
(* The sums, and what the waits have seen. *)

\* The loops over the trackers stay within them.
LEMMA StepSteps ==
    ASSUME PlanTypes, TaskTypes, CountTypes, TaskInv, StepInv, Next
    PROVE  StepInv'
  <1> DEFINE Good(x) ==
                /\ pc'[x] \in {"counting", "summing", "waiting"} =>
                      step'[x] \in DOMAIN count_trackers(x)'
                /\ pc'[x] \in {"estimate", "decide", "tasks"} => step'[x] = 1
  <1>1. /\ pc \in [Nodes -> Pcs] /\ step \in [Nodes -> Nat]
        /\ \A x \in Nodes :
              /\ pc[x] \in {"counting", "summing", "waiting"} =>
                    step[x] \in DOMAIN count_trackers(x)
              /\ pc[x] \in {"estimate", "decide", "tasks"} => step[x] = 1
    BY DEF PlanTypes, CountTypes, StepInv
  <1>2. \A x \in Nodes : Decided(x) =>
              count_trackers(x)' = count_trackers(x)
    BY PlanSteps, PlanKept
  <1>3. ASSUME NEW x \in Nodes, pc'[x] = pc[x], step'[x] = step[x]
        PROVE  Good(x)
    BY <1>1, <1>2, <1>3 DEF Decided
  <1>4. \A x \in Nodes : /\ Len(count_trackers(x)) \in Nat \ {0}
                         /\ DOMAIN count_trackers(x) =
                               1 .. Len(count_trackers(x))
    BY TrackerFacts
  \* A node that goes elsewhere.
  <1>5. ASSUME NEW n \in Nodes, NEW q, pc' = [pc EXCEPT ![n] = q],
               NEW i, step' = step \/ step' = [step EXCEPT ![n] = i], Good(n)
        PROVE  \A x \in Nodes : Good(x)
    <2>1. ASSUME NEW x \in Nodes, x # n PROVE Good(x)
      <3>1. pc'[x] = pc[x] /\ step'[x] = step[x]
        BY <1>1, <1>5, <2>1
      <3>2. QED
        BY <1>3, <3>1
    <2>2. QED
      BY <1>5, <2>1
  <1>6. ASSUME pc' = pc, step' = step PROVE \A x \in Nodes : Good(x)
    BY <1>3, <1>6
  <1>7. ASSUME NEW n \in Nodes, send_estimates(n)
        PROVE  \A x \in Nodes : Good(x)
    <2>1. /\ pc[n] = "estimate" /\ pc' = [pc EXCEPT ![n] = "decide"]
          /\ step' = step
      BY <1>7 DEF send_estimates, countVars
    <2>2. Good(n)
      BY <1>1, <2>1
    <2>3. QED
      BY <1>5, <2>1, <2>2
  <1>8. ASSUME NEW n \in Nodes,
               determine_if_we_are_scattering_a_small_table(n)
        PROVE  \A x \in Nodes : Good(x)
    <2>1. /\ pc[n] = "decide" /\ pc' = [pc EXCEPT ![n] = "tasks"]
          /\ step' = step
      BY <1>8 DEF determine_if_we_are_scattering_a_small_table, countVars
    <2>2. Good(n)
      BY <1>1, <2>1
    <2>3. QED
      BY <1>5, <2>1, <2>2
  <1>9. ASSUME NEW n \in Nodes, tasks_done(n) \/ leave_wait(n)
        PROVE  \A x \in Nodes : Good(x)
    <2>1. /\ pc[n] = "tasks" /\ step' = step
          /\ \/ pc' = [pc EXCEPT ![n] = "counting"]
             \/ pc' = [pc EXCEPT ![n] = "threw"]
      BY <1>9 DEF tasks_done, leave_wait, countVars
    <2>2. step'[n] = 1 /\ 1 \in DOMAIN count_trackers(n)'
      BY <1>1, <1>2, <1>4, <2>1 DEF Decided
    <2>3. Good(n)
      BY <1>1, <2>1, <2>2
    <2>4. QED
      BY <1>5, <2>1, <2>3
  <1>10. ASSUME NEW n \in Nodes, task_throws(n)
         PROVE  \A x \in Nodes : Good(x)
    <2>1. step' = step /\ \/ pc' = pc
                          \/ pc' = [pc EXCEPT ![n] = "threw"]
      BY <1>10, ThrowFacts DEF countVars
    <2>2. CASE pc' = pc
      BY <1>6, <2>1, <2>2
    <2>3. CASE pc' = [pc EXCEPT ![n] = "threw"]
      <3>1. Good(n)
        BY <1>1, <2>3
      <3>2. QED
        BY <1>5, <2>1, <2>3, <3>1
    <2>4. QED
      BY <2>1, <2>2, <2>3
  <1>11. ASSUME NEW n \in Nodes, send_total_partition_counts(n)
         PROVE  \A x \in Nodes : Good(x)
    <2>1. /\ pc[n] = "counting"
          /\ \/ /\ step[n] < Len(count_trackers(n)) /\ pc' = pc
                /\ step' = [step EXCEPT ![n] = step[n] + 1]
             \/ /\ begin_sum(n, 1)
                /\ pc' = [pc EXCEPT ![n] = "summing"]
      BY <1>11 DEF send_total_partition_counts
    <2>2. /\ step[n] \in DOMAIN count_trackers(n)
          /\ count_trackers(n)' = count_trackers(n)
      BY <1>1, <1>2, <2>1 DEF Decided
    <2>3. CASE /\ step[n] < Len(count_trackers(n)) /\ pc' = pc
               /\ step' = [step EXCEPT ![n] = step[n] + 1]
      <3>1. step'[n] \in DOMAIN count_trackers(n)'
        BY <1>1, <1>4, <2>2, <2>3
      <3>2. pc' = [pc EXCEPT ![n] = "counting"] /\ Good(n)
        BY <1>1, <2>1, <2>3, <3>1
      <3>3. QED
        BY <1>5, <2>3, <3>2
    <2>4. CASE begin_sum(n, 1) /\ pc' = [pc EXCEPT ![n] = "summing"]
      <3>1. step' = [step EXCEPT ![n] = 1]
        BY <2>4 DEF begin_sum
      <3>2. step'[n] \in DOMAIN count_trackers(n)'
        BY <1>1, <1>4, <2>2, <3>1
      <3>3. Good(n)
        BY <1>1, <2>4, <3>2
      <3>4. QED
        BY <1>5, <2>4, <3>1, <3>3
    <2>5. QED
      BY <2>1, <2>3, <2>4
  <1>12. ASSUME NEW n \in Nodes, get_total_partition_counts(n)
         PROVE  \A x \in Nodes : Good(x)
    <2>1. /\ pc[n] = "summing" /\ step' = step
          /\ \/ pc' = [pc EXCEPT ![n] = "waiting"]
             \/ pc' = [pc EXCEPT ![n] = pc[n]]
      BY <1>12 DEF get_total_partition_counts
    <2>2. step'[n] \in DOMAIN count_trackers(n)'
      BY <1>1, <1>2, <2>1 DEF Decided
    <2>3. Good(n)
      BY <1>1, <2>1, <2>2
    <2>4. QED
      BY <1>5, <2>1, <2>3
  <1>13. ASSUME NEW n \in Nodes, wait_for_count(n)
         PROVE  \A x \in Nodes : Good(x)
    <2>1. PICK q \in {"count_error", "summing", "returned"} :
              /\ pc[n] = "waiting" /\ pc' = [pc EXCEPT ![n] = q]
              /\ \/ /\ step[n] < Len(count_trackers(n))
                    /\ begin_sum(n, step[n] + 1)
                 \/ q # "summing" /\ UNCHANGED countVars
      BY <1>13 DEF wait_for_count
    <2>2. /\ step[n] \in DOMAIN count_trackers(n)
          /\ count_trackers(n)' = count_trackers(n)
      BY <1>1, <1>2, <2>1 DEF Decided
    <2>3. CASE /\ step[n] < Len(count_trackers(n))
               /\ begin_sum(n, step[n] + 1)
      <3>1. step' = [step EXCEPT ![n] = step[n] + 1]
        BY <2>3 DEF begin_sum
      <3>2. step'[n] \in DOMAIN count_trackers(n)'
        BY <1>1, <1>4, <2>2, <2>3, <3>1
      <3>3. Good(n)
        BY <1>1, <2>1, <3>2
      <3>4. QED
        BY <1>5, <2>1, <3>1, <3>3
    <2>4. CASE q # "summing" /\ UNCHANGED countVars
      <3>1. Good(n) /\ step' = step
        BY <1>1, <2>1, <2>4 DEF countVars
      <3>2. QED
        BY <1>5, <2>1, <3>1
    <2>5. QED
      BY <2>1, <2>3, <2>4
  <1>14. ASSUME NEW n \in Nodes, \/ start_task(n) \/ bad_alloc(n)
                                  \/ add_local(n) \/ send_message(n)
         PROVE  \A x \in Nodes : Good(x)
    <2>1. pc' = pc /\ step' = step
      BY <1>14, SendSteps DEF start_task, bad_alloc, AddFrame, countVars
    <2>2. QED
      BY <1>6, <2>1
  <1>15. ASSUME NEW m, receive(m) \/ lose(m)
         PROVE  \A x \in Nodes : Good(x)
    <2>1. pc' = pc /\ step' = step
      BY <1>15 DEF receive, lose, countVars
    <2>2. QED
      BY <1>6, <2>1
  <1>16. \A x \in Nodes : Good(x)
    BY <1>7, <1>8, <1>9, <1>10, <1>11, <1>12, <1>13, <1>14, <1>15
       DEF Next, node_step
  <1>17. QED
    BY <1>16 DEF StepInv

\* A node that is not through with its tasks, or sends its counts, sums up
\* nothing.
LEMMA SumIdle ==
    ASSUME NEW x \in Nodes, pc'[x] \notin {"summing", "waiting", "returned"}
    PROVE  SumOf(x)'
  <1>1. Awaited(x)' = {}
    BY DEF Awaited
  <1>2. QED
    BY <1>1 DEF SumOf

\* What a node has summed up is not changed by the steps of others.
LEMMA SumFrame ==
    ASSUME PlanTypes, TaskTypes, CountTypes, NetTypes, TaskInv, TableInv,
           CountInv, StepInv, Quiet, SumInv, Next,
           failed = {}, failed' = {},
           NEW x \in Nodes, pc'[x] = pc[x], step'[x] = step[x],
           to_ask'[x] = to_ask[x], total_count'[x] = total_count[x]
    PROVE  SumOf(x)'
  <1>1. SumOf(x)
    BY DEF SumInv
  <1>2. CASE ~Past(x)
    <2>1. pc'[x] \notin {"summing", "waiting", "returned"}
      BY <1>2 DEF Past
    <2>2. QED
      BY <2>1, SumIdle
  <1>3. CASE Past(x)
    <2>1. Decided(x)
      BY <1>3 DEF Past, Decided
    <2>2. /\ count_trackers(x)' = count_trackers(x)
          /\ \A m \in Nodes : Past(m) => Past(m)'
          /\ arrived \subseteq arrived'
      BY <2>1, PlanSteps, PlanKept, PastKept, NetSteps
    <2>3. Awaited(x)' = Awaited(x)
      BY <2>2 DEF Awaited
    <2>4. \/ NoTable
          \/ \E n \in Nodes : ~Past(n) /\ Tab \subseteq Tab'
                              /\ \A t \in Tab' \ Tab : t.from = n
      <3>1. ASSUME NEW n \in Nodes, NEW s \in sends[n], Adds(n, s)
            PROVE  ~Past(n) /\ Tab \subseteq Tab'
                   /\ \A t \in Tab' \ Tab : t.from = n
        <4>1. ~Past(n)
          BY DEF Quiet
        <4>2. QED
          BY <3>1, <4>1, AddsFacts, NewFacts
      <3>2. QED
        BY <3>1, TabCases
    <2>5. /\ pc[x] \in {"summing", "waiting"} =>
                \A k : Heard(x, k)' = Heard(x, k)
          /\ Awaited(x) # {} => \A k : TablesTo(x, k)' = TablesTo(x, k)
      <3>1. CASE NoTable
        BY <3>1 DEF NoTable, Heard, TablesTo
      <3>2. ASSUME NEW n \in Nodes, ~Past(n), Tab \subseteq Tab',
                   \A t \in Tab' \ Tab : t.from = n
            PROVE  /\ pc[x] \in {"summing", "waiting"} =>
                         \A k : Heard(x, k)' = Heard(x, k)
                   /\ Awaited(x) = {}
        <4>1. Awaited(x) = {}
          BY <1>1, <3>2 DEF SumOf
        <4>2. ASSUME pc[x] \in {"summing", "waiting"}
              PROVE  \A k : Heard(x, k)' = Heard(x, k)
          <5>1. n \in to_ask[x]
            BY <1>1, <3>2, <4>2 DEF SumOf
          <5>2. QED
            BY <3>2, <5>1 DEF Heard, TablesTo
        <4>3. QED
          BY <4>1, <4>2
      <3>3. QED
        BY <2>4, <3>1, <3>2
    <2>6. pc'[x] = "waiting" => to_ask'[x] = {}
      BY <1>1 DEF SumOf
    <2>7. PICK k : k = count_trackers(x)[step[x]]
      OBVIOUS
    <2>8. count_trackers(x)'[step'[x]] = k
      BY <2>2, <2>7
    <2>9. pc'[x] \in {"summing", "waiting"} =>
             /\ x \notin to_ask'[x]
             /\ \A m \in Nodes \ to_ask'[x] : Past(m)'
             /\ total_count'[x] = Cardinality(Heard(x, k)')
      BY <1>1, <2>2, <2>5, <2>7 DEF SumOf
    <2>10. /\ Awaited(x)' # {} => \A m \in Nodes : Past(m)'
           /\ \A j \in Awaited(x)' : TablesTo(x, j)' \subseteq arrived'
      BY <1>1, <2>2, <2>3, <2>5 DEF SumOf
    <2>11. QED
      BY <2>6, <2>8, <2>9, <2>10 DEF SumOf
  <1>4. QED
    BY <1>2, <1>3

\* A sum starts with the tables that the node kept.
LEMMA SumBegins ==
    ASSUME PlanTypes, CountTypes, NetTypes, CountInv, NEW n \in Nodes,
           NEW i \in DOMAIN count_trackers(n), begin_sum(n, i),
           count_trackers(n)' = count_trackers(n), Tab' = Tab,
           pc'[n] = "summing", Past(n)',
           i > 1 => \A m \in Nodes : Past(m)',
           \A j \in 1 .. i - 1 :
              TablesTo(n, count_trackers(n)[j])' \subseteq arrived'
    PROVE  SumOf(n)'
  <1>1. PICK k : k = count_trackers(n)[i]
    OBVIOUS
  <1>2. /\ step' = [step EXCEPT ![n] = i]
        /\ total_count' = [total_count EXCEPT ![n] = node_count[n][k][n]]
        /\ to_ask' = [to_ask EXCEPT ![n] = Nodes \ {n}]
        /\ k \in Trackers /\ i \in Nat
    BY <1>1, BeginFacts
  <1>3. /\ step'[n] = i /\ total_count'[n] = node_count[n][k][n]
        /\ to_ask'[n] = Nodes \ {n}
    BY <1>2 DEF CountTypes
  <1>4. count_trackers(n)'[step'[n]] = k
    BY <1>1, <1>3
  <1>5. \A t \in Tab : t.from \in Nodes
    BY MessageKinds DEF Tab, NetTypes
  <1>6. Heard(n, k)' = TablesOf(n, n, k)
    <2>1. Heard(n, k)' = {t \in Tab : /\ t.to = n /\ t.tracker = k
                                      /\ t.from \notin Nodes \ {n}}
      BY <1>3 DEF Heard, TablesTo
    <2>2. QED
      BY <1>5, <2>1 DEF TablesOf
  <1>7. total_count'[n] = Cardinality(Heard(n, k)')
    BY <1>2, <1>3, <1>6 DEF CountInv
  <1>8. ASSUME NEW y \in Awaited(n)'
        PROVE  /\ i > 1 /\ TablesTo(n, y)' \subseteq arrived'
    <2>1. PICK j \in DOMAIN count_trackers(n) :
              y = count_trackers(n)[j] /\ j < i
      BY <1>3 DEF Awaited
    <2>2. j \in 1 .. i - 1 /\ i > 1
      BY <1>2, <2>1, TrackerFacts
    <2>3. QED
      BY <2>1, <2>2
  <1>9. /\ n \notin to_ask'[n] /\ \A m \in Nodes \ to_ask'[n] : Past(m)'
    BY <1>3
  <1>10. /\ Awaited(n)' # {} => \A m \in Nodes : Past(m)'
         /\ \A y \in Awaited(n)' : TablesTo(n, y)' \subseteq arrived'
    BY <1>8
  <1>11. QED
    BY <1>4, <1>7, <1>9, <1>10 DEF SumOf

\* A sum grows by the tables of one more node.
LEMMA SumGrows ==
    ASSUME PlanTypes, TaskTypes, CountTypes, NetTypes, CountInv, StepInv,
           AnnouncedInv, SumInv, Next, failed = {}, failed' = {},
           NEW n \in Nodes, get_total_partition_counts(n)
    PROVE  SumOf(n)'
  <1>1. PICK m \in to_ask[n], c \in arrived :
              /\ c.body = "count" /\ c.from = m /\ c.to = n
              /\ c.tracker = count_trackers(n)[step[n]]
              /\ c.count \in Nat /\ m \in Nodes
              /\ total_count' = [total_count EXCEPT ![n] = @ + c.count]
              /\ to_ask' = [to_ask EXCEPT ![n] = @ \ {m}]
              /\ pc[n] = "summing"
              /\ \/ to_ask[n] = {m} /\ pc' = [pc EXCEPT ![n] = "waiting"]
                 \/ to_ask[n] # {m} /\ pc' = pc
    BY AskFacts
  <1>2. PICK k : k = count_trackers(n)[step[n]]
    OBVIOUS
  <1>3. UNCHANGED <<step, sent, arrived>>
    BY DEF get_total_partition_counts, netVars
  <1>4. SumOf(n)
    BY DEF SumInv
  <1>5. /\ step[n] \in DOMAIN count_trackers(n) /\ k \in Trackers
        /\ n \notin to_ask[n] /\ \A x \in Nodes \ to_ask[n] : Past(x)
        /\ total_count[n] = Cardinality(Heard(n, k))
    BY <1>1, <1>2, <1>4, TrackerFacts DEF SumOf, StepInv
  <1>6. /\ total_count'[n] = total_count[n] + c.count
        /\ to_ask'[n] = to_ask[n] \ {m}
        /\ pc'[n] \in {"summing", "waiting"}
        /\ pc'[n] = "waiting" => to_ask[n] = {m}
    BY <1>1 DEF CountTypes, PlanTypes
  <1>7. Past(m) /\ c.count = Cardinality(TablesOf(m, n, k))
    <2>1. c \in sent
      BY DEF NetTypes
    <2>2. Past(m) /\ c.count = node_count[m][k][n]
      BY <1>1, <1>2, <2>1 DEF AnnouncedInv
    <2>3. QED
      BY <1>1, <1>5, <2>2 DEF CountInv
  <1>8. /\ Heard(n, k)' = Heard(n, k) \cup TablesOf(m, n, k)
        /\ Heard(n, k) \cap TablesOf(m, n, k) = {}
    BY <1>1, <1>3, <1>6 DEF Heard, TablesTo, TablesOf, Tab
  <1>9. Heard(n, k) \in SUBSET sent /\ TablesOf(m, n, k) \in SUBSET sent
    BY DEF Heard, TablesTo, TablesOf, Tab
  <1>10. total_count'[n] = Cardinality(Heard(n, k)')
    <2>1. /\ IsFiniteSet(Heard(n, k)) /\ Cardinality(Heard(n, k)) \in Nat
          /\ IsFiniteSet(TablesOf(m, n, k))
          /\ Cardinality(TablesOf(m, n, k)) \in Nat
      BY <1>9, TableSets
    <2>2. Cardinality(Heard(n, k)') =
             Cardinality(Heard(n, k)) + Cardinality(TablesOf(m, n, k))
             - Cardinality(Heard(n, k) \cap TablesOf(m, n, k))
      BY <1>8, <2>1, FS_Union
    <2>3. Cardinality(Heard(n, k) \cap TablesOf(m, n, k)) = 0
      BY <1>8, FS_EmptySet
    <2>4. QED
      BY <1>5, <1>6, <1>7, <2>1, <2>2, <2>3
  <1>11. Decided(n) /\ \A x \in Nodes : Past(x) => Past(x)'
    BY <1>1, PastKept DEF Decided
  <1>12. count_trackers(n)' = count_trackers(n)
    BY <1>11, PlanSteps, PlanKept
  <1>13. count_trackers(n)'[step'[n]] = k
    BY <1>2, <1>3, <1>12
  <1>14. Awaited(n)' = Awaited(n)
    BY <1>1, <1>3, <1>6, <1>12 DEF Awaited
  <1>15. /\ Awaited(n)' # {} => \A x \in Nodes : Past(x)'
         /\ \A y \in Awaited(n)' : TablesTo(n, y)' \subseteq arrived'
    BY <1>3, <1>4, <1>11, <1>14 DEF SumOf, TablesTo, Tab
  <1>16. /\ n \notin to_ask'[n] /\ \A x \in Nodes \ to_ask'[n] : Past(x)'
         /\ pc'[n] = "waiting" => to_ask'[n] = {}
         /\ Past(n)'
    BY <1>5, <1>6, <1>7, <1>11 DEF Past
  <1>17. QED
    BY <1>10, <1>13, <1>15, <1>16 DEF SumOf

\* What has been waited for has arrived.
LEMMA SumEnds ==
    ASSUME PlanTypes, TaskTypes, CountTypes, NetTypes, CountInv,
           StepInv, SumInv, Next, failed = {}, failed' = {},
           NEW n \in Nodes, wait_for_count(n)
    PROVE  SumOf(n)'
  <1>1. PICK k : k = count_trackers(n)[step[n]]
    OBVIOUS
  <1>2. /\ step[n] \in DOMAIN count_trackers(n) /\ k \in Trackers
        /\ pc[n] = "waiting" /\ to_ask[n] = {}
        /\ \A m \in Nodes : Past(m)
        /\ TablesTo(n, k) \subseteq arrived
        /\ \/ /\ step[n] < Len(count_trackers(n))
              /\ begin_sum(n, step[n] + 1)
              /\ pc' = [pc EXCEPT ![n] = "summing"]
           \/ /\ step[n] = Len(count_trackers(n))
              /\ pc' = [pc EXCEPT ![n] = "returned"]
              /\ UNCHANGED countVars
    BY <1>1, WaitFacts
  <1>3. UNCHANGED <<sent, arrived>>
    BY DEF wait_for_count, netVars
  <1>4. \A m \in Nodes : Past(m)'
    BY <1>2, PastKept
  <1>5. count_trackers(n)' = count_trackers(n)
    <2>1. Decided(n)
      BY <1>2 DEF Decided
    <2>2. QED
      BY <2>1, PlanSteps, PlanKept
  <1>6. /\ DOMAIN count_trackers(n) = 1 .. Len(count_trackers(n))
        /\ Len(count_trackers(n)) \in Nat /\ step[n] \in Nat
    BY <1>2, TrackerFacts
  <1>7. ASSUME NEW j \in 1 .. step[n]
        PROVE  TablesTo(n, count_trackers(n)[j])' \subseteq arrived'
    <2>1. PICK y : y = count_trackers(n)[j]
      OBVIOUS
    <2>2. CASE j = step[n]
      BY <1>1, <1>2, <1>3, <1>5, <2>1, <2>2 DEF TablesTo, Tab
    <2>3. CASE j < step[n]
      <3>1. y \in Awaited(n)
        BY <1>2, <1>6, <2>1, <2>3 DEF Awaited
      <3>2. TablesTo(n, y) \subseteq arrived
        BY <3>1 DEF SumInv, SumOf
      <3>3. QED
        BY <1>3, <1>5, <2>1, <3>2 DEF TablesTo, Tab
    <2>4. QED
      BY <1>6, <2>2, <2>3
  <1>8. CASE /\ step[n] < Len(count_trackers(n))
             /\ begin_sum(n, step[n] + 1)
             /\ pc' = [pc EXCEPT ![n] = "summing"]
    <2>1. PICK i : i = step[n] + 1
      OBVIOUS
    <2>2. i \in DOMAIN count_trackers(n) /\ begin_sum(n, i)
          /\ 1 .. i - 1 = 1 .. step[n]
      BY <1>6, <1>8, <2>1
    <2>3. pc'[n] = "summing" /\ Tab' = Tab
      BY <1>3, <1>8 DEF PlanTypes, Tab
    <2>4. \A j \in 1 .. i - 1 :
              TablesTo(n, count_trackers(n)[j])' \subseteq arrived'
      BY <1>7, <2>2
    <2>5. QED
      BY <1>4, <1>5, <2>2, <2>3, <2>4, SumBegins
  <1>9. CASE /\ step[n] = Len(count_trackers(n))
             /\ pc' = [pc EXCEPT ![n] = "returned"]
             /\ UNCHANGED countVars
    <2>1. pc'[n] = "returned" /\ step' = step
      BY <1>9 DEF PlanTypes, countVars
    <2>2. ASSUME NEW y \in Awaited(n)'
          PROVE  TablesTo(n, y)' \subseteq arrived'
      <3>1. PICK j \in DOMAIN count_trackers(n) : y = count_trackers(n)[j]
        BY <1>5, <2>1 DEF Awaited
      <3>2. j \in 1 .. step[n]
        BY <1>6, <1>9, <3>1
      <3>3. PICK T : T = TablesTo(n, count_trackers(n)[j])'
        OBVIOUS
      <3>4. T = TablesTo(n, y)'
        BY <1>5, <3>1, <3>3 DEF TablesTo
      <3>5. QED
        BY <1>7, <3>2, <3>3, <3>4
    <2>3. Past(n)'
      BY <2>1 DEF Past
    <2>4. QED
      BY <1>4, <2>1, <2>2, <2>3 DEF SumOf
  <1>10. QED
    BY <1>2, <1>8, <1>9

\* What a node sends counts of.
LEMMA SumStarts ==
    ASSUME PlanTypes, TaskTypes, CountTypes, NetTypes, CountInv,
           StepInv, SumInv, Next, failed = {}, failed' = {},
           NEW n \in Nodes, send_total_partition_counts(n)
    PROVE  SumOf(n)'
  <1>1. pc[n] = "counting"
    BY DEF send_total_partition_counts
  <1>2. Decided(n) /\ Past(n)
    BY <1>1 DEF Decided, Past
  <1>3. count_trackers(n)' = count_trackers(n) /\ Past(n)'
    BY <1>2, PlanSteps, PlanKept, PastKept
  <1>4. step[n] \in DOMAIN count_trackers(n)
    BY <1>1 DEF StepInv
  <1>5. /\ DOMAIN count_trackers(n) = 1 .. Len(count_trackers(n))
        /\ Len(count_trackers(n)) \in Nat /\ step[n] \in Nat
    BY <1>4, TrackerFacts
  <1>6. CASE /\ step[n] < Len(count_trackers(n))
             /\ step' = [step EXCEPT ![n] = @ + 1] /\ pc' = pc
    BY <1>1, <1>6, SumIdle
  <1>7. CASE begin_sum(n, 1) /\ pc' = [pc EXCEPT ![n] = "summing"]
    <2>1. PICK i : i = 1
      OBVIOUS
    <2>2. /\ i \in DOMAIN count_trackers(n) /\ begin_sum(n, i)
          /\ 1 .. i - 1 = {} /\ ~(i > 1)
      BY <1>4, <1>5, <1>7, <2>1
    <2>3. Tab' = Tab
      <3>1. PICK C \in SUBSET Counts :
                sent' = sent \cup C /\ \A c \in C : c.body = "count"
        BY CountsSent
      <3>2. QED
        BY <3>1 DEF Tab
    <2>4. pc'[n] = "summing"
      BY <1>7 DEF PlanTypes
    <2>5. QED
      BY <1>3, <2>2, <2>3, <2>4, SumBegins
  <1>8. QED
    BY <1>6, <1>7 DEF send_total_partition_counts

\* The sums are right, and what has been waited for is there.
LEMMA SumSteps ==
    ASSUME PlanTypes, TaskTypes, CountTypes, NetTypes, TaskInv, TableInv,
           CountInv, StepInv, Quiet, AnnouncedInv, SumInv, Next,
           failed = {}, failed' = {}
    PROVE  SumInv'
  <1>1. ASSUME NEW n \in Nodes, NEW x \in Nodes, x # n,
               \/ pc' = pc \/ \E q : pc' = [pc EXCEPT ![n] = q],
               \/ UNCHANGED countVars
               \/ \E i, j, k : /\ step' = step
                                  \/ step' = [step EXCEPT ![n] = i]
                               /\ total_count' = total_count
                                  \/ total_count' = [total_count EXCEPT ![n] = j]
                               /\ to_ask' = to_ask
                                  \/ to_ask' = [to_ask EXCEPT ![n] = k]
        PROVE  SumOf(x)'
    <2>1. pc'[x] = pc[x]
      BY <1>1 DEF PlanTypes
    <2>2. step'[x] = step[x] /\ to_ask'[x] = to_ask[x]
          /\ total_count'[x] = total_count[x]
      BY <1>1 DEF CountTypes, countVars
    <2>3. QED
      BY <2>1, <2>2, SumFrame
  <1>2. ASSUME UNCHANGED <<pc, countVars>> PROVE SumInv'
    BY <1>2, SumFrame DEF SumInv, countVars
  <1>3. ASSUME NEW n \in Nodes, UNCHANGED countVars, NEW q,
               pc' = [pc EXCEPT ![n] = q],
               q \in {"decide", "tasks", "counting"}
        PROVE  SumInv'
    <2>1. pc'[n] \notin {"summing", "waiting", "returned"}
      BY <1>3 DEF PlanTypes
    <2>2. SumOf(n)'
      BY <2>1, SumIdle
    <2>3. QED
      BY <1>1, <1>3, <2>2 DEF SumInv
  <1>4. ASSUME NEW n \in Nodes, send_estimates(n) PROVE SumInv'
    <2>1. pc' = [pc EXCEPT ![n] = "decide"] /\ UNCHANGED countVars
      BY <1>4 DEF send_estimates
    <2>2. QED
      BY <1>3, <2>1
  <1>5. ASSUME NEW n \in Nodes,
               determine_if_we_are_scattering_a_small_table(n)
        PROVE  SumInv'
    <2>1. pc' = [pc EXCEPT ![n] = "tasks"] /\ UNCHANGED countVars
      BY <1>5 DEF determine_if_we_are_scattering_a_small_table
    <2>2. QED
      BY <1>3, <2>1
  <1>6. ASSUME NEW n \in Nodes, bad_alloc(n) PROVE SumInv'
    <2>1. UNCHANGED <<pc, countVars>>
      BY <1>6 DEF bad_alloc
    <2>2. QED
      BY <1>2, <2>1
  <1>7. ASSUME NEW n \in Nodes, start_task(n) \/ add_local(n) \/ send_message(n)
        PROVE  SumInv'
    <2>1. UNCHANGED <<pc, countVars>>
      BY <1>7, SendSteps DEF start_task, AddFrame
    <2>2. QED
      BY <1>2, <2>1
  <1>8. ASSUME NEW m, receive(m) \/ lose(m) PROVE SumInv'
    <2>1. UNCHANGED <<pc, countVars>>
      BY <1>8 DEF receive, lose
    <2>2. QED
      BY <1>2, <2>1
  <1>9. ASSUME NEW n \in Nodes, tasks_done(n) PROVE SumInv'
    <2>1. pc' = [pc EXCEPT ![n] = "counting"] /\ UNCHANGED countVars
      BY <1>9 DEF tasks_done
    <2>2. QED
      BY <1>3, <2>1
  <1>10. ASSUME NEW n \in Nodes, send_total_partition_counts(n)
         PROVE  SumInv'
    <2>1. SumOf(n)'
      BY <1>10, SumStarts
    <2>2. \/ pc' = pc \/ \E q : pc' = [pc EXCEPT ![n] = q]
      BY <1>10 DEF send_total_partition_counts
    <2>3. \E i, j, k : /\ step' = step
                          \/ step' = [step EXCEPT ![n] = i]
                       /\ total_count' = total_count
                          \/ total_count' = [total_count EXCEPT ![n] = j]
                       /\ to_ask' = to_ask
                          \/ to_ask' = [to_ask EXCEPT ![n] = k]
      <3>1. CASE /\ step' = [step EXCEPT ![n] = @ + 1]
                 /\ UNCHANGED <<to_ask, total_count>>
        BY <3>1
      <3>2. CASE begin_sum(n, 1)
        BY <3>2 DEF begin_sum
      <3>3. QED
        BY <1>10, <3>1, <3>2 DEF send_total_partition_counts
    <2>4. QED
      BY <1>1, <2>1, <2>2, <2>3 DEF SumInv
  <1>11. ASSUME NEW n \in Nodes, get_total_partition_counts(n)
         PROVE  SumInv'
    <2>1. SumOf(n)'
      BY <1>11, SumGrows
    <2>2. \/ pc' = pc \/ \E q : pc' = [pc EXCEPT ![n] = q]
      BY <1>11 DEF get_total_partition_counts
    <2>3. /\ step' = step
          /\ \E j : total_count' = [total_count EXCEPT ![n] = j]
          /\ \E k : to_ask' = [to_ask EXCEPT ![n] = k]
      BY <1>11 DEF get_total_partition_counts
    <2>4. \E i, j, k : /\ step' = step
                          \/ step' = [step EXCEPT ![n] = i]
                       /\ total_count' = total_count
                          \/ total_count' = [total_count EXCEPT ![n] = j]
                       /\ to_ask' = to_ask
                          \/ to_ask' = [to_ask EXCEPT ![n] = k]
      BY <2>3
    <2>5. QED
      BY <1>1, <2>1, <2>2, <2>4 DEF SumInv
  <1>12. ASSUME NEW n \in Nodes, wait_for_count(n) PROVE SumInv'
    <2>1. SumOf(n)'
      BY <1>12, SumEnds
    <2>2. \/ pc' = pc \/ \E q : pc' = [pc EXCEPT ![n] = q]
      BY <1>12, WaitFacts
    <2>3. \/ UNCHANGED countVars
          \/ \E i, j, k : /\ step' = step
                             \/ step' = [step EXCEPT ![n] = i]
                          /\ total_count' = total_count
                             \/ total_count' = [total_count EXCEPT ![n] = j]
                          /\ to_ask' = to_ask
                             \/ to_ask' = [to_ask EXCEPT ![n] = k]
      BY <1>12 DEF wait_for_count, begin_sum
    <2>4. QED
      BY <1>1, <2>1, <2>2, <2>3 DEF SumInv
  <1>13. \A n \in Nodes : ~task_throws(n) /\ ~leave_wait(n)
    BY DEF task_throws, leave_wait
  <1>14. QED
    BY <1>4, <1>5, <1>6, <1>7, <1>8, <1>9, <1>10, <1>11, <1>12, <1>13
       DEF Next, node_step

-----------------------------------------------------------------------------
(* What the tasks have sent. *)

\* Tables stay sent.
LEMMA TabGrows ==
    ASSUME PlanTypes, TaskTypes, CountTypes, NetTypes, TableInv, StepInv, Next
    PROVE  Tab \subseteq Tab'
  BY NetSteps DEF Tab

\* A node's rows stay sent while its tasks stay as they are.
LEMMA DeliveredFrame ==
    ASSUME PlanTypes, TaskTypes, CountTypes, NetTypes, TaskInv, TableInv,
           StepInv, DeliveredInv, Next, NEW x \in Nodes,
           todo'[x] = todo[x], cur'[x] = cur[x], sends'[x] = sends[x]
    PROVE  DeliveredOf(x)'
  <1>1. /\ Fixed
        /\ Decided(x) => scatter_side'[x] = scatter_side[x]
        /\ Tab \subseteq Tab'
    BY PlanSteps, TabGrows
  <1>2. input' = input
    BY <1>1 DEF Fixed
  <1>3. CASE ~Decided(x)
    <2>1. \A t \in DOMAIN input[x] : t \in ToSet(todo[x])
      BY <1>3 DEF TaskInv, TaskOf
    <2>2. QED
      BY <1>2, <2>1 DEF DeliveredOf
  <1>4. CASE Decided(x)
    <2>1. \A t : belongs(x, t)' = belongs(x, t)
      BY <1>1, <1>4, PlanKept
    <2>2. DeliveredOf(x)
      BY DEF DeliveredInv
    <2>3. ASSUME NEW t, NEW d,
                 Delivered(x, t, d) \/ Outstanding(x, t, d)
          PROVE  Delivered(x, t, d)' \/ Outstanding(x, t, d)'
      <3>1. Delivered(x, t, d) => Delivered(x, t, d)'
        BY <1>1 DEF Delivered
      <3>2. Outstanding(x, t, d) => Outstanding(x, t, d)'
        BY DEF Outstanding
      <3>3. QED
        BY <2>3, <3>1, <3>2
    <2>4. ASSUME NEW t \in DOMAIN input[x],
                 t \notin ToSet(todo[x]), NEW d \in belongs(x, t)
          PROVE  Delivered(x, t, d)' \/ Outstanding(x, t, d)'
      <3>1. Delivered(x, t, d) \/ Outstanding(x, t, d)
        BY <1>1, <2>2, <2>4 DEF DeliveredOf
      <3>2. QED
        BY <2>3, <3>1
    <2>5. QED
      BY <1>2, <2>1, <2>4 DEF DeliveredOf
  <1>5. QED
    BY <1>3, <1>4

\* Every task that was run has sent its rows, or is about to.
LEMMA DeliveredSteps ==
    ASSUME PlanTypes, TaskTypes, CountTypes, NetTypes, TaskInv, TableInv,
           StepInv, DeliveredInv, Next, failed = {}, failed' = {}
    PROVE  DeliveredInv'
  <1>1. /\ Fixed /\ input' = input
        /\ \A x \in Nodes : Decided(x) => scatter_side'[x] = scatter_side[x]
        /\ Tab \subseteq Tab'
    BY PlanSteps, TabGrows DEF Fixed
  <1>2. /\ todo \in [Nodes -> Seq(Nat)] /\ cur \in [Nodes -> Nat]
        /\ sends \in [Nodes -> SUBSET SendRecords]
    BY DEF TaskTypes
  <1>3. ASSUME NEW n, NEW t, NEW d, Delivered(n, t, d)
        PROVE  Delivered(n, t, d)'
    BY <1>1, <1>3 DEF Delivered
  <1>4. CASE UNCHANGED taskVars
    <2>1. todo' = todo /\ cur' = cur /\ sends' = sends
      BY <1>4 DEF taskVars
    <2>2. QED
      BY <2>1, DeliveredFrame DEF DeliveredInv
  <1>5. ASSUME NEW n \in Nodes, start_task(n) PROVE DeliveredInv'
    <2>1. PICK t, S, r :
              /\ t = Head(todo[n]) /\ r = Tail(todo[n])
              /\ S = do_process(n, input[n][t].side, input[n][t].rows)
      OBVIOUS
    <2>2. /\ t \in DOMAIN input[n] /\ Decided(n) /\ sends[n] = {}
          /\ cur' = [cur EXCEPT ![n] = t]
          /\ sends' = [sends EXCEPT ![n] = S]
          /\ todo' = [todo EXCEPT ![n] = r]
          /\ ToSet(todo[n]) = ToSet(r) \cup {t}
      BY <1>5, <2>1, StartFacts
    <2>3. \A d \in belongs(n, t) :
             \E s \in S : s.rows /\ d[1] \in s.to /\ s.tracker = d[2]
      BY <2>1, <2>2, DoProcessComplete DEF Complete
    <2>4. cur'[n] = t /\ sends'[n] = S /\ todo'[n] = r
      BY <1>2, <2>2
    <2>5. \A i : belongs(n, i)' = belongs(n, i)
      BY <1>1, <2>2, PlanKept
    <2>6. ASSUME NEW i \in DOMAIN input[n], i \notin ToSet(r),
                 NEW d \in belongs(n, i)
          PROVE  Delivered(n, i, d)' \/ Outstanding(n, i, d)'
      <3>1. CASE i = t
        BY <2>3, <2>4, <2>6, <3>1 DEF Outstanding
      <3>2. CASE i # t
        <4>1. i \notin ToSet(todo[n])
          BY <2>2, <2>6, <3>2
        <4>2. Delivered(n, i, d) \/ Outstanding(n, i, d)
          BY <2>2, <2>6, <4>1 DEF DeliveredInv, DeliveredOf
        <4>3. ~Outstanding(n, i, d)
          BY <2>2 DEF Outstanding
        <4>4. QED
          BY <1>3, <4>2, <4>3
      <3>3. QED
        BY <3>1, <3>2
    <2>7. DeliveredOf(n)'
      BY <1>1, <2>4, <2>5, <2>6 DEF DeliveredOf
    <2>8. \A x \in Nodes : x # n => DeliveredOf(x)'
      <3>1. \A x \in Nodes : x # n => /\ todo'[x] = todo[x]
                                      /\ cur'[x] = cur[x]
                                      /\ sends'[x] = sends[x]
        BY <1>2, <2>2
      <3>2. QED
        BY <3>1, DeliveredFrame
    <2>9. QED
      BY <2>7, <2>8 DEF DeliveredInv
  <1>6. ASSUME NEW n \in Nodes, bad_alloc(n) PROVE DeliveredInv'
    <2>1. /\ Decided(n) /\ cur' = cur
          /\ sends' = [sends EXCEPT ![n] = {}]
      BY <1>6, BadFacts
    <2>2. PICK q : /\ todo' = [todo EXCEPT ![n] = q]
                   /\ ToSet(q) = ToSet(todo[n]) \cup {cur[n]}
      BY <1>6, BadFacts
    <2>3. todo'[n] = q /\ \A x \in Nodes : x # n => todo'[x] = todo[x]
      BY <1>2, <2>2
    <2>4. \A i : belongs(n, i)' = belongs(n, i)
      BY <1>1, <2>1, PlanKept
    <2>5. ASSUME NEW i \in DOMAIN input[n], i \notin ToSet(q),
                 NEW d \in belongs(n, i)
          PROVE  Delivered(n, i, d)'
      <3>1. i \notin ToSet(todo[n]) /\ i # cur[n]
        BY <2>2, <2>5
      <3>2. Delivered(n, i, d) \/ Outstanding(n, i, d)
        BY <2>5, <3>1 DEF DeliveredInv, DeliveredOf
      <3>3. ~Outstanding(n, i, d)
        BY <3>1 DEF Outstanding
      <3>4. QED
        BY <1>3, <3>2, <3>3
    <2>6. DeliveredOf(n)'
      BY <1>1, <2>3, <2>4, <2>5 DEF DeliveredOf
    <2>7. \A x \in Nodes : x # n => DeliveredOf(x)'
      <3>1. \A x \in Nodes : x # n => /\ todo'[x] = todo[x]
                                      /\ cur'[x] = cur[x]
                                      /\ sends'[x] = sends[x]
        BY <1>2, <2>1, <2>3
      <3>2. QED
        BY <3>1, DeliveredFrame
    <2>8. QED
      BY <2>6, <2>7 DEF DeliveredInv
  <1>7. ASSUME NEW n \in Nodes, add_local(n) \/ send_message(n)
        PROVE  DeliveredInv'
    <2>1. PICK s \in sends[n] : Adds(n, s) \/ Skips(n, s)
      BY <1>7, SendSteps
    <2>2. UNCHANGED <<todo, cur, pc>>
      BY <1>7, SendSteps DEF AddFrame
    <2>3. sends' = [sends EXCEPT ![n] = @ \ {s}]
      BY <2>1 DEF Adds, Skips
    <2>4. sends'[n] = sends[n] \ {s}
          /\ \A x \in Nodes : x # n => sends'[x] = sends[x]
      BY <1>2, <2>3
    <2>5. \A i : belongs(n, i)' = belongs(n, i)
      <3>1. Decided(n)
        BY DEF TaskInv, TaskOf
      <3>2. QED
        BY <1>1, <3>1, PlanKept
    <2>6. ASSUME NEW i, NEW d, Outstanding(n, i, d)
          PROVE  Delivered(n, i, d)' \/ Outstanding(n, i, d)'
      <3>1. PICK u \in sends[n] : u.rows /\ d[1] \in u.to /\ u.tracker = d[2]
        BY <2>6 DEF Outstanding
      <3>2. i = cur[n]
        BY <2>6 DEF Outstanding
      <3>3. CASE u # s
        BY <2>2, <2>4, <3>1, <3>2, <3>3 DEF Outstanding
      <3>4. CASE u = s
        <4>1. Adds(n, s)
          BY <2>1, <3>1, <3>4 DEF Skips
        <4>2. PICK c : c = table(n, s, d[1])
          OBVIOUS
        <4>3. c \in NewTables(n, s) /\ c.to = d[1]
          BY <3>1, <3>4, <4>2, NewFacts
        <4>4. c.from = n /\ c.tracker = s.tracker /\ c.task = cur[n]
              /\ c.rows = s.rows
          BY <4>3, NewFacts
        <4>5. c \in Tab'
          BY <4>1, <4>3, AddsFacts
        <4>6. QED
          BY <3>1, <3>2, <3>4, <4>3, <4>4, <4>5 DEF Delivered
      <3>5. QED
        BY <3>3, <3>4
    <2>7. ASSUME NEW i \in DOMAIN input[n],
                 i \notin ToSet(todo[n]), NEW d \in belongs(n, i)
          PROVE  Delivered(n, i, d)' \/ Outstanding(n, i, d)'
      <3>1. Delivered(n, i, d) \/ Outstanding(n, i, d)
        BY <2>7 DEF DeliveredInv, DeliveredOf
      <3>2. QED
        BY <1>3, <2>6, <3>1
    <2>8. DeliveredOf(n)'
      BY <1>1, <2>2, <2>5, <2>7 DEF DeliveredOf
    <2>9. \A x \in Nodes : x # n => DeliveredOf(x)'
      BY <2>2, <2>4, DeliveredFrame
    <2>10. QED
      BY <2>8, <2>9 DEF DeliveredInv
  <1>8. \A n \in Nodes : ~task_throws(n)
    BY DEF task_throws
  <1>9. QED
    BY <1>4, <1>5, <1>6, <1>7, <1>8, TaskCases

-----------------------------------------------------------------------------
(* What a node leaves in its own caches. *)

\* A cache to which something was added holds something.
LEMMA CacheSteps ==
    ASSUME PlanTypes, TaskTypes, CountTypes, NetTypes, TaskInv, TableInv,
           StepInv, SchemaInv, Next
    PROVE  /\ \A x \in Nodes, k \in Trackers :
                 /\ cache_added[x][k] => cache_added'[x][k]
                 /\ cache_added'[x][k] => cached(x, k)' # {}
  <1>1. \A x, k : cached(x, k) \subseteq cached(x, k)'
    BY NetSteps DEF cached
  <1>2. ASSUME NEW x \in Nodes, NEW k \in Trackers, cache_added[x][k]
        PROVE  cached(x, k)' # {}
    BY <1>1, <1>2 DEF SchemaInv
  <1>3. ASSUME cache_added' = cache_added
        PROVE  \A x \in Nodes, k \in Trackers :
                 /\ cache_added[x][k] => cache_added'[x][k]
                 /\ cache_added'[x][k] => cached(x, k)' # {}
    BY <1>2, <1>3
  <1>4. ASSUME NEW m \in sent, receive(m), m.body = "table",
               NEW x \in Nodes, NEW k \in Trackers
        PROVE  /\ cache_added[x][k] => cache_added'[x][k]
               /\ cache_added'[x][k] => cached(x, k)' # {}
    <2>1. /\ arrived' = arrived \cup {m}
          /\ cache_added'[x][k] <=>
                cache_added[x][k] \/ (x = m.to /\ k = m.tracker)
      BY <1>4, ReceiveFacts
    <2>2. x = m.to /\ k = m.tracker => m \in cached(x, k)'
      BY <1>4, <2>1 DEF cached
    <2>3. QED
      BY <1>2, <2>1, <2>2
  <1>5. ASSUME NEW n \in Nodes, NEW s \in sends[n], Adds(n, s),
               NEW x \in Nodes, NEW k \in Trackers
        PROVE  /\ cache_added[x][k] => cache_added'[x][k]
               /\ cache_added'[x][k] => cached(x, k)' # {}
    <2>1. cache_added'[x][k] <=>
             cache_added[x][k] \/ (s.to = {n} /\ x = n /\ k = s.tracker)
      BY <1>5 DEF Adds
    <2>2. ASSUME s.to = {n}, x = n, k = s.tracker
          PROVE  cached(x, k)' # {}
      <3>1. PICK t : t = table(n, s, n)
        OBVIOUS
      <3>2. t \in NewTables(n, s) /\ t.to = n
        BY <2>2, <3>1, NewFacts
      <3>3. t.body = "table" /\ t.tracker = s.tracker
        BY <3>2, NewFacts
      <3>4. t \in arrived'
        BY <1>5, <2>2, <3>2 DEF Adds
      <3>5. t \in cached(x, k)'
        BY <2>2, <3>2, <3>3, <3>4 DEF cached
      <3>6. QED
        BY <3>5
    <2>3. QED
      BY <1>2, <2>1, <2>2
  <1>6. QED
    BY <1>3, <1>4, <1>5, HeldCases DEF cacheVars

\* A node's own caches keep what its tasks left there.
LEMMA KeptFrame ==
    ASSUME PlanTypes, TaskTypes, CountTypes, NetTypes, TaskInv, TableInv,
           StepInv, SchemaInv, Next, NEW x \in Nodes,
           todo'[x] = todo[x], cur'[x] = cur[x], sends'[x] = sends[x]
    PROVE  KeptOf(x)'
  <1>1. /\ kind' = kind /\ input' = input
        /\ \A k \in Trackers : cache_added[x][k] => cache_added'[x][k]
    BY PlanSteps, CacheSteps DEF Fixed
  <1>2. \A t, k : Keeps(x, t, k)' = Keeps(x, t, k)
    BY <1>1 DEF Keeps
  <1>3. KeptOf(x)
    BY DEF SchemaInv
  <1>4. ASSUME NEW t \in DOMAIN input[x], t \notin ToSet(todo[x])
        PROVE  \/ \E s \in sends[x] :
                     t = cur[x] /\ s.to = {x} /\ Keeps(x, t, s.tracker)
               \/ \E k \in Trackers : Keeps(x, t, k) /\ cache_added'[x][k]
    BY <1>1, <1>3, <1>4 DEF KeptOf
  <1>5. QED
    BY <1>1, <1>2, <1>4 DEF KeptOf

\* Steps leave a table in each cache that is to have one.
LEMMA SchemaSteps ==
    ASSUME PlanTypes, TaskTypes, CountTypes, NetTypes, TaskInv, TableInv,
           SendsCounted, StepInv, SchemaInv, Next, failed = {}, failed' = {}
    PROVE  SchemaInv'
  <1>1. /\ kind' = kind /\ input' = input
        /\ \A x \in Nodes, k \in Trackers :
              /\ cache_added[x][k] => cache_added'[x][k]
              /\ cache_added'[x][k] => cached(x, k)' # {}
    BY PlanSteps, CacheSteps DEF Fixed
  <1>2. /\ todo \in [Nodes -> Seq(Nat)] /\ cur \in [Nodes -> Nat]
        /\ sends \in [Nodes -> SUBSET SendRecords]
    BY DEF TaskTypes
  <1>3. \A x, t, k : Keeps(x, t, k)' = Keeps(x, t, k)
    BY <1>1 DEF Keeps
  <1>4. ASSUME NEW x \in Nodes, set_empty_part'[x]
        PROVE  cache_added'[x][0]
    <2>1. 0 \in Trackers
      BY PartFacts
    <2>2. CASE set_empty_part[x]
      BY <1>1, <2>1, <2>2 DEF SchemaInv
    <2>3. ASSUME NEW n \in Nodes, NEW s \in sends[n], Adds(n, s)
          PROVE  cache_added'[x][0]
      <3>1. set_empty_part[x] \/ (x = n /\ s.to = {n} /\ s.always)
        BY <1>4, <2>3 DEF Adds
      <3>2. s.always => s.tracker = 0
        BY DEF SendsCounted
      <3>3. x = n /\ s.to = {n} /\ s.tracker = 0 => cache_added'[x][0]
        BY <2>1, <2>3 DEF Adds
      <3>4. QED
        BY <2>2, <3>1, <3>2, <3>3
    <2>4. CASE set_empty_part' = set_empty_part
      BY <1>4, <2>2, <2>4
    <2>5. ASSUME NEW n \in Nodes, add_local(n) \/ send_message(n)
          PROVE  cache_added'[x][0]
      <3>1. PICK s \in sends[n] : Adds(n, s) \/ Skips(n, s)
        BY <2>5, SendSteps
      <3>2. Skips(n, s) => set_empty_part' = set_empty_part
        BY DEF Skips, trackVars
      <3>3. QED
        BY <2>3, <2>4, <3>1, <3>2
    <2>6. ASSUME NEW n \in Nodes,
                 \/ send_estimates(n) \/ bad_alloc(n) \/ tasks_done(n)
                 \/ determine_if_we_are_scattering_a_small_table(n)
                 \/ send_total_partition_counts(n) \/ start_task(n)
                 \/ get_total_partition_counts(n) \/ wait_for_count(n)
          PROVE  set_empty_part' = set_empty_part
      BY <2>6 DEF send_estimates, bad_alloc, tasks_done, start_task,
                  determine_if_we_are_scattering_a_small_table,
                  send_total_partition_counts, get_total_partition_counts,
                  wait_for_count, trackVars
    <2>7. ASSUME NEW m, receive(m) \/ lose(m)
          PROVE  set_empty_part' = set_empty_part
      BY <2>7 DEF receive, lose, trackVars
    <2>8. \A n \in Nodes : ~task_throws(n) /\ ~leave_wait(n)
      BY DEF task_throws, leave_wait
    <2>9. QED
      BY <2>4, <2>5, <2>6, <2>7, <2>8 DEF Next, node_step
  <1>5. CASE UNCHANGED taskVars
    <2>1. todo' = todo /\ cur' = cur /\ sends' = sends
      BY <1>5 DEF taskVars
    <2>2. QED
      BY <1>1, <1>4, <2>1, KeptFrame DEF SchemaInv
  <1>6. ASSUME NEW n \in Nodes, start_task(n) PROVE SchemaInv'
    <2>1. PICK t, S, r :
              /\ t = Head(todo[n]) /\ r = Tail(todo[n])
              /\ S = do_process(n, input[n][t].side, input[n][t].rows)
      OBVIOUS
    <2>2. /\ t \in DOMAIN input[n] /\ Decided(n) /\ sends[n] = {}
          /\ cur' = [cur EXCEPT ![n] = t]
          /\ sends' = [sends EXCEPT ![n] = S]
          /\ todo' = [todo EXCEPT ![n] = r]
          /\ ToSet(todo[n]) = ToSet(r) \cup {t}
      BY <1>6, <2>1, StartFacts
    <2>3. cur'[n] = t /\ sends'[n] = S /\ todo'[n] = r
      BY <1>2, <2>2
    <2>4. \/ \E k \in Trackers : Keeps(n, t, k) /\ cache_added[n][k]
          \/ \E s \in S : s.to = {n} /\ Keeps(n, t, s.tracker)
      <3>1. \/ kind = "no_group" /\ set_empty_part[n]
            \/ \E k \in Trackers : Keeps(n, t, k) /\ Stays(n, S, k)
        BY <2>1, <2>2, DoProcessComplete
      <3>2. CASE kind = "no_group" /\ set_empty_part[n]
        <4>1. Keeps(n, t, 0) /\ cache_added[n][0] /\ 0 \in Trackers
          BY <3>2, PartFacts DEF Keeps, SchemaInv
        <4>2. QED
          BY <4>1
      <3>3. CASE \E k \in Trackers : Keeps(n, t, k) /\ Stays(n, S, k)
        BY <3>3 DEF Stays
      <3>4. QED
        BY <3>1, <3>2, <3>3
    <2>5. ASSUME NEW i \in DOMAIN input[n], i \notin ToSet(r)
          PROVE  \/ \E s \in S :
                       i = t /\ s.to = {n} /\ Keeps(n, i, s.tracker)
                 \/ \E k \in Trackers : Keeps(n, i, k) /\ cache_added'[n][k]
      <3>1. CASE i = t
        BY <1>1, <2>4, <3>1
      <3>2. CASE i # t
        <4>1. i \notin ToSet(todo[n])
          BY <2>2, <2>5, <3>2
        <4>2. \E k \in Trackers : Keeps(n, i, k) /\ cache_added[n][k]
          BY <2>2, <2>5, <4>1 DEF SchemaInv, KeptOf
        <4>3. QED
          BY <1>1, <4>2
      <3>3. QED
        BY <3>1, <3>2
    <2>6. KeptOf(n)'
      BY <1>1, <1>3, <2>3, <2>5 DEF KeptOf
    <2>7. \A x \in Nodes : x # n => KeptOf(x)'
      <3>1. \A x \in Nodes : x # n => /\ todo'[x] = todo[x]
                                      /\ cur'[x] = cur[x]
                                      /\ sends'[x] = sends[x]
        BY <1>2, <2>2
      <3>2. QED
        BY <3>1, KeptFrame
    <2>8. QED
      BY <1>1, <1>4, <2>6, <2>7 DEF SchemaInv
  <1>7. ASSUME NEW n \in Nodes, bad_alloc(n) PROVE SchemaInv'
    <2>1. cur' = cur /\ sends' = [sends EXCEPT ![n] = {}]
      BY <1>7, BadFacts
    <2>2. /\ \A x \in Nodes : x # n => todo'[x] = todo[x]
          /\ ToSet(todo'[n]) = ToSet(todo[n]) \cup {cur[n]}
      <3>1. PICK q : /\ todo' = [todo EXCEPT ![n] = q]
                     /\ ToSet(q) = ToSet(todo[n]) \cup {cur[n]}
        BY <1>7, BadFacts
      <3>2. QED
        BY <1>2, <3>1
    <2>3. ASSUME NEW i \in DOMAIN input[n], i \notin ToSet(todo[n]),
                 i # cur[n]
          PROVE  \E k \in Trackers : Keeps(n, i, k) /\ cache_added'[n][k]
      <3>1. \E k \in Trackers : Keeps(n, i, k) /\ cache_added[n][k]
        BY <2>1, <2>3 DEF SchemaInv, KeptOf
      <3>2. QED
        BY <1>1, <3>1
    <2>4. KeptOf(n)'
      BY <1>1, <1>3, <2>2, <2>3 DEF KeptOf
    <2>5. \A x \in Nodes : x # n => KeptOf(x)'
      <3>1. \A x \in Nodes : x # n => /\ todo'[x] = todo[x]
                                      /\ cur'[x] = cur[x]
                                      /\ sends'[x] = sends[x]
        BY <1>2, <2>1, <2>2
      <3>2. QED
        BY <3>1, KeptFrame
    <2>6. QED
      BY <1>1, <1>4, <2>4, <2>5 DEF SchemaInv
  <1>8. ASSUME NEW n \in Nodes, add_local(n) \/ send_message(n)
        PROVE  SchemaInv'
    <2>1. PICK s \in sends[n] : Adds(n, s) \/ Skips(n, s)
      BY <1>8, SendSteps
    <2>2. UNCHANGED <<todo, cur, pc>>
      BY <1>8, SendSteps DEF AddFrame
    <2>3. sends' = [sends EXCEPT ![n] = @ \ {s}]
      BY <2>1 DEF Adds, Skips
    <2>4. sends'[n] = sends[n] \ {s}
          /\ \A x \in Nodes : x # n => sends'[x] = sends[x]
      BY <1>2, <2>3
    <2>5. s.tracker \in Trackers
      BY <1>2 DEF SendRecords
    <2>6. s.to = {n} => cache_added'[n][s.tracker]
      BY <1>1, <2>1, <2>5 DEF Adds, Skips
    <2>7. ASSUME NEW i \in DOMAIN input[n], i \notin ToSet(todo[n])
          PROVE  \/ \E u \in sends'[n] :
                       i = cur[n] /\ u.to = {n} /\ Keeps(n, i, u.tracker)
                 \/ \E k \in Trackers : Keeps(n, i, k) /\ cache_added'[n][k]
      <3>1. \/ \E u \in sends[n] :
                  i = cur[n] /\ u.to = {n} /\ Keeps(n, i, u.tracker)
            \/ \E k \in Trackers : Keeps(n, i, k) /\ cache_added[n][k]
        BY <2>7 DEF SchemaInv, KeptOf
      <3>2. QED
        BY <1>1, <2>4, <2>5, <2>6, <3>1
    <2>8. KeptOf(n)'
      BY <1>1, <1>3, <2>2, <2>7 DEF KeptOf
    <2>9. \A x \in Nodes : x # n => KeptOf(x)'
      BY <2>2, <2>4, KeptFrame
    <2>10. QED
      BY <1>1, <1>4, <2>8, <2>9 DEF SchemaInv
  <1>9. \A n \in Nodes : ~task_throws(n)
    BY DEF task_throws
  <1>10. QED
    BY <1>5, <1>6, <1>7, <1>8, <1>9, TaskCases

-----------------------------------------------------------------------------
(* Without a retry every table goes out once. *)

\* What a node may still send, while its tasks and its tables stay.
LEMMA OnceFrame ==
    ASSUME NEW x \in Nodes, OnceOf(x),
           todo'[x] = todo[x], cur'[x] = cur[x], sends'[x] = sends[x],
           \A c \in Tab' : c.from = x => c \in Tab
    PROVE  OnceOf(x)'
  BY DEF OnceOf

\* Steps send no table twice, unless a task is run again.
LEMMA OnceSteps ==
    ASSUME PlanTypes, TaskTypes, CountTypes, NetTypes, TaskInv, TableInv,
           StepInv, OnceInv, Next
    PROVE  OnceInv'
  <1> DEFINE Distinct == \A c, d \in Tab :
              c.from = d.from /\ c.task = d.task /\ c.to = d.to
                 /\ c.tracker = d.tracker /\ c.rows /\ d.rows => c = d
  <1>1. /\ todo \in [Nodes -> Seq(Nat)] /\ cur \in [Nodes -> Nat]
        /\ sends \in [Nodes -> SUBSET SendRecords] /\ retries \in Nat
    BY DEF TaskTypes
  <1>2. ASSUME retries = 0 PROVE Distinct /\ \A x \in Nodes : OnceOf(x)
    BY <1>2 DEF OnceInv
  <1>3. ASSUME \A x \in Nodes : OnceOf(x)', Distinct' PROVE OnceInv'
    BY <1>3 DEF OnceInv
  <1>4. CASE retries' # 0
    BY <1>4 DEF OnceInv
  <1>5. CASE NoTable /\ UNCHANGED taskVars /\ retries' = 0
    <2>1. todo' = todo /\ cur' = cur /\ sends' = sends /\ retries = 0
          /\ Tab' = Tab
      BY <1>5 DEF taskVars, NoTable
    <2>2. QED
      BY <1>2, <1>3, <2>1, OnceFrame
  <1>6. ASSUME NEW n \in Nodes, start_task(n), retries' = 0 PROVE OnceInv'
    <2>1. PICK t, S, r :
              /\ t = Head(todo[n]) /\ r = Tail(todo[n])
              /\ S = do_process(n, input[n][t].side, input[n][t].rows)
      OBVIOUS
    <2>2. /\ t \in DOMAIN input[n]
          /\ cur' = [cur EXCEPT ![n] = t]
          /\ sends' = [sends EXCEPT ![n] = S]
          /\ todo' = [todo EXCEPT ![n] = r]
          /\ ToSet(todo[n]) = ToSet(r) \cup {t}
          /\ IsInjective(todo[n]) => /\ IsInjective(r)
                                     /\ t \notin ToSet(r)
          /\ retries' = retries /\ sent' = sent
      BY <1>6, <2>1, StartFacts DEF netVars
    <2>3. cur'[n] = t /\ sends'[n] = S /\ todo'[n] = r
      BY <1>1, <2>2
    <2>4. Tab' = Tab
      BY <2>2 DEF Tab
    <2>5. OnceOf(n)
      BY <1>2, <1>6, <2>2
    <2>6. \A a, s \in S : a.rows /\ s.rows /\ a.tracker = s.tracker
             /\ a # s => a.to \cap s.to = {}
      BY <2>1, <2>2, DoProcessComplete DEF Complete
    <2>7. /\ IsInjective(r) /\ t \notin ToSet(r)
          /\ \A c \in Tab : c.from = n => c.task \notin ToSet(r) /\ c.task # t
      BY <2>2, <2>5 DEF OnceOf
    <2>8. OnceOf(n)'
      BY <2>3, <2>4, <2>6, <2>7 DEF OnceOf
    <2>9. \A x \in Nodes : x # n => /\ todo'[x] = todo[x]
                                    /\ cur'[x] = cur[x]
                                    /\ sends'[x] = sends[x]
      BY <1>1, <2>2
    <2>10. \A x \in Nodes : x # n => OnceOf(x)'
      BY <1>2, <1>6, <2>2, <2>4, <2>9, OnceFrame
    <2>11. Distinct'
      BY <1>2, <1>6, <2>2, <2>4
    <2> HIDE DEF Distinct
    <2>12. QED
      BY <1>3, <2>8, <2>10, <2>11
  <1>7. ASSUME NEW n \in Nodes, NEW s \in sends[n], Adds(n, s), AddFrame,
               retries' = 0
        PROVE  OnceInv'
    <2>1. UNCHANGED <<todo, cur, retries>>
      BY <1>7 DEF AddFrame
    <2>2. /\ Tab' = Tab \cup NewTables(n, s)
          /\ sends'[n] = sends[n] \ {s}
          /\ \A x \in Nodes : x # n => sends'[x] = sends[x]
      BY <1>7, AddsFacts
    <2>3. \A c \in NewTables(n, s) :
             /\ c.from = n /\ c.to \in s.to /\ c.tracker = s.tracker
             /\ c.task = cur[n] /\ c.rows = s.rows /\ c = table(n, s, c.to)
      BY NewFacts
    <2>4. OnceOf(n) /\ Distinct
      BY <1>2, <1>7, <2>1
    <2>5. ASSUME NEW u \in sends'[n], u.rows
          PROVE  /\ \A c \in Tab' : c.from = n /\ c.task = cur[n] /\ c.rows =>
                       c.tracker # u.tracker \/ c.to \notin u.to
                 /\ \A a \in sends'[n] :
                       a.rows /\ a.tracker = u.tracker /\ a # u =>
                          a.to \cap u.to = {}
      <3>1. u \in sends[n] /\ u # s
        BY <2>2
      <3>2. \A c \in Tab : c.from = n /\ c.task = cur[n] /\ c.rows =>
                c.tracker # u.tracker \/ c.to \notin u.to
        BY <2>4, <2>5, <3>1 DEF OnceOf
      <3>3. \A a \in sends[n] : a.rows /\ a.tracker = u.tracker /\ a # u =>
                a.to \cap u.to = {}
        BY <2>4, <2>5, <3>1 DEF OnceOf
      <3>4. ASSUME NEW c \in NewTables(n, s), c.rows
            PROVE  c.tracker # u.tracker \/ c.to \notin u.to
        BY <2>3, <3>1, <3>3, <3>4
      <3>5. QED
        BY <2>2, <3>2, <3>3, <3>4
    <2>6. /\ IsInjective(todo[n]) /\ cur[n] \notin ToSet(todo[n])
          /\ \A c \in Tab' : c.from = n => c.task \notin ToSet(todo[n])
      BY <2>2, <2>3, <2>4 DEF OnceOf
    <2>7. OnceOf(n)'
      BY <2>1, <2>5, <2>6 DEF OnceOf
    <2>8. \A x \in Nodes : x # n =>
             \A c \in Tab' : c.from = x => c \in Tab
      BY <2>2, <2>3
    <2>9. \A x \in Nodes : x # n => OnceOf(x)'
      BY <1>2, <1>7, <2>1, <2>2, <2>8, OnceFrame
    <2>10. ASSUME NEW c \in Tab', NEW d \in Tab', c.from = d.from,
                  c.task = d.task, c.to = d.to, c.tracker = d.tracker,
                  c.rows, d.rows
           PROVE  c = d
      <3>1. CASE c \in Tab /\ d \in Tab
        BY <2>4, <2>10, <3>1
      <3>2. CASE c \in NewTables(n, s) /\ d \in NewTables(n, s)
        BY <2>3, <2>10, <3>2
      <3>3. ASSUME NEW e \in NewTables(n, s), NEW o \in Tab,
                   e.from = o.from, e.task = o.task, e.to = o.to,
                   e.tracker = o.tracker, e.rows, o.rows
            PROVE  FALSE
        <4>1. s.rows /\ o.from = n /\ o.task = cur[n] /\ o.to \in s.to
              /\ o.tracker = s.tracker
          BY <2>3, <3>3
        <4>2. o.tracker # s.tracker \/ o.to \notin s.to
          BY <2>4, <3>3, <4>1 DEF OnceOf
        <4>3. QED
          BY <4>1, <4>2
      <3>4. QED
        BY <2>2, <2>10, <3>1, <3>2, <3>3
    <2>11. Distinct'
      BY <2>10
    <2> HIDE DEF Distinct
    <2>12. QED
      BY <1>3, <2>7, <2>9, <2>11
  <1>8. ASSUME NEW n \in Nodes, bad_alloc(n) PROVE OnceInv'
    <2>1. retries' # 0
      BY <1>1, <1>8 DEF bad_alloc
    <2>2. QED
      BY <1>4, <2>1
  <1>9. ASSUME NEW n \in Nodes, NEW s \in sends[n], Skips(n, s), AddFrame,
               retries' = 0
        PROVE  OnceInv'
    <2>1. UNCHANGED <<todo, cur, retries, sent>>
      BY <1>9 DEF AddFrame, Skips
    <2>2. /\ sends'[n] = sends[n] \ {s}
          /\ \A x \in Nodes : x # n => sends'[x] = sends[x]
      BY <1>1, <1>9 DEF Skips
    <2>3. Tab' = Tab /\ retries = 0
      BY <1>9, <2>1 DEF Tab
    <2>4. OnceOf(n)'
      <3>1. OnceOf(n)
        BY <1>2, <2>3
      <3>2. QED
        BY <2>1, <2>2, <2>3, <3>1 DEF OnceOf
    <2>5. \A x \in Nodes : x # n => OnceOf(x)'
      BY <1>2, <2>1, <2>2, <2>3, OnceFrame
    <2>6. Distinct'
      BY <1>2, <2>3
    <2> HIDE DEF Distinct
    <2>7. QED
      BY <1>3, <2>4, <2>5, <2>6
  <1>10. ASSUME NEW n \in Nodes, add_local(n) \/ send_message(n)
         PROVE  OnceInv'
    BY <1>4, <1>7, <1>9, <1>10, SendSteps
  <1>11. ASSUME UNCHANGED taskVars PROVE OnceInv'
    <2>1. CASE NoTable
      BY <1>4, <1>5, <1>11, <2>1
    <2>2. CASE \E n \in Nodes : \E s \in sends[n] : Adds(n, s) /\ AddFrame
      BY <1>4, <1>7, <2>2
    <2>3. QED
      BY <2>1, <2>2, TabCases
  <1>12. ASSUME NEW n \in Nodes, task_throws(n), retries' = 0
         PROVE  OnceInv'
    <2>1. /\ UNCHANGED <<todo, cur, retries, sent>>
          /\ \A x \in Nodes : sends'[x] = sends[x] \/ sends'[x] = {}
      BY <1>12, ThrowFacts DEF netVars
    <2>2. Tab' = Tab /\ retries = 0
      BY <1>12, <2>1 DEF Tab
    <2>3. ASSUME NEW x \in Nodes PROVE OnceOf(x)'
      <3>1. OnceOf(x)
        BY <1>2, <2>2
      <3>2. QED
        BY <2>1, <2>2, <3>1 DEF OnceOf
    <2>4. Distinct'
      BY <1>2, <2>2
    <2> HIDE DEF Distinct
    <2>5. QED
      BY <1>3, <2>3, <2>4
  <1> HIDE DEF Distinct
  <1>13. QED
    BY <1>4, <1>6, <1>8, <1>10, <1>11, <1>12, TaskCases

-----------------------------------------------------------------------------
(* The inductive invariant, and what follows from it. *)

\* What holds as long as no task threw.
Clean == Quiet /\ AnnouncedInv /\ SumInv /\ DeliveredInv /\ SchemaInv

DistInv ==
    /\ PlanTypes /\ TaskTypes /\ CountTypes /\ NetTypes
    /\ DecisionInv /\ TaskInv /\ StepInv
    /\ TableInv /\ SendsCounted /\ CountInv /\ OnceInv
    /\ failed = {} => Clean

\* The queue of a node at the start.
LEMMA FullQueue ==
    ASSUME NEW b \in Seq(Batches), NEW q, q = [i \in DOMAIN b |-> i]
    PROVE  q \in Seq(Nat) /\ ToSet(q) = DOMAIN b /\ IsInjective(q)
           /\ 0 \notin ToSet(q)
  <1>1. DOMAIN b = 1 .. Len(b) /\ Len(b) \in Nat
    OBVIOUS
  <1>2. q \in Seq(Nat) /\ DOMAIN q = 1 .. Len(b)
        /\ \A i \in 1 .. Len(b) : q[i] = i
    BY <1>1
  <1>3. ToSet(q) = DOMAIN b
    BY <1>1, <1>2 DEF ToSet
  <1>4. QED
    BY <1>1, <1>2, <1>3 DEF IsInjective

\* The invariant holds at the start.
LEMMA InitInv ==
    ASSUME Init
    PROVE  DistInv
  <1>1. /\ kind \in Kinds /\ input \in Inputs[kind]
        /\ join_type \in IF kind = "join" THEN JoinTypes ELSE {"none"}
        /\ estimate \in IF kind = "join" /\ join_type # "outer"
                        THEN [Nodes -> Estimates]
                        ELSE {[n \in Nodes |-> [left |-> -1, right |-> -1]]}
        /\ scatter_side = [n \in Nodes |-> "none"]
        /\ pc = [n \in Nodes |-> IF kind = "join" /\ join_type # "outer"
                                 THEN "estimate" ELSE "tasks"]
    BY DEF Init
  <1>2. /\ todo = [n \in Nodes |-> [i \in DOMAIN input[n] |-> i]]
        /\ cur = [n \in Nodes |-> 0] /\ sends = [n \in Nodes |-> {}]
        /\ attempts = [n \in Nodes |-> [t \in DOMAIN input[n] |-> 0]]
        /\ retries = 0 /\ failed = {} /\ next_id = [n \in Nodes |-> 0]
    BY DEF Init
  <1>3. /\ node_count =
              [n \in Nodes |-> [k \in Trackers |-> [m \in Nodes |-> 0]]]
        /\ set_empty_part = [n \in Nodes |-> FALSE]
        /\ out_added = [n \in Nodes |-> FALSE]
        /\ cache_added = [n \in Nodes |-> [k \in Trackers |-> FALSE]]
        /\ processed = [n \in Nodes |-> [k \in Trackers |-> 0]]
        /\ step = [n \in Nodes |-> 1] /\ to_ask = [n \in Nodes |-> {}]
        /\ total_count = [n \in Nodes |-> 0]
    BY DEF Init
  <1>4. sent = {} /\ arrived = {} /\ lost = {}
    BY DEF Init
  <1>5. PlanTypes
    <2>1. Estimates \subseteq [left : Int, right : Int]
      BY DistributionAssumption
    <2>2. CASE kind = "join" /\ join_type # "outer"
      <3>1. estimate \in [Nodes -> Estimates]
        BY <1>1, <2>2
      <3>2. pc = [n \in Nodes |-> "estimate"]
        BY <1>1, <2>2
      <3>3. QED
        BY <1>1, <2>1, <2>2, <3>1, <3>2 DEF PlanTypes, Sides, Pcs
    <2>3. CASE ~(kind = "join" /\ join_type # "outer")
      <3>1. /\ estimate = [n \in Nodes |-> [left |-> -1, right |-> -1]]
            /\ pc = [n \in Nodes |-> "tasks"]
        BY <1>1, <2>3
      <3>2. estimate \in [Nodes -> [left : Int, right : Int]]
        BY <3>1
      <3>3. QED
        BY <1>1, <3>1, <3>2 DEF PlanTypes, Sides, Pcs
    <2>4. QED
      BY <2>2, <2>3
  <1>6. ASSUME NEW n \in Nodes
        PROVE  /\ todo[n] \in Seq(Nat) /\ ToSet(todo[n]) = DOMAIN input[n]
               /\ IsInjective(todo[n]) /\ 0 \notin ToSet(todo[n])
               /\ attempts[n] \in [DOMAIN input[n] -> 0 .. attempts_limit]
               /\ \A t \in DOMAIN input[n] : attempts[n][t] = 0
               /\ attempts[n] \in AttemptTables
               /\ Len(input[n]) \in Nat /\ attempts_limit \in Nat \ {0}
    <2>1. /\ input[n] \in Seq(Batches) /\ attempts_limit \in Nat \ {0}
          /\ Len(input[n]) \in Nat
      BY <1>5, InputFacts, DistributionAssumption
    <2>2. todo[n] = [i \in DOMAIN input[n] |-> i]
          /\ attempts[n] = [t \in DOMAIN input[n] |-> 0]
      BY <1>2
    <2>3. attempts[n] \in [DOMAIN input[n] -> 0 .. attempts_limit]
          /\ \A t \in DOMAIN input[n] : attempts[n][t] = 0
      BY <2>1, <2>2
    <2>4. attempts[n] \in AttemptTables
      BY <2>1, <2>3 DEF AttemptTables
    <2>5. QED
      BY <2>1, <2>2, <2>3, <2>4, FullQueue
  <1>7. TaskTypes
    <2>1. todo \in [Nodes -> Seq(Nat)]
      <3>1. todo = [n \in Nodes |-> todo[n]]
        BY <1>2
      <3>2. QED
        BY <1>6, <3>1
    <2>2. attempts \in [Nodes -> AttemptTables]
      <3>1. attempts = [n \in Nodes |-> attempts[n]]
        BY <1>2
      <3>2. QED
        BY <1>6, <3>1
    <2>3. /\ cur \in [Nodes -> Nat] /\ sends \in [Nodes -> SUBSET SendRecords]
          /\ retries \in Nat /\ \A n \in Nodes : cur[n] = 0
          /\ failed \subseteq Nodes
      BY <1>2
    <2>4. \A n \in Nodes :
             /\ ToSet(todo[n]) \subseteq DOMAIN input[n]
             /\ cur[n] \in 0 .. Len(input[n])
             /\ attempts[n] \in [DOMAIN input[n] -> 0 .. attempts_limit]
      BY <1>6, <2>3
    <2>5. QED
      BY <2>1, <2>2, <2>3, <2>4 DEF TaskTypes
  <1>8. CountTypes
    BY <1>2, <1>3 DEF CountTypes
  <1>9. NetTypes /\ Tab = {}
    BY <1>4, FS_EmptySet DEF NetTypes, Tab
  <1>10. /\ \A n \in Nodes : ~Past(n) /\ pc[n] \in {"estimate", "tasks"}
         /\ \A n \in Nodes : pc[n] = "tasks" =>
                                ~(kind = "join" /\ join_type # "outer")
    BY <1>1 DEF Past
  <1>11. DecisionInv
    <2>1. \A n \in Nodes : Decided(n) => scatter_side[n] = Decision
      BY <1>1, <1>10 DEF Decided, Decision
    <2>2. QED
      BY <1>4, <2>1 DEF DecisionInv
  <1>12. TaskInv
    <2>1. \A n \in Nodes : sends[n] = {}
      BY <1>2
    <2>2. QED
      BY <1>6, <2>1 DEF TaskInv, TaskOf
  <1>13. TableInv /\ SendsCounted /\ AnnouncedInv
    BY <1>2, <1>4, <1>9 DEF TableInv, SendsCounted, AnnouncedInv
  <1>14. CountInv
    <2>1. /\ \A n, k : cached(n, k) = {}
          /\ \A n, m, k : TablesOf(n, m, k) = {}
      BY <1>4, <1>9 DEF cached, TablesOf
    <2>2. Cardinality({}) = 0
      BY FS_EmptySet
    <2>3. QED
      BY <1>3, <2>1, <2>2 DEF CountInv
  <1>15. StepInv /\ Quiet /\ SumInv
    <2>1. \A n \in Nodes : step[n] = 1
      BY <1>3
    <2>2. \A n \in Nodes : Awaited(n) = {}
      BY <1>10 DEF Awaited, Past
    <2>3. StepInv /\ Quiet
      BY <1>10, <2>1 DEF StepInv, Quiet
    <2>4. SumInv
      BY <1>10, <2>2 DEF SumInv, SumOf
    <2>5. QED
      BY <2>3, <2>4
  <1>16. DeliveredInv
    BY <1>6 DEF DeliveredInv, DeliveredOf
  <1>17. OnceInv
    <2>1. \A n \in Nodes : cur[n] = 0 /\ sends[n] = {}
      BY <1>2
    <2>2. QED
      BY <1>6, <1>9, <2>1 DEF OnceInv, OnceOf
  <1>18. SchemaInv
    <2>1. /\ \A n \in Nodes, k \in Trackers : ~cache_added[n][k]
          /\ \A n \in Nodes : ~set_empty_part[n]
      BY <1>3
    <2>2. QED
      BY <1>6, <2>1 DEF SchemaInv, KeptOf
  <1>19. QED
    BY <1>5, <1>7, <1>8, <1>9, <1>11, <1>12, <1>13, <1>14, <1>15, <1>16,
       <1>17, <1>18 DEF DistInv, Clean

\* What was thrown stays known.
LEMMA FailedGrows ==
    ASSUME PlanTypes, TaskTypes, CountTypes, TaskInv, Next
    PROVE  failed \subseteq failed'
  <1>1. ASSUME NEW n \in Nodes, bad_alloc(n) PROVE failed \subseteq failed'
    BY <1>1, BadFacts
  <1>2. ASSUME NEW n \in Nodes, task_throws(n) PROVE failed \subseteq failed'
    BY <1>2, ThrowFacts
  <1>3. ASSUME NEW n \in Nodes, \/ start_task(n) \/ add_local(n)
                                 \/ send_message(n)
        PROVE  failed \subseteq failed'
    BY <1>3, SendSteps DEF start_task, AddFrame
  <1>4. UNCHANGED taskVars => failed \subseteq failed'
    BY DEF taskVars
  <1>5. QED
    BY <1>1, <1>2, <1>3, <1>4, TaskCases

\* Every step keeps it.
LEMMA NextInv ==
    ASSUME DistInv, [Next]_vars
    PROVE  DistInv'
  <1>1. /\ PlanTypes /\ TaskTypes /\ CountTypes /\ NetTypes
        /\ DecisionInv /\ TaskInv /\ StepInv
        /\ TableInv /\ SendsCounted /\ CountInv /\ OnceInv
        /\ failed = {} => Clean
    BY DEF DistInv
  <1>2. CASE Next
    <2>1. PlanTypes' /\ TaskTypes' /\ CountTypes' /\ NetTypes'
      BY <1>1, <1>2, PlanSteps, TaskTypesSteps, CountTypesSteps, NetSteps
    <2>2. DecisionInv' /\ TaskInv' /\ TableInv' /\ SendsCounted'
      BY <1>1, <1>2, DecisionSteps, TaskSteps, TableSteps, SendsSteps
    <2>3. StepInv' /\ CountInv' /\ OnceInv'
      BY <1>1, <1>2, StepSteps, CountSteps, OnceSteps
    <2>4. ASSUME failed' = {} PROVE Clean'
      <3>1. failed = {}
        BY <1>1, <1>2, <2>4, FailedGrows
      <3>2. Quiet /\ AnnouncedInv /\ SumInv /\ DeliveredInv /\ SchemaInv
        BY <1>1, <3>1 DEF Clean
      <3>3. Quiet' /\ AnnouncedInv' /\ SumInv'
        BY <1>1, <1>2, <2>4, <3>1, <3>2, QuietSteps, AnnouncedSteps, SumSteps
      <3>4. DeliveredInv' /\ SchemaInv'
        BY <1>1, <1>2, <2>4, <3>1, <3>2, DeliveredSteps, SchemaSteps
      <3>5. QED
        BY <3>3, <3>4 DEF Clean
    <2>5. QED
      BY <2>1, <2>2, <2>3, <2>4 DEF DistInv
  <1>3. CASE UNCHANGED vars
    <2>1. /\ UNCHANGED <<kind, join_type, input, estimate, scatter_side, pc>>
          /\ UNCHANGED <<todo, cur, sends, attempts, retries, failed>>
          /\ UNCHANGED <<node_count, next_id, set_empty_part, out_added>>
          /\ UNCHANGED <<cache_added, processed, step, to_ask, total_count>>
          /\ UNCHANGED <<sent, arrived, lost>>
      BY <1>3 DEF vars, planVars, taskVars, trackVars, cacheVars, countVars,
                  netVars
    <2>2. Fixed /\ Tab' = Tab
      BY <2>1 DEF Fixed, Tab
    <2>3. /\ \A n \in Nodes : count_trackers(n)' = count_trackers(n)
          /\ \A n \in Nodes : \A t : belongs(n, t)' = belongs(n, t)
      BY <2>1, <2>2, PlanKept
    <2>4. PlanTypes' /\ TaskTypes' /\ CountTypes' /\ NetTypes'
      BY <1>1, <2>1 DEF PlanTypes, TaskTypes, CountTypes, NetTypes
    <2>5. DecisionInv'
      BY <1>1, <2>1 DEF DecisionInv, Decided, Decision
    <2>6. TaskInv' /\ CountInv' /\ OnceInv'
      BY <1>1, <2>1, <2>2 DEF TaskInv, TaskOf, Decided, CountInv,
                              cached, TablesOf, OnceInv, OnceOf
    <2>7. TableInv' /\ SendsCounted'
      <3>1. \A t \in Tab : t.from \in Nodes
        BY <1>1, MessageKinds DEF Tab, NetTypes
      <3>2. QED
        BY <1>1, <2>1, <2>2, <2>3, <3>1 DEF TableInv, SendsCounted, Decided
    <2>0. StepInv'
      BY <1>1, <2>1, <2>3 DEF StepInv
    <2>8. ASSUME SumInv PROVE SumInv'
      <3>1. \A n \in Nodes : /\ Awaited(n)' = Awaited(n)
                             /\ Past(n)' = Past(n)
                             /\ \A k : Heard(n, k)' = Heard(n, k)
                             /\ \A k : TablesTo(n, k)' = TablesTo(n, k)
        BY <2>1, <2>2, <2>3 DEF Awaited, Past, Heard, TablesTo
      <3>2. ASSUME NEW n \in Nodes PROVE SumOf(n)'
        <4>1. SumOf(n)
          BY <2>8 DEF SumInv
        <4>2. PICK k : k = count_trackers(n)[step[n]]
          OBVIOUS
        <4>3. count_trackers(n)'[step'[n]] = k
          BY <2>1, <2>3, <4>2
        <4>4. QED
          BY <2>1, <2>3, <3>1, <4>1, <4>2, <4>3 DEF SumOf
      <3>3. QED
        BY <3>2 DEF SumInv
    <2>9. ASSUME DeliveredInv PROVE DeliveredInv'
      BY <2>1, <2>2, <2>3, <2>9
         DEF DeliveredInv, DeliveredOf, Delivered, Outstanding
    <2>10. ASSUME SchemaInv PROVE SchemaInv'
      BY <2>1, <2>10 DEF SchemaInv, KeptOf, Keeps, cached
    <2>11. ASSUME Quiet, AnnouncedInv PROVE Quiet' /\ AnnouncedInv'
      BY <2>1, <2>11 DEF Quiet, AnnouncedInv, Past
    <2>12. failed' = {} => Clean'
      BY <1>1, <2>1, <2>8, <2>9, <2>10, <2>11 DEF Clean
    <2>13. QED
      BY <2>0, <2>4, <2>5, <2>6, <2>7, <2>12 DEF DistInv
  <1>4. QED
    BY <1>2, <1>3

\* The inductive invariant of the distributing kernels: the counts that
\* send_total_partition_counts announces are those of the tables sent and, as
\* long as no task threw, final; the sum of get_total_partition_counts is then
\* that of the tables of the nodes heard of, and every task's rows are sent, or
\* about to be.
THEOREM DistributionInvariant == Spec => []DistInv
  <1>1. Init => DistInv
    BY InitInv
  <1>2. DistInv /\ [Next]_vars => DistInv'
    BY NextInv
  <1>3. QED
    BY <1>1, <1>2, PTL DEF Spec

\* The state of the model is well formed.
THEOREM DistributionTypes == Spec => []TypeOK
  <1>1. DistInv => TypeOK
    BY DEF DistInv, PlanTypes, TaskTypes, CountTypes, NetTypes, TypeOK, Sides
  <1>2. QED
    BY <1>1, DistributionInvariant, PTL

\* Whatever the order in which the estimates arrive, all the nodes take the
\* same decision in determine_if_we_are_scattering_a_small_table: each waits
\* for the estimates of all the others, and they are those the others sent.
THEOREM DecisionsAlike == Spec => []DecisionsAgree
  <1>1. DistInv => DecisionsAgree
    BY DEF DistInv, DecisionInv, Decided, DecisionsAgree
  <1>2. QED
    BY <1>1, DistributionInvariant, PTL

\* As long as no task threw, wait_for_count never finds more tables than the
\* nodes announced, and so its exception is never thrown: the tables of a task that is run again are
\* counted again, and a table that overtakes its count is counted before it
\* is announced.
THEOREM CountsMatch == Spec => []CountNeverPassed
  <1>1. DistInv => CountNeverPassed
    BY DEF DistInv, Clean, Quiet, CountNeverPassed
  <1>2. QED
    BY <1>1, DistributionInvariant, PTL

\* No partition of a batch is put into a cache twice as long as no task ran
\* out of memory: the sends of a task have different destinations.
THEOREM PartitionsSentOnce == Spec => []PartitionsOnce
  <1>1. DistInv => PartitionsOnce
    <2>1. ASSUME DistInv PROVE {m \in arrived : m.body = "table"} \subseteq Tab
      BY <2>1 DEF DistInv, NetTypes, Tab
    <2>2. QED
      BY <2>1 DEF DistInv, OnceInv, PartitionsOnce
  <1>2. QED
    BY <1>1, DistributionInvariant, PTL

\* Of a node that has returned when no task had thrown: every node is through with its tasks, and all
\* the tables for it are there.
LEMMA ReturnedFacts ==
    ASSUME DistInv, failed = {}, NEW n \in Nodes, pc[n] = "returned"
    PROVE  /\ \A m \in Nodes : todo[m] = <<>> /\ sends[m] = {} /\ Past(m)
           /\ \A t \in Tab : t.to = n => t \in arrived
  <1>1. /\ PlanTypes /\ NetTypes /\ DecisionInv /\ Quiet /\ TableInv
        /\ SumOf(n)
    BY DEF DistInv, Clean, SumInv
  <1>2. Awaited(n) = ToSet(count_trackers(n)) /\ Awaited(n) # {}
    <2>1. Awaited(n) =
             {count_trackers(n)[i] : i \in DOMAIN count_trackers(n)}
      BY DEF Awaited
    <2>2. 1 \in DOMAIN count_trackers(n)
      BY <1>1, TrackerFacts
    <2>3. QED
      BY <1>1, <2>1, <2>2, TrackerFacts
  <1>3. \A m \in Nodes : Past(m)
    BY <1>1, <1>2 DEF SumOf
  <1>4. \A m \in Nodes : todo[m] = <<>> /\ sends[m] = {}
    BY <1>1, <1>3 DEF Quiet
  <1>5. \A m \in Nodes : scatter_side[m] = Decision
    BY <1>1, <1>3 DEF DecisionInv, Decided, Past
  <1>6. ASSUME NEW m \in Nodes
        PROVE  ToSet(count_trackers(m)) = ToSet(count_trackers(n))
    <2>1. scatter_side[m] = scatter_side[n]
      BY <1>5
    <2>2. count_trackers(m) = count_trackers(n)
      BY <2>1 DEF count_trackers, join_trackers, small_tracker
    <2>3. QED
      BY <2>2
  <1>7. ASSUME NEW t \in Tab, t.to = n PROVE t \in arrived
    <2>1. t.from \in Nodes
      BY <1>1, MessageKinds DEF Tab, NetTypes
    <2>2. CASE t.from = t.to
      BY <1>1, <2>2 DEF TableInv
    <2>3. CASE t.from # t.to
      <3>1. t.tracker \in Awaited(n)
        BY <1>1, <1>2, <1>6, <2>1, <2>3 DEF TableInv
      <3>2. t \in TablesTo(n, t.tracker)
        BY <1>7 DEF TablesTo
      <3>3. QED
        BY <1>1, <3>1, <3>2 DEF SumOf
    <2>4. QED
      BY <2>2, <2>3
  <1>8. QED
    BY <1>3, <1>4, <1>7

\* As long as no task threw, a kernel that returned misses nothing, however its
\* tasks, the messages and the retries were interleaved: when the last wait of run() ends, all the
\* nodes have run all their tasks and every row that belongs to the node is
\* in its caches.
THEOREM ReturnIsComplete == Spec => []ReturnMeansComplete
  <1>1. DistInv => ReturnMeansComplete
    <2>1. SUFFICES ASSUME DistInv, failed = {}, NEW n \in Nodes,
                          pc[n] = "returned"
                   PROVE  /\ \A m \in Nodes : todo[m] = <<>> /\ sends[m] = {}
                          /\ \A m \in sent : m.body = "table" /\ m.to = n =>
                                m \in arrived
                          /\ \A m \in Nodes, k \in Trackers :
                             \A t \in DOMAIN input[m] :
                                <<n, k>> \in belongs(m, t) =>
                                   \E c \in cached(n, k) :
                                      c.from = m /\ c.task = t /\ c.rows
      BY DEF ReturnMeansComplete
    <2>2. /\ \A m \in Nodes : todo[m] = <<>> /\ sends[m] = {} /\ Past(m)
          /\ \A t \in Tab : t.to = n => t \in arrived
      BY <2>1, ReturnedFacts
    <2>3. ASSUME NEW m \in Nodes, NEW k \in Trackers,
                 NEW t \in DOMAIN input[m], <<n, k>> \in belongs(m, t)
          PROVE  \E c \in cached(n, k) : c.from = m /\ c.task = t /\ c.rows
      <3>1. DeliveredOf(m) /\ sends[m] = {}
        BY <2>1, <2>2 DEF DistInv, Clean, DeliveredInv
      <3>2. t \notin ToSet(todo[m])
        BY <2>2 DEF ToSet
      <3>3. ~Outstanding(m, t, <<n, k>>)
        BY <3>1 DEF Outstanding
      <3>4. Delivered(m, t, <<n, k>>)
        BY <2>3, <3>1, <3>2, <3>3 DEF DeliveredOf
      <3>5. PICK c \in Tab : /\ c.from = m /\ c.task = t /\ c.rows
                             /\ c.to = n /\ c.tracker = k
        BY <3>4 DEF Delivered
      <3>6. c \in cached(n, k)
        BY <2>2, <3>5 DEF cached, Tab
      <3>7. QED
        BY <3>5, <3>6
    <2>4. QED
      BY <2>2, <2>3 DEF Tab
  <1>2. QED
    BY <1>1, DistributionInvariant, PTL

\* Where every input of the kernel had a schema and no task threw, every output
\* of a kernel that returned has a schema: addToCache
\* keeps the first table of each cache even when it is empty, and each task
\* leaves one with the node itself.
THEOREM SchemasArrive == Spec => []SchemaArrives
  <1>1. DistInv => SchemaArrives
    <2>1. ASSUME DistInv, failed = {}, NEW n \in Nodes, pc[n] = "returned",
                 NEW t \in DOMAIN input[n]
          PROVE  \E k \in Trackers : Keeps(n, t, k) /\ cached(n, k) # {}
      <3>1. todo[n] = <<>> /\ sends[n] = {}
        BY <2>1, ReturnedFacts
      <3>2. KeptOf(n)
        BY <2>1 DEF DistInv, Clean, SchemaInv
      <3>3. t \notin ToSet(todo[n])
        BY <3>1 DEF ToSet
      <3>4. \E k \in Trackers : Keeps(n, t, k) /\ cache_added[n][k]
        BY <2>1, <3>1, <3>2, <3>3 DEF KeptOf
      <3>5. QED
        BY <2>1, <3>4 DEF DistInv, Clean, SchemaInv
    <2>2. SUFFICES ASSUME DistInv, failed = {}, NEW n \in Nodes,
                          pc[n] = "returned"
                   PROVE  IF kind = "partition"
                          THEN \E k \in Trackers : cached(n, k) # {}
                          ELSE \A k \in IF kind = "join" THEN TableSides
                                        ELSE {0} : cached(n, k) # {}
      BY DEF SchemaArrives
    <2>3. PlanTypes
      BY <2>2 DEF DistInv
    <2>4. \A s \in IF kind = "join" THEN TableSides ELSE {0} :
             \E t \in DOMAIN input[n] : kind = "join" => input[n][t].side = s
      BY <2>3, InputsHaveSchemas DEF PlanTypes
    <2>5. CASE kind = "partition"
      <3>1. PICK t \in DOMAIN input[n] : TRUE
        BY <2>4, <2>5
      <3>2. QED
        BY <2>1, <2>2, <2>5, <3>1
    <2>6. CASE kind = "join"
      <3>1. ASSUME NEW k \in TableSides PROVE cached(n, k) # {}
        <4>1. PICK t \in DOMAIN input[n] : input[n][t].side = k
          BY <2>4, <2>6
        <4>2. PICK j \in Trackers : Keeps(n, t, j) /\ cached(n, j) # {}
          BY <2>1, <2>2
        <4>3. j = k
          BY <2>6, <4>1, <4>2 DEF Keeps
        <4>4. QED
          BY <4>2, <4>3
      <3>2. QED
        BY <2>6, <3>1
    <2>7. CASE kind \in {"aggregate", "no_group"}
      <3>1. PICK t \in DOMAIN input[n] : TRUE
        BY <2>4, <2>7
      <3>2. PICK j \in Trackers : Keeps(n, t, j) /\ cached(n, j) # {}
        BY <2>1, <2>2
      <3>3. j = 0
        BY <2>7, <3>2 DEF Keeps
      <3>4. QED
        BY <2>7, <3>2, <3>3
    <2>8. QED
      BY <2>3, <2>5, <2>6, <2>7, KindFacts
  <1>2. QED
    BY <1>1, DistributionInvariant, PTL
=============================================================================
