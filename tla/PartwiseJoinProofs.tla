-------------------------- MODULE PartwiseJoinProofs --------------------------
(***************************************************************************)
(* Machine-checked proofs about PartwiseJoin, for every number of batches  *)
(* on either side, every arrival order, every interleaving of the tasks    *)
(* and every exception of theirs and of the other kernels' tasks.          *)
(*                                                                         *)
(* The argument has three layers.  RunInv is about run() and the counts of *)
(* the inputs: what it has in its hands at each point, and that the pair   *)
(* it is about to mark was never marked.  TaskInv is about what a mark     *)
(* means: the pair was added to the output, a task will do so, or one has  *)
(* failed.  PlaceInv is about where the batches are.                       *)
(***************************************************************************)
EXTENDS PartwiseJoin, QueueTheorems, FiniteSetTheorems, WellFoundedInduction

Numbers(s) == 0 .. loaded[s] - 1
LoadedPairs == Numbers("left") \X Numbers("right")

\* What the feeding kernels have done, and how far run() has come with it.
CountsInv ==
    \A s \in Sides :
        /\ loaded[s] <= arrived[s]
        /\ arrived[s] <= batches[s]
        /\ closed[s] => arrived[s] = batches[s] \/ failed

\* Only batches that were loaded are marked, or in an array cache.
KnownInv ==
    /\ completion_matrix \subseteq LoadedPairs
    /\ \A s \in Sides : array[s] \in Seq(Numbers(s))
    /\ left_indices \in Seq(Numbers("left"))

\* Nothing is loaded before the first turn; after it each side has a batch.
BegunInv ==
    /\ pc = "first" => \A s \in Sides : loaded[s] = 0
    /\ pc \notin {"first", "threw"} => \A s \in Sides : loaded[s] >= 1

\* What run() has in its hands, by where it stands.
HandInv ==
    /\ pc \in {"first", "check", "check_right", "load_left", "wait", "done"}
           => in_hand = {}
    /\ pc = "load_right" => "right" \notin in_hand
    /\ pc = "take_left" => "left" \notin in_hand
    /\ pc = "take_right" => in_hand = {"left"}
    /\ pc = "add" => in_hand = Sides

\* A batch that was just loaded is the last one, and in no pair yet.
FreshInv ==
    pc \in {"load_right", "pair"} =>
        /\ "left" \in in_hand =>
               /\ ind["left"] \in Numbers("left")
               /\ \A p \in completion_matrix : p[1] # ind["left"]
        /\ "right" \in in_hand =>
               /\ ind["right"] \in Numbers("right")
               /\ \A p \in completion_matrix : p[2] # ind["right"]

\* The pair that run() has settled on was never marked.
ChosenInv ==
    pc \in {"take_left", "take_right", "add"} =>
        <<ind["left"], ind["right"]>> \in LoadedPairs \ completion_matrix

\* A side that gave nothing has given all it has, unless a task threw; after the
\* last turn both have, and every pair of what was loaded is marked.
ExhaustedInv ==
    /\ pc = "load_right" /\ "left" \notin in_hand =>
           loaded["left"] = batches["left"] \/ failed
    /\ \A s \in Sides : pc = "pair" /\ s \notin in_hand =>
           loaded[s] = batches[s] \/ failed
    /\ pc \in {"wait", "done"} =>
           /\ \A s \in Sides : loaded[s] = batches[s] \/ failed
           /\ LoadedPairs \subseteq completion_matrix

RunInv ==
    /\ TypeOK
    /\ CountsInv
    /\ KnownInv
    /\ BegunInv
    /\ HandInv
    /\ FreshInv
    /\ ChosenInv
    /\ ExhaustedInv

\* What a mark stands for.
TaskInv ==
    /\ \A t \in tasks :
           /\ t.pair \in completion_matrix
           /\ IF t.stage = "join"
              THEN outputs[t.pair] = 0 \/ t.pair \in reput
              ELSE outputs[t.pair] > 0
    /\ \A t, u \in tasks : t.pair = u.pair => t = u
    /\ \A p \in Pairs : outputs[p] > 0 => p \in completion_matrix
    /\ \A p \in completion_matrix :
           outputs[p] > 0 \/ failed \/ \E t \in tasks : t.pair = p
    /\ pc = "done" => tasks = {} \/ failed

\* The batch of side s that task t still has.
Has(t, s, k) ==
    /\ t.pair[IF s = "left" THEN 1 ELSE 2] = k
    /\ ~(s = "left" /\ t.stage = "put_right")

\* run() has batch k of side s in its hands.
Held(s, k) == s \in in_hand /\ ind[s] = k

\* One of three holds.
OnlyOne(a, b, c) ==
    \/ a /\ ~b /\ ~c
    \/ ~a /\ b /\ ~c
    \/ ~a /\ ~b /\ c

\* A loaded batch of side s is in the array cache, with run() or with a task,
\* and only once there.
PlaceOf(s) ==
    /\ IsInjective(array[s])
    /\ \A t, u \in tasks : \A k \in Numbers(s) :
           Has(t, s, k) /\ Has(u, s, k) => t = u
    /\ \A k \in Numbers(s) :
           OnlyOne(k \in ToSet(array[s]), Held(s, k),
                   \E t \in tasks : Has(t, s, k))

Calm == pc # "done" /\ ~failed /\ reput = {}

PlaceInv == Calm => \A s \in Sides : PlaceOf(s)

-----------------------------------------------------------------------------
(* The pair that is taken. *)

\* A set of numbers that is not empty has a least one.
LEMMA LeastNumber ==
    ASSUME NEW S, S \subseteq Nat, S # {}
    PROVE  \E n \in S : \A k \in S : n <= k
  <1>1. PICK n \in S : \A k \in S : <<k, n>> \notin OpToRel(<, Nat)
    BY NatLessThanWellFounded, WFMin
  <1>2. ASSUME NEW k \in S PROVE n <= k
    <2>1. k \in Nat /\ n \in Nat
      OBVIOUS
    <2>2. ~(k < n)
      BY <1>1, <2>1 DEF OpToRel
    <2>3. QED
      BY <2>1, <2>2
  <1>3. QED
    BY <1>2

\* The loops of check_for_another_set... come to some pair first.
LEMMA FirstExists ==
    ASSUME NEW T, T \subseteq Nat \X Nat, T # {}
    PROVE  \E p \in T : \A q \in T : NotAfter(p, q)
  <1> DEFINE rows == {p[1] : p \in T}
  <1>1. PICK i \in rows : \A k \in rows : i <= k
    <2>1. rows \subseteq Nat /\ rows # {}
      OBVIOUS
    <2>2. QED
      BY <2>1, LeastNumber
  <1> DEFINE columns == {p[2] : p \in {q \in T : q[1] = i}}
  <1>2. PICK j \in columns : \A k \in columns : j <= k
    <2>1. columns \subseteq Nat /\ columns # {}
      BY <1>1
    <2>2. QED
      BY <2>1, LeastNumber
  <1>3. PICK p \in T : p[1] = i /\ p[2] = j
    BY <1>2
  <1>4. ASSUME NEW q \in T PROVE NotAfter(p, q)
    <2>1. q[1] \in Nat /\ q[2] \in Nat /\ p[1] \in Nat /\ p[2] \in Nat
      OBVIOUS
    <2>2. p[1] <= q[1]
      BY <1>1, <1>3
    <2>3. q[1] = p[1] => p[2] <= q[2]
      BY <1>2, <1>3
    <2>4. QED
      BY <2>1, <2>2, <2>3 DEF NotAfter
  <1>5. QED
    BY <1>4

\* check_for_another_set_to_do_with_data_we_already_have() answers with a pair
\* of the two lists that is not marked, or with <<-1, -1>>.
LEMMA FirstPairIsNew ==
    ASSUME NEW A, NEW B, NEW ls \in Seq(A), NEW rs \in Seq(B)
    PROVE  \/ FirstPair(ls, rs) = <<-1, -1>>
           \/ FirstPair(ls, rs) \in (A \X B) \ completion_matrix
  <1> DEFINE todo == {p \in (DOMAIN ls) \X (DOMAIN rs) :
                          <<ls[p[1]], rs[p[2]]>> \notin completion_matrix}
             first == CHOOSE p \in todo : \A q \in todo : NotAfter(p, q)
  <1>1. CASE todo = {}
    BY <1>1 DEF FirstPair
  <1>2. CASE todo # {}
    <2>1. DOMAIN ls \subseteq Nat /\ DOMAIN rs \subseteq Nat
      OBVIOUS
    <2>2. todo \subseteq Nat \X Nat
      BY <2>1
    <2>3. \E p \in todo : \A q \in todo : NotAfter(p, q)
      BY <1>2, <2>2, FirstExists
    <2>4. first \in todo
      BY <2>3
    <2>5. FirstPair(ls, rs) = <<ls[first[1]], rs[first[2]]>>
      BY <1>2 DEF FirstPair
    <2> HIDE DEF first
    <2>6. /\ first[1] \in DOMAIN ls
          /\ first[2] \in DOMAIN rs
          /\ <<ls[first[1]], rs[first[2]]>> \notin completion_matrix
      BY <2>4
    <2>7. ls[first[1]] \in A /\ rs[first[2]] \in B
      BY <2>6
    <2>8. QED
      BY <2>5, <2>6, <2>7
  <1>3. QED
    BY <1>1, <1>2

-----------------------------------------------------------------------------
(* run() and the counts. *)

\* A queue of numbers stays one when more numbers are allowed.
LEMMA SeqGrows ==
    ASSUME NEW A, NEW B, A \subseteq B, NEW s \in Seq(A)
    PROVE  s \in Seq(B)
OBVIOUS

\* What the counts of a side are bounded by.
LEMMA Bounds ==
    ASSUME RunInv, NEW s \in Sides
    PROVE  /\ MaxBatches \in Nat
           /\ batches[s] \in Nat /\ batches[s] <= MaxBatches
           /\ arrived[s] \in Nat /\ arrived[s] <= batches[s]
           /\ loaded[s] \in Nat /\ loaded[s] <= arrived[s]
           /\ Numbers(s) \subseteq Indexes
  <1>1. batches \in [Sides -> 0 .. MaxBatches] /\ MaxBatches \in Nat
    BY JoinAssumption DEF RunInv, TypeOK
  <1>2. arrived[s] \in Nat /\ loaded[s] \in Nat
    BY <1>1 DEF RunInv, TypeOK
  <1>3. batches[s] \in Nat /\ batches[s] <= MaxBatches
    BY <1>1
  <1>4. arrived[s] <= batches[s] /\ loaded[s] <= arrived[s]
    BY DEF RunInv, CountsInv
  <1>5. Numbers(s) \subseteq Indexes
    <2>1. loaded[s] <= MaxBatches
      BY <1>1, <1>2, <1>3, <1>4
    <2>2. QED
      BY <1>1, <1>2, <2>1 DEF Numbers, Indexes
  <1>6. QED
    BY <1>1, <1>2, <1>3, <1>4, <1>5

\* Before anything has arrived.
LEMMA RunInit == ASSUME Init PROVE RunInv
  <1>1. TypeOK
    <2>1. /\ <<>> \in Seq(Indexes)
          /\ 0 \in 0 .. MaxBatches /\ 0 \in 0 .. MaxFaults
      BY JoinAssumption
    <2>2. /\ arrived \in [Sides -> 0 .. MaxBatches]
          /\ loaded \in [Sides -> 0 .. MaxBatches]
          /\ closed \in [Sides -> BOOLEAN]
          /\ array \in [Sides -> Seq(Indexes)]
          /\ ind \in [Sides -> Indexes \cup {-1}]
          /\ outputs \in [Pairs -> Nat]
      BY <2>1 DEF Init
    <2>3. QED
      BY <2>1, <2>2 DEF Init, TypeOK
  <1>2. CountsInv
    <2>1. batches \in [Sides -> 0 .. MaxBatches] /\ MaxBatches \in Nat
      BY JoinAssumption DEF Init
    <2>2. \A s \in Sides : batches[s] \in Nat
      BY <2>1
    <2>3. QED
      BY <2>2 DEF Init, CountsInv
  <1>3. KnownInv
    BY DEF Init, KnownInv
  <1>4. BegunInv /\ HandInv /\ FreshInv /\ ChosenInv /\ ExhaustedInv
    BY DEF Init, BegunInv, HandInv, FreshInv, ChosenInv, ExhaustedInv
  <1>5. QED
    BY <1>1, <1>2, <1>3, <1>4 DEF RunInv

\* Whoever leaves run()'s variables and the inputs alone.
LEMMA RunFrame ==
    ASSUME RunInv, UNCHANGED <<batches, runVars>>, failed => failed'
    PROVE  BegunInv' /\ HandInv' /\ FreshInv' /\ ChosenInv' /\ ExhaustedInv'
  BY DEF RunInv, BegunInv, HandInv, FreshInv, ChosenInv, ExhaustedInv,
         Numbers, LoadedPairs, runVars

\* A batch arrives.
LEMMA RunArrive ==
    ASSUME RunInv, NEW s \in Sides, arrive(s)
    PROVE  RunInv'
  <1>1. arrived[s] + 1 \in 0 .. MaxBatches
    BY Bounds DEF arrive
  <1>2. TypeOK'
    BY <1>1 DEF RunInv, TypeOK, arrive, runVars, faultVars
  <1>3. CountsInv'
    <2> SUFFICES ASSUME NEW r \in Sides
                 PROVE  /\ loaded'[r] <= arrived'[r]
                        /\ arrived'[r] <= batches'[r]
                        /\ closed'[r] => arrived'[r] = batches'[r] \/ failed'
      BY DEF CountsInv
    <2>1. arrived'[r] = IF r = s THEN arrived[s] + 1 ELSE arrived[r]
      BY DEF RunInv, TypeOK, arrive
    <2>2. QED
      BY <2>1, Bounds DEF RunInv, CountsInv, arrive, runVars, faultVars
  <1>4. KnownInv'
    BY DEF RunInv, KnownInv, LoadedPairs, Numbers, arrive, runVars
  <1>5. UNCHANGED <<batches, runVars, failed>>
    BY DEF arrive, faultVars
  <1>6. QED
    BY <1>2, <1>3, <1>4, <1>5, RunFrame DEF RunInv

\* An input ends.
LEMMA RunClose ==
    ASSUME RunInv, NEW s \in Sides, close(s)
    PROVE  RunInv'
  <1>1. TypeOK'
    BY DEF RunInv, TypeOK, close, runVars, faultVars
  <1>2. CountsInv'
    BY DEF RunInv, TypeOK, CountsInv, close, runVars, faultVars
  <1>3. KnownInv'
    BY DEF RunInv, KnownInv, LoadedPairs, Numbers, close, runVars
  <1>4. UNCHANGED <<batches, runVars, failed>>
    BY DEF close, faultVars
  <1>5. QED
    BY <1>1, <1>2, <1>3, <1>4, RunFrame DEF RunInv

\* The first turn.
LEMMA RunLoadFirst ==
    ASSUME RunInv, load_first
    PROVE  RunInv'
  <1>1. /\ \A s \in Sides : array[s] \in Seq(Numbers(s))
        /\ pc = "first" /\ in_hand = {}
    BY DEF RunInv, KnownInv, HandInv, load_first
  <1>2. CASE /\ \A s \in Sides : HasNext(s)
             /\ loaded' = [s \in Sides |-> 1]
             /\ ind' = [s \in Sides |-> 0]
             /\ in_hand' = Sides
             /\ pc' = "add"
    <2>1. /\ \A s \in Sides : 1 <= arrived[s] /\ loaded[s] = 0
          /\ MaxBatches \in Nat /\ 1 <= MaxBatches
      BY <1>1, <1>2, Bounds DEF RunInv, BegunInv, HasNext, Sides
    <2>2. /\ Numbers("left") = {} /\ Numbers("right") = {}
          /\ Numbers("left")' = {0} /\ Numbers("right")' = {0}
      BY <1>2, <2>1 DEF Numbers, Sides
    <2>3. completion_matrix = {}
      BY <2>2 DEF RunInv, KnownInv, LoadedPairs
    <2>4. TypeOK'
      BY <1>2, <2>1 DEF RunInv, TypeOK, load_first, runUnchanged, inputVars, faultVars,
         faultVars, Indexes
    <2>5. CountsInv'
      BY <1>2, <2>1 DEF RunInv, CountsInv, load_first, runUnchanged, inputVars, faultVars
    <2>6. KnownInv'
      BY <2>2, <2>3, SeqGrows
         DEF RunInv, KnownInv, LoadedPairs, load_first, Sides
    <2>7. BegunInv' /\ HandInv' /\ FreshInv' /\ ExhaustedInv'
      BY <1>2 DEF BegunInv, HandInv, FreshInv, ExhaustedInv
    <2>8. ChosenInv'
      BY <1>2, <2>2, <2>3 DEF ChosenInv, LoadedPairs, load_first, Sides
    <2>9. QED
      BY <2>4, <2>5, <2>6, <2>7, <2>8 DEF RunInv
  <1>3. CASE pc' = "threw" /\ UNCHANGED <<loaded, ind, in_hand>>
    <2>1. TypeOK'
      BY <1>3 DEF RunInv, TypeOK, load_first, runUnchanged, inputVars, faultVars,
         faultVars
    <2>2. CountsInv' /\ KnownInv'
      BY <1>3 DEF RunInv, CountsInv, KnownInv, LoadedPairs, Numbers,
         load_first, runUnchanged, inputVars, faultVars
    <2>3. BegunInv' /\ HandInv' /\ FreshInv' /\ ChosenInv' /\ ExhaustedInv'
      BY <1>3 DEF BegunInv, HandInv, FreshInv, ChosenInv, ExhaustedInv
    <2>4. QED
      BY <2>1, <2>2, <2>3 DEF RunInv
  <1>4. QED
    BY <1>2, <1>3 DEF load_first

\* The left list is read.
LEMMA RunCheckLeft ==
    ASSUME RunInv, check_left
    PROVE  RunInv'
  <1>1. TypeOK'
    BY DEF RunInv, TypeOK, check_left, runUnchanged, inputVars, faultVars,
       Sides
  <1>2. CountsInv' /\ KnownInv'
    BY DEF RunInv, CountsInv, KnownInv, LoadedPairs, Numbers,
       check_left, runUnchanged, inputVars, faultVars, Sides
  <1>3. BegunInv' /\ HandInv' /\ FreshInv' /\ ChosenInv' /\ ExhaustedInv'
    BY DEF RunInv, BegunInv, HandInv, FreshInv, ChosenInv, ExhaustedInv,
       check_left
  <1>4. QED
    BY <1>1, <1>2, <1>3 DEF RunInv

\* A pair that is not marked is taken from the two lists, or none is there.
LEMMA RunCheckRight ==
    ASSUME RunInv, check_right
    PROVE  RunInv'
  <1> DEFINE p == FirstPair(left_indices, array["right"])
  <1>1. p = <<-1, -1>> \/ p \in LoadedPairs \ completion_matrix
    BY FirstPairIsNew DEF RunInv, KnownInv, LoadedPairs, Sides
  <1> HIDE DEF p
  <1>2. /\ pc = "check_right"
        /\ ind' = [s \in Sides |-> IF s = "left" THEN p[1] ELSE p[2]]
        /\ pc' = IF p[1] >= 0 THEN "take_left" ELSE "load_left"
        /\ UNCHANGED <<loaded, completion_matrix, in_hand, left_indices,
                       array, runUnchanged>>
    BY DEF check_right, p
  <1>3. /\ Numbers("left") \subseteq Indexes
        /\ Numbers("right") \subseteq Indexes
        /\ Numbers("left") \subseteq Nat
    BY Bounds DEF Sides, Numbers
  <1>4. /\ p[1] \in Indexes \cup {-1}
        /\ p[2] \in Indexes \cup {-1}
        /\ pc' \in {"take_left", "load_left"}
        /\ pc' = "take_left" => p \in LoadedPairs \ completion_matrix
    <2>1. CASE p = <<-1, -1>>
      BY <1>2, <2>1
    <2>2. CASE p \in LoadedPairs \ completion_matrix
      BY <1>2, <1>3, <2>2 DEF LoadedPairs
    <2>3. QED
      BY <1>1, <2>1, <2>2
  <1>5. TypeOK'
    <2>1. ind' \in [Sides -> Indexes \cup {-1}]
      BY <1>2, <1>4
    <2>2. QED
      BY <1>2, <1>4, <2>1 DEF RunInv, TypeOK, runUnchanged, inputVars, faultVars,
         faultVars
  <1>6. CountsInv' /\ KnownInv'
    BY <1>2 DEF RunInv, CountsInv, KnownInv, LoadedPairs, Numbers,
       runUnchanged, inputVars, faultVars
  <1>7. BegunInv' /\ HandInv' /\ FreshInv' /\ ExhaustedInv'
    BY <1>2, <1>4 DEF RunInv, BegunInv, HandInv, FreshInv, ExhaustedInv
  <1>8. ChosenInv'
    <2>1. CASE pc' = "take_left"
      <3>1. p \in LoadedPairs \ completion_matrix /\ p = <<p[1], p[2]>>
        BY <1>4, <2>1 DEF LoadedPairs
      <3>2. p = <<ind'["left"], ind'["right"]>>
        BY <1>2, <3>1 DEF Sides
      <3>3. LoadedPairs' = LoadedPairs
        BY <1>2 DEF LoadedPairs, Numbers
      <3>4. QED
        BY <1>2, <3>1, <3>2, <3>3 DEF ChosenInv
    <2>2. CASE pc' = "load_left"
      BY <2>2 DEF ChosenInv
    <2>3. QED
      BY <1>4, <2>1, <2>2
  <1>9. QED
    BY <1>5, <1>6, <1>7, <1>8 DEF RunInv

\* A batch of side s is loaded, or the side has no more: what both loads do.
LEMMA LoadStep ==
    ASSUME RunInv, NEW s \in Sides, NEW here, NEW next, load(s, here, next),
           next \in {"load_right", "pair"}
    PROVE  /\ TypeOK' /\ CountsInv' /\ KnownInv'
           /\ \/ /\ in_hand' = in_hand \cup {s}
                 /\ ind' = [ind EXCEPT ![s] = loaded[s]]
                 /\ loaded' = [loaded EXCEPT ![s] = @ + 1]
              \/ /\ UNCHANGED <<in_hand, ind, loaded>>
                 /\ loaded[s] = batches[s] \/ failed
  <1>1. CASE /\ HasNext(s)
             /\ ind' = [ind EXCEPT ![s] = loaded[s]]
             /\ loaded' = [loaded EXCEPT ![s] = @ + 1]
             /\ in_hand' = in_hand \cup {s}
    <2>1. /\ loaded[s] \in Indexes
          /\ loaded[s] + 1 \in 0 .. MaxBatches
          /\ loaded[s] + 1 <= arrived[s]
      BY <1>1, Bounds DEF HasNext, Indexes
    <2>2. TypeOK'
      <3>1. /\ loaded' \in [Sides -> 0 .. MaxBatches]
            /\ ind' \in [Sides -> Indexes \cup {-1}]
            /\ in_hand' \subseteq Sides
        BY <1>1, <2>1 DEF RunInv, TypeOK
      <3>2. QED
        BY <3>1 DEF RunInv, TypeOK, load, runUnchanged, inputVars, faultVars
    <2>3. CountsInv'
      <3> SUFFICES ASSUME NEW r \in Sides
                   PROVE  /\ loaded'[r] <= arrived'[r]
                          /\ arrived'[r] <= batches'[r]
                          /\ closed'[r] => arrived'[r] = batches'[r] \/ failed'
        BY DEF CountsInv
      <3>1. loaded'[r] = IF r = s THEN loaded[s] + 1 ELSE loaded[r]
        BY <1>1 DEF RunInv, TypeOK
      <3>2. QED
        BY <2>1, <3>1 DEF RunInv, CountsInv, load, runUnchanged, inputVars, faultVars
    <2>4. ASSUME NEW r \in Sides PROVE Numbers(r) \subseteq Numbers(r)'
      <3>1. loaded'[r] = IF r = s THEN loaded[s] + 1 ELSE loaded[r]
        BY <1>1 DEF RunInv, TypeOK
      <3>2. QED
        BY <3>1, Bounds DEF Numbers
    <2>5. KnownInv'
      <3>1. /\ LoadedPairs \subseteq LoadedPairs'
            /\ UNCHANGED <<completion_matrix, array, left_indices>>
        BY <2>4 DEF LoadedPairs, Sides, load
      <3>2. completion_matrix' \subseteq LoadedPairs'
        BY <3>1 DEF RunInv, KnownInv
      <3>3. ASSUME NEW r \in Sides PROVE array'[r] \in Seq(Numbers(r)')
        BY <2>4, <3>1, SeqGrows DEF RunInv, KnownInv
      <3>4. left_indices' \in Seq(Numbers("left")')
        BY <2>4, <3>1, SeqGrows DEF RunInv, KnownInv, Sides
      <3>5. QED
        BY <3>2, <3>3, <3>4 DEF KnownInv
    <2>6. QED
      BY <1>1, <2>2, <2>3, <2>5
  <1>2. CASE ~HasNext(s) /\ UNCHANGED <<ind, loaded, in_hand>>
    <2>1. loaded[s] = batches[s] \/ failed
      BY <1>2, Bounds DEF RunInv, CountsInv, load, HasNext, NextKnown
    <2>2. TypeOK'
      BY <1>2 DEF RunInv, TypeOK, load, runUnchanged, inputVars, faultVars
    <2>3. CountsInv' /\ KnownInv'
      BY <1>2 DEF RunInv, CountsInv, KnownInv, LoadedPairs, Numbers,
         load, runUnchanged, inputVars, faultVars
    <2>4. QED
      BY <1>2, <2>1, <2>2, <2>3
  <1>3. QED
    BY <1>1, <1>2 DEF load

\* The left side's turn to load.
LEMMA RunLoadLeft ==
    ASSUME RunInv, load("left", "load_left", "load_right")
    PROVE  RunInv'
  <1>1. /\ pc = "load_left" /\ pc' = "load_right" /\ in_hand = {}
        /\ UNCHANGED <<completion_matrix, batches, failed>>
        /\ "left" \in Sides
    BY DEF RunInv, HandInv, load, runUnchanged, inputVars, faultVars, Sides
  <1>2. /\ TypeOK' /\ CountsInv' /\ KnownInv'
        /\ \/ /\ in_hand' = in_hand \cup {"left"}
              /\ ind' = [ind EXCEPT !["left"] = loaded["left"]]
              /\ loaded' = [loaded EXCEPT !["left"] = @ + 1]
           \/ /\ UNCHANGED <<in_hand, ind, loaded>>
              /\ loaded["left"] = batches["left"] \/ failed
    BY <1>1, LoadStep
  <1>3. BegunInv'
    <2>1. \A s \in Sides : loaded[s] >= 1 /\ loaded[s] \in Nat
      BY <1>1, Bounds DEF RunInv, BegunInv
    <2>2. loaded \in [Sides -> Nat]
      BY Bounds DEF RunInv, TypeOK
    <2>3. \A s \in Sides : loaded'[s] >= 1
      BY <1>2, <2>1, <2>2
    <2>4. QED
      BY <1>1, <2>3 DEF BegunInv
  <1>4. HandInv' /\ ChosenInv'
    BY <1>1, <1>2 DEF HandInv, ChosenInv
  <1>5. FreshInv'
    <2>1. CASE /\ in_hand' = in_hand \cup {"left"}
               /\ ind' = [ind EXCEPT !["left"] = loaded["left"]]
               /\ loaded' = [loaded EXCEPT !["left"] = @ + 1]
      <3>1. /\ ind'["left"] = loaded["left"]
            /\ loaded'["left"] = loaded["left"] + 1
            /\ loaded["left"] \in Nat
            /\ "right" \notin in_hand'
        BY <1>1, <2>1, Bounds DEF RunInv, TypeOK
      <3>2. ind'["left"] \in Numbers("left")'
        BY <3>1 DEF Numbers
      <3>3. ASSUME NEW p \in completion_matrix' PROVE p[1] # ind'["left"]
        <4>1. p[1] \in 0 .. loaded["left"] - 1
          BY <1>1 DEF RunInv, KnownInv, LoadedPairs, Numbers
        <4>2. QED
          BY <3>1, <4>1
      <3>4. QED
        BY <3>1, <3>2, <3>3 DEF FreshInv
    <2>2. CASE UNCHANGED in_hand
      BY <1>1, <2>2 DEF FreshInv
    <2>3. QED
      BY <1>2, <2>1, <2>2
  <1>6. ExhaustedInv'
    BY <1>1, <1>2 DEF ExhaustedInv
  <1>7. QED
    BY <1>2, <1>3, <1>4, <1>5, <1>6 DEF RunInv

\* The right side's turn to load.
LEMMA RunLoadRight ==
    ASSUME RunInv, load("right", "load_right", "pair")
    PROVE  RunInv'
  <1>1. /\ pc = "load_right" /\ pc' = "pair" /\ "right" \notin in_hand
        /\ UNCHANGED <<completion_matrix, batches, failed>>
        /\ "right" \in Sides /\ "left" \in Sides
    BY DEF RunInv, HandInv, load, runUnchanged, inputVars, faultVars, Sides
  <1>2. /\ TypeOK' /\ CountsInv' /\ KnownInv'
        /\ \/ /\ in_hand' = in_hand \cup {"right"}
              /\ ind' = [ind EXCEPT !["right"] = loaded["right"]]
              /\ loaded' = [loaded EXCEPT !["right"] = @ + 1]
           \/ /\ UNCHANGED <<in_hand, ind, loaded>>
              /\ loaded["right"] = batches["right"] \/ failed
    BY <1>1, LoadStep
  <1>3. BegunInv'
    <2>1. \A s \in Sides : loaded[s] >= 1 /\ loaded[s] \in Nat
      BY <1>1, Bounds DEF RunInv, BegunInv
    <2>2. loaded \in [Sides -> Nat]
      BY Bounds DEF RunInv, TypeOK
    <2>3. \A s \in Sides : loaded'[s] >= 1
      BY <1>2, <2>1, <2>2
    <2>4. QED
      BY <1>1, <2>3 DEF BegunInv
  <1>4. HandInv' /\ ChosenInv'
    BY <1>1, <1>2 DEF HandInv, ChosenInv
  <1>5. UNCHANGED <<ind["left"], loaded["left"]>>
        /\ ("left" \in in_hand' <=> "left" \in in_hand)
    BY <1>1, <1>2 DEF RunInv, TypeOK
  <1>6. FreshInv'
    <2>1. ASSUME "left" \in in_hand'
          PROVE  /\ ind'["left"] \in Numbers("left")'
                 /\ \A p \in completion_matrix' : p[1] # ind'["left"]
      BY <1>1, <1>5, <2>1 DEF RunInv, FreshInv, Numbers
    <2>2. ASSUME "right" \in in_hand'
          PROVE  /\ ind'["right"] \in Numbers("right")'
                 /\ \A p \in completion_matrix' : p[2] # ind'["right"]
      <3>1. /\ ind'["right"] = loaded["right"]
            /\ loaded'["right"] = loaded["right"] + 1
            /\ loaded["right"] \in Nat
        BY <1>1, <1>2, <2>2, Bounds DEF RunInv, TypeOK
      <3>2. ind'["right"] \in Numbers("right")'
        BY <3>1 DEF Numbers
      <3>3. ASSUME NEW p \in completion_matrix' PROVE p[2] # ind'["right"]
        <4>1. p[2] \in 0 .. loaded["right"] - 1
          BY <1>1 DEF RunInv, KnownInv, LoadedPairs, Numbers
        <4>2. QED
          BY <3>1, <4>1
      <3>4. QED
        BY <3>2, <3>3
    <2>3. QED
      BY <2>1, <2>2 DEF FreshInv
  <1>7. ExhaustedInv'
    <2>1. "left" \notin in_hand' => loaded'["left"] = batches'["left"] \/ failed'
      BY <1>1, <1>5 DEF RunInv, ExhaustedInv
    <2>2. "right" \notin in_hand' => loaded'["right"] = batches'["right"] \/ failed'
      BY <1>1, <1>2
    <2>3. QED
      BY <1>1, <2>1, <2>2 DEF ExhaustedInv, Sides
  <1>8. QED
    BY <1>2, <1>3, <1>4, <1>6, <1>7 DEF RunInv

\* The index to pair a new batch with is that of a batch.
LEMMA PartnerLoaded ==
    ASSUME RunInv, NEW s \in Sides, loaded[s] >= 1
    PROVE  Partner(s) \in Numbers(s)
  <1>1. array[s] \in Seq(Numbers(s))
    BY DEF RunInv, KnownInv
  <1>2. 0 \in Numbers(s)
    BY Bounds DEF Numbers
  <1>3. QED
    BY <1>1, <1>2 DEF Partner

\* What run() pairs a new batch with, what it goes back to, or the end.
LEMMA RunPair ==
    ASSUME RunInv, pair
    PROVE  RunInv'
  <1>1. /\ pc = "pair"
        /\ UNCHANGED <<loaded, completion_matrix, in_hand, left_indices, array,
                       inputVars, tasks, outputs, faultVars>>
        /\ "left" \in Sides /\ "right" \in Sides
        /\ \A s \in Sides : loaded[s] >= 1
        /\ \A s \in Sides : Numbers(s) \subseteq Indexes
    BY Bounds DEF RunInv, BegunInv, pair, runUnchanged, Sides
  <1>2. CountsInv' /\ KnownInv' /\ LoadedPairs' = LoadedPairs
    BY <1>1 DEF RunInv, CountsInv, KnownInv, LoadedPairs, Numbers, inputVars, faultVars
  <1>3. /\ pc' \in {"add", "take_left", "take_right", "wait"}
        /\ in_hand' = in_hand
        /\ pc' = "add" => in_hand = Sides
        /\ pc' = "take_left" => "left" \notin in_hand
        /\ pc' = "take_right" => in_hand = {"left"}
        /\ pc' = "wait" => in_hand = {} /\ Uncompleted = {}
    BY DEF pair
  <1>4. /\ ind' \in [Sides -> Indexes \cup {-1}]
        /\ pc' \in {"add", "take_left", "take_right"} =>
               <<ind'["left"], ind'["right"]>>
                   \in LoadedPairs \ completion_matrix
    <2>1. CASE in_hand = Sides /\ pc' = "add" /\ UNCHANGED ind
      BY <1>1, <2>1 DEF RunInv, TypeOK, FreshInv, LoadedPairs
    <2>2. CASE /\ in_hand = {"left"}
               /\ ind' = [ind EXCEPT !["right"] = Partner("right")]
      <3>1. Partner("right") \in Numbers("right")
        BY <1>1, PartnerLoaded
      <3>2. ind'["left"] = ind["left"] /\ ind'["right"] = Partner("right")
        BY <1>1, <2>2 DEF RunInv, TypeOK
      <3>3. /\ ind["left"] \in Numbers("left")
            /\ \A p \in completion_matrix : p[1] # ind["left"]
        BY <1>1, <2>2 DEF RunInv, FreshInv
      <3>4. ind' \in [Sides -> Indexes \cup {-1}]
        BY <1>1, <2>2, <3>1 DEF RunInv, TypeOK
      <3>5. QED
        BY <3>1, <3>2, <3>3, <3>4 DEF LoadedPairs
    <2>3. CASE /\ in_hand = {"right"}
               /\ ind' = [ind EXCEPT !["left"] = Partner("left")]
      <3>1. Partner("left") \in Numbers("left")
        BY <1>1, PartnerLoaded
      <3>2. ind'["right"] = ind["right"] /\ ind'["left"] = Partner("left")
        BY <1>1, <2>3 DEF RunInv, TypeOK
      <3>3. /\ ind["right"] \in Numbers("right")
            /\ \A p \in completion_matrix : p[2] # ind["right"]
        BY <1>1, <2>3 DEF RunInv, FreshInv
      <3>4. ind' \in [Sides -> Indexes \cup {-1}]
        BY <1>1, <2>3, <3>1 DEF RunInv, TypeOK
      <3>5. QED
        BY <3>1, <3>2, <3>3, <3>4 DEF LoadedPairs
    <2>4. CASE \E p \in Uncompleted :
                   ind' = [s \in Sides |-> IF s = "left" THEN p[1] ELSE p[2]]
      <3>1. PICK p \in Uncompleted :
                   ind' = [s \in Sides |-> IF s = "left" THEN p[1] ELSE p[2]]
        BY <2>4
      <3>2. /\ p \in LoadedPairs \ completion_matrix
            /\ p = <<p[1], p[2]>>
            /\ p[1] \in Numbers("left") /\ p[2] \in Numbers("right")
        BY DEF Uncompleted, LoadedPairs, Numbers
      <3>3. ind'["left"] = p[1] /\ ind'["right"] = p[2]
        BY <1>1, <3>1
      <3>4. ind' \in [Sides -> Indexes \cup {-1}]
        BY <1>1, <3>1, <3>2
      <3>5. QED
        BY <3>2, <3>3, <3>4
    <2>5. CASE pc' = "wait" /\ UNCHANGED ind
      BY <2>5 DEF RunInv, TypeOK
    <2>6. QED
      BY <2>1, <2>2, <2>3, <2>4, <2>5 DEF pair
  <1>5. TypeOK'
    BY <1>1, <1>3, <1>4 DEF RunInv, TypeOK, inputVars, faultVars
  <1>6. BegunInv' /\ HandInv' /\ FreshInv'
    BY <1>1, <1>3 DEF BegunInv, HandInv, FreshInv
  <1>7. ChosenInv'
    BY <1>1, <1>2, <1>4 DEF ChosenInv
  <1>8. ExhaustedInv'
    <2>1. CASE pc' = "wait"
      <3>1. LoadedPairs \subseteq completion_matrix
        BY <1>3, <2>1 DEF Uncompleted, LoadedPairs, Numbers
      <3>2. \A s \in Sides : loaded[s] = batches[s] \/ failed
        BY <1>1, <1>3, <2>1 DEF RunInv, ExhaustedInv
      <3>3. QED
        BY <1>1, <1>2, <2>1, <3>1, <3>2 DEF ExhaustedInv, inputVars, faultVars
    <2>2. CASE pc' # "wait"
      BY <1>3, <2>2 DEF ExhaustedInv
    <2>3. QED
      BY <2>1, <2>2
  <1>9. QED
    BY <1>2, <1>5, <1>6, <1>7, <1>8 DEF RunInv

\* What get_or_wait leaves in the array caches.
LEMMA TakeArray ==
    ASSUME NEW s \in Sides, NEW k, get_or_wait(s, k),
           array \in [Sides -> Seq(Indexes)]
    PROVE  /\ array' \in [Sides -> Seq(Indexes)]
           /\ \A r \in Sides \ {s} : array'[r] = array[r]
           /\ \A S : array[s] \in Seq(S) => array'[s] \in Seq(S)
           /\ k \in ToSet(array[s])
           /\ IsInjective(array[s]) =>
                  /\ IsInjective(array'[s])
                  /\ ToSet(array'[s]) = ToSet(array[s]) \ {k}
  <1> DEFINE q == array[s]
  <1>1. PICK i \in DOMAIN q :
            /\ q[i] = k
            /\ array' = [array EXCEPT ![s] =
                             SubSeq(@, i + 1, Len(@)) \o SubSeq(@, 1, i - 1)]
    BY DEF get_or_wait
  <1>2. q \in Seq(Indexes)
    OBVIOUS
  <1>3. array'[s] = SubSeq(q, i + 1, Len(q)) \o SubSeq(q, 1, i - 1)
    BY <1>1
  <1>4. \A r \in Sides \ {s} : array'[r] = array[r]
    BY <1>1
  <1> HIDE DEF q
  <1>5. ASSUME NEW S, q \in Seq(S) PROVE array'[s] \in Seq(S)
    BY <1>3, <1>5, RotateQueue
  <1>6. /\ array'[s] \in Seq(Indexes)
        /\ IsInjective(q) => /\ IsInjective(array'[s])
                             /\ ToSet(array'[s]) = ToSet(q) \ {k}
    BY <1>1, <1>2, <1>3, RotateQueue
  <1>7. array' \in [Sides -> Seq(Indexes)]
    BY <1>1, <1>3, <1>6 DEF q
  <1>8. k \in ToSet(q)
    BY <1>1 DEF ToSet
  <1>9. QED
    BY <1>4, <1>5, <1>6, <1>7, <1>8 DEF q

\* A batch is taken from its array cache.
LEMMA RunTake ==
    ASSUME RunInv, NEW s \in Sides, NEW here, take(s, here),
           <<s, here>> \in {<<"left", "take_left">>, <<"right", "take_right">>}
    PROVE  RunInv'
  <1>1. /\ pc = here
        /\ in_hand' = in_hand \cup {s}
        /\ pc' = IF in_hand \cup {s} = Sides THEN "add" ELSE "take_right"
        /\ UNCHANGED <<loaded, completion_matrix, ind, left_indices, inputVars,
                       tasks, outputs, faultVars>>
        /\ in_hand \subseteq Sides
    BY DEF RunInv, TypeOK, take, runUnchanged
  <1>2. /\ array' \in [Sides -> Seq(Indexes)]
        /\ \A r \in Sides \ {s} : array'[r] = array[r]
        /\ \A S : array[s] \in Seq(S) => array'[s] \in Seq(S)
    BY TakeArray DEF RunInv, TypeOK, take
  <1>3. TypeOK'
    BY <1>1, <1>2 DEF RunInv, TypeOK, inputVars, faultVars
  <1>4. CountsInv'
    BY <1>1 DEF RunInv, CountsInv, inputVars, faultVars
  <1>5. KnownInv'
    <2>1. ASSUME NEW r \in Sides PROVE array'[r] \in Seq(Numbers(r))
      BY <1>2 DEF RunInv, KnownInv
    <2>2. UNCHANGED <<Numbers("left"), LoadedPairs>>
          /\ \A r \in Sides : Numbers(r)' = Numbers(r)
      BY <1>1 DEF Numbers, LoadedPairs
    <2>3. QED
      BY <1>1, <2>1, <2>2 DEF RunInv, KnownInv
  <1>6. BegunInv' /\ FreshInv' /\ ExhaustedInv'
    BY <1>1 DEF RunInv, BegunInv, FreshInv, ExhaustedInv
  <1>7. HandInv'
    BY <1>1 DEF RunInv, HandInv, Sides
  <1>8. ChosenInv'
    BY <1>1 DEF RunInv, ChosenInv, LoadedPairs, Numbers
  <1>9. QED
    BY <1>3, <1>4, <1>5, <1>6, <1>7, <1>8 DEF RunInv

\* A task is created for the pair, and the pair is marked.
LEMMA RunAddTask ==
    ASSUME RunInv, add_task
    PROVE  RunInv'
  <1> DEFINE p == <<ind["left"], ind["right"]>>
  <1>1. /\ p \in LoadedPairs
        /\ p \in Pairs
    <2>1. p \in LoadedPairs
      BY DEF RunInv, ChosenInv, add_task
    <2>2. LoadedPairs \subseteq Pairs
      BY Bounds DEF LoadedPairs, Pairs, Sides
    <2>3. QED
      BY <2>1, <2>2
  <1>2. /\ tasks' = tasks \cup {[pair |-> p, stage |-> "join", attempts |-> 0]}
        /\ completion_matrix' = completion_matrix \cup {p}
        /\ in_hand' = {}
        /\ ind' = [s \in Sides |-> -1]
        /\ pc = "add"
        /\ pc' = "check"
        /\ UNCHANGED <<loaded, left_indices, array, inputVars, outputs,
                       faultVars>>
    BY DEF add_task, mark_set_completed
  <1> HIDE DEF p
  <1>3. TypeOK'
    <2>1. [pair |-> p, stage |-> "join", attempts |-> 0]
              \in [pair : Pairs, stage : Stages,
                   attempts : 0 .. attempts_limit - 1]
      BY <1>1, JoinAssumption DEF Stages
    <2>2. ind' \in [Sides -> Indexes \cup {-1}]
      BY <1>2
    <2>3. tasks' \subseteq [pair : Pairs, stage : Stages,
                            attempts : 0 .. attempts_limit - 1]
      BY <1>2, <2>1 DEF RunInv, TypeOK
    <2>4. completion_matrix' \subseteq Pairs
      BY <1>1, <1>2 DEF RunInv, TypeOK
    <2>5. QED
      BY <1>2, <2>2, <2>3, <2>4 DEF RunInv, TypeOK, inputVars, faultVars
  <1>4. CountsInv'
    BY <1>2 DEF RunInv, CountsInv, inputVars, faultVars
  <1>5. KnownInv'
    BY <1>1, <1>2 DEF RunInv, KnownInv, LoadedPairs, Numbers
  <1>6. BegunInv' /\ HandInv' /\ FreshInv' /\ ChosenInv' /\ ExhaustedInv'
    BY <1>2 DEF RunInv, BegunInv, HandInv, FreshInv, ChosenInv, ExhaustedInv
  <1>7. QED
    BY <1>3, <1>4, <1>5, <1>6 DEF RunInv

\* run() has waited for its tasks.
LEMMA RunFinish ==
    ASSUME RunInv, finish
    PROVE  RunInv'
  <1>1. /\ pc = "wait"
        /\ pc' \in {"threw", "done"}
        /\ array' = array \/ array' = [s \in Sides |-> <<>>]
        /\ UNCHANGED <<loaded, completion_matrix, ind, in_hand, left_indices,
                       inputVars, tasks, outputs, faultVars>>
    BY DEF finish, runUnchanged
  <1>2. /\ array' \in [Sides -> Seq(Indexes)]
        /\ \A s \in Sides : array'[s] \in Seq(Numbers(s))
    <2>1. <<>> \in Seq(Indexes) /\ \A s \in Sides : <<>> \in Seq(Numbers(s))
      OBVIOUS
    <2>2. CASE array' = array
      BY <2>2 DEF RunInv, TypeOK, KnownInv
    <2>3. CASE array' = [s \in Sides |-> <<>>]
      BY <2>1, <2>3
    <2>4. QED
      BY <1>1, <2>2, <2>3
  <1>3. TypeOK'
    BY <1>1, <1>2 DEF RunInv, TypeOK, inputVars, faultVars
  <1>4. CountsInv'
    BY <1>1 DEF RunInv, CountsInv, inputVars, faultVars
  <1>5. KnownInv'
    BY <1>1, <1>2 DEF RunInv, KnownInv, LoadedPairs, Numbers
  <1>6. BegunInv' /\ HandInv' /\ FreshInv' /\ ChosenInv'
    BY <1>1 DEF RunInv, BegunInv, HandInv, FreshInv, ChosenInv
  <1>7. ExhaustedInv'
    BY <1>1 DEF RunInv, ExhaustedInv, LoadedPairs, Numbers, inputVars, faultVars
  <1>8. QED
    BY <1>3, <1>4, <1>5, <1>6, <1>7 DEF RunInv

\* What is in a task: a pair, a stage and a count of attempts.
TaskType ==
    [pair : Pairs, stage : Stages, attempts : 0 .. attempts_limit - 1]

\* What a step of a task does to the variables that run() shares with it: a
\* batch of a marked pair may be put back, the task is replaced or removed.
TaskStep(t) ==
    /\ UNCHANGED <<inputVars, runVars>>
    /\ \/ array' = array
       \/ array' = [array EXCEPT !["left"] = Append(@, t.pair[1])]
       \/ array' = [array EXCEPT !["right"] = Append(@, t.pair[2])]
    /\ \/ tasks' = tasks \ {t}
       \/ \E u \in TaskType : /\ u.pair = t.pair
                              /\ tasks' = (tasks \ {t}) \cup {u}
    /\ outputs' \in [Pairs -> Nat]
    /\ reput' \subseteq Pairs
    /\ failed' \in BOOLEAN /\ (failed => failed')
    /\ faults' \in 0 .. MaxFaults

\* Every step of a task is one of those.
LEMMA TaskSteps ==
    ASSUME TypeOK, NEW t \in tasks, Process(t) \/ exception(t)
    PROVE  TaskStep(t)
  <1>1. t \in TaskType
    BY DEF TypeOK, TaskType
  <1>2. /\ t.pair \in Pairs
        /\ \A st \in Stages : /\ [t EXCEPT !.stage = st] \in TaskType
                              /\ [t EXCEPT !.stage = st].pair = t.pair
    BY <1>1 DEF TaskType
  <1>3. "put_left" \in Stages /\ "put_right" \in Stages /\ "join" \in Stages
    BY DEF Stages
  <1>4. CASE join_set(t)
    <2>1. outputs' \in [Pairs -> Nat]
      BY <1>2, <1>4 DEF join_set, TypeOK
    <2>2. \E u \in TaskType : /\ u.pair = t.pair
                              /\ tasks' = (tasks \ {t}) \cup {u}
      BY <1>2, <1>3, <1>4 DEF join_set
    <2>3. QED
      BY <1>4, <2>1, <2>2 DEF join_set, TaskStep, taskUnchanged, TypeOK,
         faultVars
  <1>5. CASE put_left(t)
    <2>1. \E u \in TaskType : /\ u.pair = t.pair
                              /\ tasks' = (tasks \ {t}) \cup {u}
      BY <1>2, <1>3, <1>5 DEF put_left
    <2>2. QED
      BY <1>5, <2>1 DEF put_left, TaskStep, taskUnchanged, TypeOK, faultVars
  <1>6. CASE put_right(t)
    BY <1>6 DEF put_right, TaskStep, taskUnchanged, TypeOK, faultVars
  <1>7. CASE exception(t)
    <2>1. /\ faults' \in 0 .. MaxFaults
          /\ UNCHANGED <<outputs, array, inputVars, runVars>>
      BY <1>7, JoinAssumption DEF exception, TypeOK, taskUnchanged
    <2>2. CASE /\ rerun(t)
               /\ reput' = IF t.stage = "join" THEN reput
                           ELSE reput \cup {t.pair}
               /\ UNCHANGED failed
      <3> DEFINE u == [t EXCEPT !.stage = "join", !.attempts = @ + 1]
      <3>1. t.attempts + 1 \in 0 .. attempts_limit - 1
        BY <1>1, <2>2, JoinAssumption DEF rerun, TaskType
      <3>2. u \in TaskType /\ u.pair = t.pair
        BY <1>1, <1>3, <3>1 DEF TaskType
      <3>3. tasks' = (tasks \ {t}) \cup {u}
        BY <2>2 DEF rerun
      <3>4. reput' \subseteq Pairs /\ failed' \in BOOLEAN /\ failed' = failed
        BY <1>2, <2>2 DEF TypeOK
      <3> HIDE DEF u
      <3>5. QED
        BY <2>1, <3>2, <3>3, <3>4 DEF TaskStep, TypeOK
    <2>3. CASE throw(t)
      BY <2>1, <2>3 DEF throw, TaskStep, TypeOK
    <2>4. QED
      BY <1>7, <2>2, <2>3 DEF exception
  <1>8. QED
    BY <1>4, <1>5, <1>6, <1>7 DEF Process

\* A task does not disturb what run() relies on.
LEMMA RunTask ==
    ASSUME RunInv, NEW t \in tasks, t.pair \in LoadedPairs, TaskStep(t)
    PROVE  RunInv'
  <1>1. /\ t.pair[1] \in Numbers("left") /\ t.pair[1] \in Indexes
        /\ t.pair[2] \in Numbers("right") /\ t.pair[2] \in Indexes
        /\ "left" \in Sides /\ "right" \in Sides
    BY Bounds DEF LoadedPairs, Sides
  <1>2. UNCHANGED <<batches, runVars, inputVars>>
    BY DEF TaskStep, inputVars
  <1>3. /\ array' \in [Sides -> Seq(Indexes)]
        /\ \A s \in Sides : array'[s] \in Seq(Numbers(s))
    <2>1. /\ array \in [Sides -> Seq(Indexes)]
          /\ \A s \in Sides : array[s] \in Seq(Numbers(s))
      BY DEF RunInv, TypeOK, KnownInv
    <2>2. CASE array' = array
      BY <2>1, <2>2
    <2>3. CASE array' = [array EXCEPT !["left"] = Append(@, t.pair[1])]
      BY <1>1, <2>1, <2>3
    <2>4. CASE array' = [array EXCEPT !["right"] = Append(@, t.pair[2])]
      BY <1>1, <2>1, <2>4
    <2>5. QED
      BY <2>2, <2>3, <2>4 DEF TaskStep
  <1>4. TypeOK'
    <2>1. tasks' \subseteq TaskType
      BY DEF RunInv, TypeOK, TaskStep, TaskType
    <2>2. QED
      BY <1>2, <1>3, <2>1 DEF RunInv, TypeOK, TaskStep, TaskType, inputVars,
         runVars
  <1>5. CountsInv'
    BY <1>2 DEF RunInv, CountsInv, inputVars, runVars, TaskStep
  <1>6. KnownInv'
    <2>1. Numbers("left")' = Numbers("left") /\ LoadedPairs' = LoadedPairs
          /\ \A s \in Sides : Numbers(s)' = Numbers(s)
      BY <1>2 DEF Numbers, LoadedPairs, runVars
    <2>2. QED
      BY <1>2, <1>3, <2>1 DEF RunInv, KnownInv, runVars
  <1>7. QED
    BY <1>2, <1>4, <1>5, <1>6, RunFrame DEF RunInv, TaskStep

-----------------------------------------------------------------------------
(* What a mark stands for. *)

\* Before any task.
LEMMA TaskInit == ASSUME Init PROVE TaskInv
  BY DEF Init, TaskInv

\* A pair is marked: it was not marked before, so it has no output yet and no
\* task.
LEMMA TaskAdd ==
    ASSUME RunInv, TaskInv, add_task
    PROVE  TaskInv'
  <1> DEFINE p == <<ind["left"], ind["right"]>>
             new == [pair |-> p, stage |-> "join", attempts |-> 0]
  <1>1. /\ tasks' = tasks \cup {new}
        /\ completion_matrix' = completion_matrix \cup {p}
        /\ pc' = "check"
        /\ UNCHANGED <<outputs, reput, failed>>
    BY DEF add_task, mark_set_completed, faultVars
  <1>2. /\ p \notin completion_matrix
        /\ p \in LoadedPairs
        /\ new.pair = p /\ new.stage = "join"
    BY DEF RunInv, ChosenInv, add_task
  <1>3. p \in Pairs
    BY <1>2, Bounds DEF LoadedPairs, Pairs, Sides
  <1> HIDE DEF p, new
  <1>4. outputs[p] = 0
    <2>1. ~(outputs[p] > 0)
      BY <1>2, <1>3 DEF TaskInv
    <2>2. outputs[p] \in Nat
      BY <1>3 DEF RunInv, TypeOK
    <2>3. QED
      BY <2>1, <2>2
  <1>5. \A t \in tasks : t.pair # p
    BY <1>2 DEF TaskInv
  <1>6. ASSUME NEW t \in tasks'
        PROVE  /\ t.pair \in completion_matrix'
               /\ IF t.stage = "join"
                  THEN outputs'[t.pair] = 0 \/ t.pair \in reput'
                  ELSE outputs'[t.pair] > 0
    <2>1. CASE t = new
      BY <1>1, <1>2, <1>4, <2>1
    <2>2. CASE t \in tasks
      BY <1>1, <2>2 DEF TaskInv
    <2>3. QED
      BY <1>1, <2>1, <2>2
  <1>7. ASSUME NEW t \in tasks', NEW u \in tasks', t.pair = u.pair
        PROVE  t = u
    BY <1>1, <1>2, <1>5, <1>7 DEF TaskInv
  <1>8. \A q \in Pairs : outputs'[q] > 0 => q \in completion_matrix'
    BY <1>1 DEF TaskInv
  <1>9. ASSUME NEW q \in completion_matrix'
        PROVE  outputs'[q] > 0 \/ failed' \/ \E t \in tasks' : t.pair = q
    BY <1>1, <1>2 DEF TaskInv
  <1>10. QED
    BY <1>1, <1>6, <1>7, <1>8, <1>9 DEF TaskInv

\* A step of run() other than add_task, and a step of an input.
LEMMA TaskFrame ==
    ASSUME TaskInv,
           UNCHANGED <<completion_matrix, tasks, outputs, reput, failed>>,
           pc' = "done" => pc = "done" \/ tasks = {} \/ failed
    PROVE  TaskInv'
  BY DEF TaskInv

\* A task joins its pair, puts its batches back, is rerun or throws.
LEMMA TaskProcess ==
    ASSUME RunInv, TaskInv, NEW t \in tasks, Process(t) \/ exception(t)
    PROVE  TaskInv'
  <1>1. /\ t.pair \in completion_matrix /\ t.pair \in Pairs
        /\ t \in TaskType
        /\ outputs \in [Pairs -> Nat]
        /\ completion_matrix \subseteq Pairs
    BY DEF RunInv, TypeOK, TaskInv, TaskType
  <1>2. /\ pc # "done" \/ failed
        /\ UNCHANGED <<completion_matrix, pc>>
    BY DEF TaskInv, Process, join_set, put_left, put_right, exception,
       taskUnchanged, runVars
  \* The task goes on with its pair in another stage.
  <1>3. ASSUME NEW u, u.pair = t.pair, tasks' = (tasks \ {t}) \cup {u},
               UNCHANGED failed,
               \A p \in Pairs \ {t.pair} : outputs'[p] = outputs[p],
               outputs'[t.pair] >= outputs[t.pair],
               outputs' \in [Pairs -> Nat],
               reput \subseteq reput',
               IF u.stage = "join"
               THEN outputs'[u.pair] = 0 \/ u.pair \in reput'
               ELSE outputs'[u.pair] > 0
        PROVE  TaskInv'
    <2>1. ASSUME NEW v \in tasks'
          PROVE  /\ v.pair \in completion_matrix'
                 /\ IF v.stage = "join"
                    THEN outputs'[v.pair] = 0 \/ v.pair \in reput'
                    ELSE outputs'[v.pair] > 0
      <3>1. CASE v = u
        BY <1>1, <1>2, <1>3, <3>1
      <3>2. CASE v \in tasks \ {t}
        <4>1. v.pair # t.pair /\ v.pair \in Pairs
          BY <1>1, <3>2 DEF TaskInv
        <4>2. outputs'[v.pair] = outputs[v.pair]
          BY <1>3, <4>1
        <4>3. QED
          BY <1>2, <1>3, <3>2, <4>2 DEF TaskInv
      <3>3. QED
        BY <1>3, <3>1, <3>2
    <2>2. \A v, w \in tasks' : v.pair = w.pair => v = w
      BY <1>3 DEF TaskInv
    <2>3. \A p \in Pairs : outputs'[p] > 0 => p \in completion_matrix'
      BY <1>1, <1>2, <1>3 DEF TaskInv
    <2>4. ASSUME NEW p \in completion_matrix'
          PROVE  outputs'[p] > 0 \/ failed' \/ \E v \in tasks' : v.pair = p
      <3>1. CASE p = t.pair
        BY <1>3, <3>1
      <3>2. CASE p # t.pair
        <4>1. p \in Pairs /\ outputs'[p] = outputs[p]
          BY <1>1, <1>2, <1>3, <3>2
        <4>2. CASE outputs[p] > 0 \/ failed
          BY <1>3, <4>1, <4>2
        <4>3. CASE \E v \in tasks : v.pair = p
          BY <1>3, <3>2, <4>3
        <4>4. QED
          BY <1>2, <4>2, <4>3 DEF TaskInv
      <3>3. QED
        BY <3>1, <3>2
    <2>5. QED
      BY <1>2, <1>3, <2>1, <2>2, <2>3, <2>4 DEF TaskInv
  \* The task is over.
  <1>4. ASSUME tasks' = tasks \ {t}, UNCHANGED <<outputs, reput>>,
               failed' \/ (failed' = failed /\ outputs[t.pair] > 0)
        PROVE  TaskInv'
    <2>1. ASSUME NEW p \in completion_matrix'
          PROVE  outputs'[p] > 0 \/ failed' \/ \E v \in tasks' : v.pair = p
      BY <1>2, <1>4 DEF TaskInv
    <2>2. QED
      BY <1>2, <1>4, <2>1 DEF TaskInv
  <1>5. CASE join_set(t)
    <2> DEFINE u == [t EXCEPT !.stage = "put_left"]
    <2>1. /\ tasks' = (tasks \ {t}) \cup {u}
          /\ outputs' = [outputs EXCEPT ![t.pair] = @ + 1]
          /\ UNCHANGED <<reput, failed>>
      BY <1>5 DEF join_set, faultVars
    <2>2. u.pair = t.pair /\ u.stage = "put_left"
      BY <1>1 DEF TaskType
    <2> HIDE DEF u
    <2>3. /\ \A p \in Pairs \ {t.pair} : outputs'[p] = outputs[p]
          /\ outputs'[t.pair] >= outputs[t.pair]
          /\ outputs'[t.pair] > 0
          /\ outputs' \in [Pairs -> Nat]
      BY <1>1, <2>1
    <2>4. QED
      BY <1>3, <2>1, <2>2, <2>3
  <1>6. CASE put_left(t)
    <2> DEFINE u == [t EXCEPT !.stage = "put_right"]
    <2>1. /\ tasks' = (tasks \ {t}) \cup {u}
          /\ UNCHANGED <<outputs, reput, failed>>
      BY <1>6 DEF put_left, faultVars
    <2>2. u.pair = t.pair /\ u.stage = "put_right" /\ t.stage = "put_left"
      BY <1>1, <1>6 DEF TaskType, put_left
    <2> HIDE DEF u
    <2>3. outputs[t.pair] > 0 /\ outputs'[t.pair] >= outputs[t.pair]
      BY <1>1, <2>1, <2>2 DEF TaskInv
    <2>4. QED
      BY <1>1, <1>3, <2>1, <2>2, <2>3
  <1>7. CASE put_right(t)
    BY <1>4, <1>7 DEF put_right, faultVars, TaskInv
  <1>8. CASE exception(t)
    <2>1. CASE /\ rerun(t)
               /\ reput' = IF t.stage = "join" THEN reput
                           ELSE reput \cup {t.pair}
               /\ UNCHANGED failed
      <3> DEFINE u == [t EXCEPT !.stage = "join", !.attempts = @ + 1]
      <3>1. /\ tasks' = (tasks \ {t}) \cup {u}
            /\ UNCHANGED outputs
        BY <1>8, <2>1 DEF exception, rerun
      <3>2. u.pair = t.pair /\ u.stage = "join"
        BY <1>1 DEF TaskType
      <3> HIDE DEF u
      <3>3. /\ outputs[t.pair] = 0 \/ t.pair \in reput'
            /\ outputs'[t.pair] >= outputs[t.pair]
        BY <1>1, <2>1, <3>1 DEF TaskInv
      <3>4. QED
        BY <1>1, <1>3, <2>1, <3>1, <3>2, <3>3
    <2>2. CASE throw(t)
      BY <1>4, <1>8, <2>2 DEF exception, throw
    <2>3. QED
      BY <1>8, <2>1, <2>2 DEF exception
  <1>9. QED
    BY <1>5, <1>6, <1>7, <1>8 DEF Process

\* A pair is added to the output a second time only by a task that was rerun
\* after its output.
LEMMA RepeatStep ==
    ASSUME RunInv, TaskInv, PairsNotRepeated,
           NEW t \in tasks, Process(t) \/ exception(t)
    PROVE  PairsNotRepeated'
  <1>1. CASE join_set(t)
    <2>1. /\ outputs \in [Pairs -> Nat]
          /\ t.pair \in Pairs
          /\ outputs' = [outputs EXCEPT ![t.pair] = @ + 1]
          /\ reput' = reput
          /\ outputs[t.pair] = 0 \/ t.pair \in reput
      BY <1>1 DEF RunInv, TypeOK, TaskInv, join_set, faultVars
    <2>2. ASSUME NEW p \in Pairs PROVE p \in reput' \/ outputs'[p] <= 1
      <3>1. outputs'[p] = IF p = t.pair THEN outputs[p] + 1 ELSE outputs[p]
        BY <2>1
      <3>2. QED
        BY <2>1, <3>1 DEF PairsNotRepeated
    <2>3. QED
      BY <2>2 DEF PairsNotRepeated
  <1>2. CASE put_left(t) \/ put_right(t)
    BY <1>2 DEF PairsNotRepeated, put_left, put_right, faultVars
  <1>3. CASE exception(t)
    BY <1>3 DEF PairsNotRepeated, exception, rerun, throw
  <1>4. QED
    BY <1>1, <1>2, <1>3 DEF Process

\* The first two layers, and what follows from them.
JoinInv == RunInv /\ TaskInv /\ PairsNotRepeated

\* What a step of run() or of an input, other than the creation of a task,
\* leaves alone.
LEMMA RunLeaves ==
    ASSUME \/ \E s \in Sides : arrive(s) \/ close(s)
           \/ Run /\ ~add_task
    PROVE  /\ UNCHANGED <<completion_matrix, tasks, outputs, reput, failed>>
           /\ pc' = "done" => pc = "done" \/ tasks = {} \/ failed
  <1>1. CASE \E s \in Sides : arrive(s) \/ close(s)
    BY <1>1 DEF arrive, close, runVars, faultVars
  <1>2. CASE load_first
    BY <1>2 DEF load_first, runUnchanged, faultVars
  <1>3. CASE check_left
    BY <1>3 DEF check_left, runUnchanged, faultVars
  <1>4. CASE check_right
    <2>1. pc' # "done"
      BY <1>4 DEF check_right
    <2>2. QED
      BY <1>4, <2>1 DEF check_right, runUnchanged, faultVars
  <1>5. CASE \/ load("left", "load_left", "load_right")
             \/ load("right", "load_right", "pair")
    BY <1>5 DEF load, runUnchanged, faultVars
  <1>6. CASE pair
    BY <1>6 DEF pair, runUnchanged, faultVars
  <1>7. CASE take("left", "take_left") \/ take("right", "take_right")
    <2>1. pc' # "done"
      BY <1>7 DEF take
    <2>2. QED
      BY <1>7, <2>1 DEF take, runUnchanged, faultVars
  <1>8. CASE finish
    BY <1>8 DEF finish, runUnchanged, faultVars
  <1>9. QED
    BY <1>1, <1>2, <1>3, <1>4, <1>5, <1>6, <1>7, <1>8 DEF Run

\* run() keeps its own invariant.
LEMMA RunKeeps ==
    ASSUME RunInv, Run
    PROVE  RunInv'
  <1>1. CASE load_first
    BY <1>1, RunLoadFirst
  <1>2. CASE check_left
    BY <1>2, RunCheckLeft
  <1>3. CASE check_right
    BY <1>3, RunCheckRight
  <1>4. CASE load("left", "load_left", "load_right")
    BY <1>4, RunLoadLeft
  <1>5. CASE load("right", "load_right", "pair")
    BY <1>5, RunLoadRight
  <1>6. CASE pair
    BY <1>6, RunPair
  <1>7. CASE take("left", "take_left")
    BY <1>7, RunTake DEF Sides
  <1>8. CASE take("right", "take_right")
    BY <1>8, RunTake DEF Sides
  <1>9. CASE add_task
    BY <1>9, RunAddTask
  <1>10. CASE finish
    BY <1>10, RunFinish
  <1>11. QED
    BY <1>1, <1>2, <1>3, <1>4, <1>5, <1>6, <1>7, <1>8, <1>9, <1>10 DEF Run

\* The invariant is inductive.
LEMMA JoinStep == JoinInv /\ [Next]_vars => JoinInv'
  <1> SUFFICES ASSUME JoinInv, [Next]_vars
               PROVE  JoinInv'
    OBVIOUS
  <1>1. RunInv /\ TaskInv /\ PairsNotRepeated
    BY DEF JoinInv
  <1>2. CASE \E s \in Sides : arrive(s) \/ close(s)
    <2>1. RunInv'
      BY <1>1, <1>2, RunArrive, RunClose
    <2>2. TaskInv' /\ PairsNotRepeated'
      BY <1>1, <1>2, RunLeaves, TaskFrame DEF PairsNotRepeated
    <2>3. QED
      BY <2>1, <2>2 DEF JoinInv
  <1>3. CASE Run
    <2>1. RunInv'
      BY <1>1, <1>3, RunKeeps
    <2>2. CASE add_task
      <3>1. TaskInv'
        BY <1>1, <2>2, TaskAdd
      <3>2. PairsNotRepeated'
        BY <1>1, <2>2 DEF add_task, faultVars, PairsNotRepeated
      <3>3. QED
        BY <2>1, <3>1, <3>2 DEF JoinInv
    <2>3. CASE ~add_task
      <3>1. TaskInv' /\ PairsNotRepeated'
        BY <1>1, <1>3, <2>3, RunLeaves, TaskFrame DEF PairsNotRepeated
      <3>2. QED
        BY <2>1, <3>1 DEF JoinInv
    <2>4. QED
      BY <2>2, <2>3
  <1>4. CASE \E t \in tasks : Process(t) \/ exception(t)
    <2>1. PICK t \in tasks : Process(t) \/ exception(t)
      BY <1>4
    <2>2. TaskInv' /\ PairsNotRepeated'
      BY <1>1, <2>1, TaskProcess, RepeatStep
    <2>3. TaskStep(t) /\ t.pair \in LoadedPairs
      BY <1>1, <2>1, TaskSteps DEF RunInv, KnownInv, TaskInv
    <2>4. RunInv'
      BY <1>1, <2>3, RunTask
    <2>5. QED
      BY <2>2, <2>4 DEF JoinInv
  <1>5. CASE other_throws
    <2>1. /\ UNCHANGED <<batches, arrived, closed, runVars, array, tasks, outputs,
                         reput, completion_matrix, loaded, pc, ind, in_hand,
                         left_indices>>
          /\ failed' = TRUE
          /\ faults' \in 0 .. MaxFaults
      BY <1>1, <1>5, JoinAssumption DEF other_throws, taskUnchanged, inputVars, runVars,
         RunInv, TypeOK
    <2>2. TypeOK' /\ CountsInv' /\ KnownInv'
      BY <1>1, <2>1 DEF RunInv, TypeOK, CountsInv, KnownInv, Numbers,
         LoadedPairs
    <2>3. RunInv'
      BY <1>1, <2>1, <2>2, RunFrame DEF RunInv
    <2>4. TaskInv' /\ PairsNotRepeated'
      BY <1>1, <2>1 DEF TaskInv, PairsNotRepeated
    <2>5. QED
      BY <2>3, <2>4 DEF JoinInv
  <1>6. CASE UNCHANGED vars
    <2>1. UNCHANGED <<batches, arrived, closed, runVars, array, tasks, outputs,
                      reput, failed, faults, completion_matrix, loaded, pc,
                      ind, in_hand, left_indices>>
      BY <1>6 DEF vars, inputVars, runVars, faultVars
    <2>2. TypeOK' /\ CountsInv' /\ KnownInv'
      BY <1>1, <2>1 DEF RunInv, TypeOK, CountsInv, KnownInv, Numbers,
         LoadedPairs
    <2>3. RunInv'
      BY <1>1, <2>1, <2>2, RunFrame DEF RunInv
    <2>4. TaskInv' /\ PairsNotRepeated'
      BY <1>1, <2>1, TaskFrame DEF PairsNotRepeated
    <2>5. QED
      BY <2>3, <2>4 DEF JoinInv
  <1>7. QED
    BY <1>2, <1>3, <1>4, <1>5, <1>6 DEF Next

\* The first two layers hold in every state.
LEMMA JoinInvariant == Spec => []JoinInv
  <1>1. Init => JoinInv
    <2> SUFFICES ASSUME Init PROVE JoinInv
      OBVIOUS
    <2>1. PairsNotRepeated
      BY DEF Init, PairsNotRepeated
    <2>2. QED
      BY <2>1, RunInit, TaskInit DEF JoinInv
  <1>2. QED
    BY <1>1, JoinStep, PTL DEF Spec

\* Every variable of the kernel keeps its type; in particular no index of an
\* array cache, of a pair or of the matrix is beyond the batches of its side.
THEOREM JoinTypes == Spec => []TypeOK
  <1>1. JoinInv => TypeOK
    BY DEF JoinInv, RunInv
  <1>2. QED
    BY <1>1, JoinInvariant, PTL

\* When PartwiseJoin::run returns and no task of any kernel has thrown, every
\* pair of batches was added to the output.
THEOREM JoinIsComplete == Spec => []EndMeansAllPairs
  <1>1. JoinInv => EndMeansAllPairs
    <2> SUFFICES ASSUME JoinInv, pc = "done", ~failed, NEW p \in AllPairs
                 PROVE  outputs[p] > 0
      BY DEF EndMeansAllPairs
    <2>1. p \in LoadedPairs
      BY DEF JoinInv, RunInv, ExhaustedInv, AllPairs, LoadedPairs, Numbers,
         Sides
    <2>2. p \in completion_matrix
      BY <2>1 DEF JoinInv, RunInv, ExhaustedInv
    <2>3. QED
      BY <2>2 DEF JoinInv, TaskInv
  <1>2. QED
    BY <1>1, JoinInvariant, PTL

\* No pair is added to the output twice, but by the rerun of a task that had
\* added its output already.
THEOREM JoinRepeatsNothing == Spec => []PairsNotRepeated
  <1>1. JoinInv => PairsNotRepeated
    BY DEF JoinInv
  <1>2. QED
    BY <1>1, JoinInvariant, PTL

-----------------------------------------------------------------------------
(* Where the batches are. *)

\* Nothing is loaded before the first turn.
LEMMA PlaceInit == ASSUME Init PROVE PlaceInv
  <1>1. ASSUME NEW s \in Sides PROVE PlaceOf(s)
    <2>1. array[s] = <<>> /\ tasks = {} /\ Numbers(s) = {}
      BY <1>1 DEF Init, Numbers
    <2>2. IsInjective(array[s])
      BY <2>1 DEF IsInjective
    <2>3. QED
      BY <2>1, <2>2 DEF PlaceOf
  <1>2. QED
    BY <1>1 DEF PlaceInv

\* Nobody moves a batch of side s.
LEMMA PlaceSame ==
    ASSUME NEW s \in Sides, PlaceOf(s), tasks' = tasks,
           array'[s] = array[s], loaded'[s] = loaded[s],
           s \in in_hand' <=> s \in in_hand,
           s \in in_hand => ind'[s] = ind[s]
    PROVE  PlaceOf(s)'
  <1>1. Numbers(s)' = Numbers(s)
    BY DEF Numbers
  <1>2. ASSUME NEW k PROVE Held(s, k)' <=> Held(s, k)
    BY DEF Held
  <1>3. ASSUME NEW k \in Numbers(s)
        PROVE  OnlyOne(k \in ToSet(array[s]), Held(s, k),
                       \E t \in tasks : Has(t, s, k))'
    <2>1. OnlyOne(k \in ToSet(array[s]), Held(s, k),
                  \E t \in tasks : Has(t, s, k))
      BY DEF PlaceOf
    <2>2. QED
      BY <1>2, <2>1 DEF OnlyOne, Has
  <1>4. \A v, w \in tasks' : \A k \in Numbers(s)' :
            Has(v, s, k)' /\ Has(w, s, k)' => v = w
    BY <1>1 DEF PlaceOf, Has
  <1>5. QED
    BY <1>1, <1>3, <1>4 DEF PlaceOf

\* The next batch of side s comes to run()'s hands.
LEMMA PlaceLoaded ==
    ASSUME RunInv, TaskInv, NEW s \in Sides, PlaceOf(s), s \notin in_hand,
           tasks' = tasks, array'[s] = array[s],
           loaded'[s] = loaded[s] + 1,
           s \in in_hand', ind'[s] = loaded[s]
    PROVE  PlaceOf(s)'
  <1>1. loaded[s] \in Nat
    BY Bounds
  <1>2. /\ Numbers(s)' = Numbers(s) \cup {loaded[s]}
        /\ loaded[s] \notin Numbers(s)
    BY <1>1 DEF Numbers
  <1>3. loaded[s] \notin ToSet(array[s])
    BY <1>2, MessagesTyped DEF RunInv, KnownInv
  <1>4. ASSUME NEW t \in tasks PROVE ~Has(t, s, loaded[s])
    <2>1. t.pair \in LoadedPairs
      BY DEF TaskInv, RunInv, KnownInv
    <2>2. t.pair[IF s = "left" THEN 1 ELSE 2] \in Numbers(s)
      BY <2>1 DEF LoadedPairs, Sides
    <2>3. QED
      BY <1>2, <2>2 DEF Has
  <1>5. \A t, u \in tasks' : \A k \in Numbers(s)' :
            Has(t, s, k)' /\ Has(u, s, k)' => t = u
    BY <1>2, <1>4 DEF PlaceOf, Has
  <1>6. ASSUME NEW k \in Numbers(s)'
        PROVE  OnlyOne(k \in ToSet(array[s]), Held(s, k),
                       \E t \in tasks : Has(t, s, k))'
    <2>1. CASE k = loaded[s]
      BY <1>3, <1>4, <2>1 DEF OnlyOne, Held, Has
    <2>2. CASE k \in Numbers(s)
      <3>1. k # loaded[s]
        BY <1>2, <2>2
      <3>2. OnlyOne(k \in ToSet(array[s]), Held(s, k),
                    \E t \in tasks : Has(t, s, k))
        BY <2>2 DEF PlaceOf
      <3>3. QED
        BY <3>1, <3>2 DEF OnlyOne, Held, Has
    <2>3. QED
      BY <1>2, <2>1, <2>2
  <1>7. QED
    BY <1>5, <1>6 DEF PlaceOf

\* run() takes a batch of side s out of the array cache.
LEMMA PlaceTaken ==
    ASSUME RunInv, NEW s \in Sides, PlaceOf(s), s \notin in_hand,
           get_or_wait(s, ind[s]),
           tasks' = tasks, loaded'[s] = loaded[s],
           s \in in_hand', ind'[s] = ind[s]
    PROVE  PlaceOf(s)'
  <1>1. /\ ind[s] \in ToSet(array[s])
        /\ IsInjective(array'[s])
        /\ ToSet(array'[s]) = ToSet(array[s]) \ {ind[s]}
    BY TakeArray DEF RunInv, TypeOK, PlaceOf
  <1>2. Numbers(s)' = Numbers(s)
    BY DEF Numbers
  <1>3. ASSUME NEW k \in Numbers(s)
        PROVE  OnlyOne(k \in ToSet(array[s]), Held(s, k),
                       \E t \in tasks : Has(t, s, k))'
    <2>1. OnlyOne(k \in ToSet(array[s]), Held(s, k),
                  \E t \in tasks : Has(t, s, k))
      BY DEF PlaceOf
    <2>2. QED
      BY <1>1, <2>1 DEF OnlyOne, Held, Has
  <1>4. \A t, u \in tasks' : \A k \in Numbers(s)' :
            Has(t, s, k)' /\ Has(u, s, k)' => t = u
    BY <1>2 DEF PlaceOf, Has
  <1>5. QED
    BY <1>1, <1>2, <1>3, <1>4 DEF PlaceOf

\* The batch of side s that run() has goes to the new task.
LEMMA PlaceGiven ==
    ASSUME NEW s \in Sides, PlaceOf(s), s \in in_hand, s \notin in_hand',
           NEW new, tasks' = tasks \cup {new},
           \A k : Has(new, s, k) <=> k = ind[s],
           ind[s] \in Numbers(s),
           array'[s] = array[s], loaded'[s] = loaded[s]
    PROVE  PlaceOf(s)'
  <1>1. Numbers(s)' = Numbers(s)
    BY DEF Numbers
  <1>2. \A t \in tasks : ~Has(t, s, ind[s])
    BY DEF PlaceOf, OnlyOne, Held
  <1>3. ASSUME NEW k \in Numbers(s)
        PROVE  OnlyOne(k \in ToSet(array[s]), Held(s, k),
                       \E t \in tasks : Has(t, s, k))'
    <2>1. OnlyOne(k \in ToSet(array[s]), Held(s, k),
                  \E t \in tasks : Has(t, s, k))
      BY DEF PlaceOf
    <2>2. CASE k = ind[s]
      BY <2>1, <2>2 DEF OnlyOne, Held, Has
    <2>3. CASE k # ind[s]
      BY <2>1, <2>3 DEF OnlyOne, Held, Has
    <2>4. QED
      BY <2>2, <2>3
  <1>4. ASSUME NEW t \in tasks', NEW u \in tasks', NEW k \in Numbers(s),
               Has(t, s, k), Has(u, s, k)
        PROVE  t = u
    BY <1>2, <1>4 DEF PlaceOf
  <1>5. \A v, w \in tasks' : \A k \in Numbers(s)' :
            Has(v, s, k)' /\ Has(w, s, k)' => v = w
    BY <1>1, <1>4 DEF Has
  <1>6. QED
    BY <1>1, <1>3, <1>5 DEF PlaceOf

\* A task goes on with the batch of side s that it has.
LEMMA PlaceReplaced ==
    ASSUME NEW s \in Sides, PlaceOf(s), NEW t \in tasks, NEW u,
           tasks' = (tasks \ {t}) \cup {u},
           \A k : Has(u, s, k) <=> Has(t, s, k),
           array'[s] = array[s], loaded'[s] = loaded[s],
           in_hand' = in_hand, ind' = ind
    PROVE  PlaceOf(s)'
  <1>1. Numbers(s)' = Numbers(s)
    BY DEF Numbers
  <1>2. ASSUME NEW k
        PROVE  (\E v \in tasks' : Has(v, s, k))
                   <=> \E v \in tasks : Has(v, s, k)
    OBVIOUS
  <1>3. ASSUME NEW k \in Numbers(s)
        PROVE  OnlyOne(k \in ToSet(array[s]), Held(s, k),
                       \E v \in tasks : Has(v, s, k))'
    <2>1. OnlyOne(k \in ToSet(array[s]), Held(s, k),
                  \E v \in tasks : Has(v, s, k))
      BY DEF PlaceOf
    <2>2. Held(s, k)' <=> Held(s, k)
      BY DEF Held
    <2>3. (\E v \in tasks : Has(v, s, k))' <=> \E v \in tasks' : Has(v, s, k)
      BY DEF Has
    <2>4. QED
      BY <1>2, <2>1, <2>2, <2>3 DEF OnlyOne
  <1>4. ASSUME NEW v \in tasks', NEW w \in tasks', NEW k \in Numbers(s),
               Has(v, s, k), Has(w, s, k)
        PROVE  v = w
    BY <1>4 DEF PlaceOf
  <1>5. \A v, w \in tasks' : \A k \in Numbers(s)' :
            Has(v, s, k)' /\ Has(w, s, k)' => v = w
    BY <1>1, <1>4 DEF Has
  <1>6. QED
    BY <1>1, <1>3, <1>5 DEF PlaceOf

\* A task ends that has no batch of side s any more.
LEMMA PlaceGone ==
    ASSUME NEW s \in Sides, PlaceOf(s), NEW t \in tasks,
           tasks' = tasks \ {t}, \A k : ~Has(t, s, k),
           array'[s] = array[s], loaded'[s] = loaded[s],
           in_hand' = in_hand, ind' = ind
    PROVE  PlaceOf(s)'
  <1>1. Numbers(s)' = Numbers(s)
    BY DEF Numbers
  <1>2. ASSUME NEW k \in Numbers(s)
        PROVE  OnlyOne(k \in ToSet(array[s]), Held(s, k),
                       \E v \in tasks : Has(v, s, k))'
    <2>1. OnlyOne(k \in ToSet(array[s]), Held(s, k),
                  \E v \in tasks : Has(v, s, k))
      BY DEF PlaceOf
    <2>2. Held(s, k)' <=> Held(s, k)
      BY DEF Held
    <2>3. (\E v \in tasks : Has(v, s, k))' <=> \E v \in tasks : Has(v, s, k)
      <3>1. (\E v \in tasks : Has(v, s, k))' <=> \E v \in tasks' : Has(v, s, k)
        BY DEF Has
      <3>2. QED
        BY <3>1
    <2>4. QED
      BY <2>1, <2>2, <2>3 DEF OnlyOne
  <1>3. \A v, w \in tasks' : \A k \in Numbers(s)' :
            Has(v, s, k)' /\ Has(w, s, k)' => v = w
    BY <1>1 DEF PlaceOf, Has
  <1>4. QED
    BY <1>1, <1>2, <1>3 DEF PlaceOf

\* A task puts the batch of side s back.
LEMMA PlaceReturned ==
    ASSUME NEW s \in Sides, PlaceOf(s), NEW t \in tasks, NEW b \in Numbers(s),
           array[s] \in Seq(Numbers(s)),
           \A k : Has(t, s, k) <=> k = b,
           \/ tasks' = tasks \ {t}
           \/ \E u : /\ tasks' = (tasks \ {t}) \cup {u}
                     /\ \A k : ~Has(u, s, k),
           array'[s] = Append(array[s], b), loaded'[s] = loaded[s],
           in_hand' = in_hand, ind' = ind
    PROVE  PlaceOf(s)'
  <1>1. Numbers(s)' = Numbers(s)
    BY DEF Numbers
  <1>2. b \notin ToSet(array[s])
    BY DEF PlaceOf, OnlyOne
  <1>3. /\ IsInjective(array'[s])
        /\ ToSet(array'[s]) = ToSet(array[s]) \cup {b}
    BY <1>2, AppendQueue DEF PlaceOf
  <1>4. ASSUME NEW k
        PROVE  /\ k # b => ((\E v \in tasks' : Has(v, s, k))
                              <=> \E v \in tasks : Has(v, s, k))
               /\ \A v \in tasks' : Has(v, s, k) => v \in tasks \ {t}
    OBVIOUS
  <1>5. \A v \in tasks' : ~Has(v, s, b)
    BY <1>4 DEF PlaceOf
  <1>6. ASSUME NEW k \in Numbers(s)
        PROVE  OnlyOne(k \in ToSet(array[s]), Held(s, k),
                       \E v \in tasks : Has(v, s, k))'
    <2>1. OnlyOne(k \in ToSet(array[s]), Held(s, k),
                  \E v \in tasks : Has(v, s, k))
      BY DEF PlaceOf
    <2>2. Held(s, k)' <=> Held(s, k)
      BY DEF Held
    <2>3. (\E v \in tasks : Has(v, s, k))' <=> \E v \in tasks' : Has(v, s, k)
      BY DEF Has
    <2>4. CASE k = b
      BY <1>3, <1>5, <2>1, <2>2, <2>3, <2>4 DEF OnlyOne
    <2>5. CASE k # b
      BY <1>3, <1>4, <2>1, <2>2, <2>3, <2>5 DEF OnlyOne
    <2>6. QED
      BY <2>4, <2>5
  <1>7. ASSUME NEW v \in tasks', NEW w \in tasks', NEW k \in Numbers(s),
               Has(v, s, k), Has(w, s, k)
        PROVE  v = w
    BY <1>4, <1>7 DEF PlaceOf
  <1>8. \A v, w \in tasks' : \A k \in Numbers(s)' :
            Has(v, s, k)' /\ Has(w, s, k)' => v = w
    BY <1>1, <1>7 DEF Has
  <1>9. QED
    BY <1>1, <1>3, <1>6, <1>8 DEF PlaceOf

\* A step of run(), side by side.
LEMMA PlaceRun ==
    ASSUME RunInv, TaskInv, Run, Calm', NEW s \in Sides, PlaceOf(s)
    PROVE  PlaceOf(s)'
  <1>1. /\ array \in [Sides -> Seq(Indexes)]
        /\ loaded \in [Sides -> 0 .. MaxBatches]
        /\ ind \in [Sides -> Indexes \cup {-1}]
        /\ in_hand \subseteq Sides
    BY DEF RunInv, TypeOK
  <1>2. CASE load_first
    <2>1. pc = "first" /\ in_hand = {} /\ loaded[s] = 0
      BY <1>2 DEF RunInv, HandInv, BegunInv, load_first
    <2>2. tasks' = tasks /\ array' = array
      BY <1>2 DEF load_first, runUnchanged
    <2>3. CASE /\ loaded' = [r \in Sides |-> 1]
               /\ ind' = [r \in Sides |-> 0]
               /\ in_hand' = Sides
      <3>1. loaded'[s] = loaded[s] + 1 /\ ind'[s] = loaded[s] /\ s \in in_hand'
        BY <2>1, <2>3
      <3>2. QED
        BY <2>1, <2>2, <3>1, PlaceLoaded
    <2>4. CASE UNCHANGED <<loaded, ind, in_hand>>
      BY <2>2, <2>4, PlaceSame
    <2>5. QED
      BY <1>2, <2>3, <2>4 DEF load_first
  <1>3. CASE check_left
    BY <1>3, PlaceSame DEF check_left, runUnchanged
  <1>4. CASE check_right
    <2>1. in_hand = {}
      BY <1>4 DEF RunInv, HandInv, check_right
    <2>2. UNCHANGED <<tasks, array, loaded, in_hand>>
      BY <1>4 DEF check_right, runUnchanged
    <2>3. QED
      BY <2>1, <2>2, PlaceSame
  <1>5. ASSUME NEW r \in Sides, NEW here, NEW next, load(r, here, next),
               r \notin in_hand
        PROVE  PlaceOf(s)'
    <2>1. tasks' = tasks /\ array' = array
      BY <1>5 DEF load, runUnchanged
    <2>2. CASE /\ ind' = [ind EXCEPT ![r] = loaded[r]]
               /\ loaded' = [loaded EXCEPT ![r] = @ + 1]
               /\ in_hand' = in_hand \cup {r}
      <3>1. CASE s = r
        <4>1. /\ loaded'[s] = loaded[s] + 1
              /\ ind'[s] = loaded[s]
              /\ s \in in_hand'
              /\ s \notin in_hand
          BY <1>1, <1>5, <2>2, <3>1
        <4>2. QED
          BY <2>1, <4>1, PlaceLoaded
      <3>2. CASE s # r
        <4>1. /\ loaded'[s] = loaded[s]
              /\ ind'[s] = ind[s]
              /\ s \in in_hand' <=> s \in in_hand
          BY <1>1, <1>5, <2>2, <3>2
        <4>2. QED
          BY <2>1, <4>1, PlaceSame
      <3>3. QED
        BY <3>1, <3>2
    <2>3. CASE UNCHANGED <<ind, loaded, in_hand>>
      BY <2>1, <2>3, PlaceSame
    <2>4. QED
      BY <1>5, <2>2, <2>3 DEF load
  <1>6. CASE load("left", "load_left", "load_right")
    <2>1. "left" \notin in_hand /\ "left" \in Sides
      BY <1>6 DEF RunInv, HandInv, load, Sides
    <2>2. QED
      BY <1>5, <1>6, <2>1
  <1>7. CASE load("right", "load_right", "pair")
    <2>1. "right" \notin in_hand /\ "right" \in Sides
      BY <1>7 DEF RunInv, HandInv, load, Sides
    <2>2. QED
      BY <1>5, <1>7, <2>1
  <1>8. CASE pair
    <2>1. UNCHANGED <<tasks, array, loaded, in_hand>>
      BY <1>8 DEF pair, runUnchanged
    <2>2. s \in in_hand => ind'[s] = ind[s]
      BY <1>1, <1>8 DEF pair, Sides
    <2>3. QED
      BY <2>1, <2>2, PlaceSame
  <1>9. ASSUME NEW r \in Sides, NEW here, take(r, here), r \notin in_hand
        PROVE  PlaceOf(s)'
    <2>1. /\ UNCHANGED <<tasks, loaded, ind>>
          /\ in_hand' = in_hand \cup {r}
          /\ get_or_wait(r, ind[r])
      BY <1>9 DEF take, runUnchanged
    <2>2. CASE s = r
      BY <1>9, <2>1, <2>2, PlaceTaken
    <2>3. CASE s # r
      <3>1. array'[s] = array[s]
        BY <1>1, <2>1, <2>3, TakeArray
      <3>2. QED
        BY <2>1, <2>3, <3>1, PlaceSame
    <2>4. QED
      BY <2>2, <2>3
  <1>10. CASE take("left", "take_left")
    <2>1. "left" \notin in_hand /\ "left" \in Sides
      BY <1>10 DEF RunInv, HandInv, take, Sides
    <2>2. QED
      BY <1>9, <1>10, <2>1
  <1>11. CASE take("right", "take_right")
    <2>1. "right" \notin in_hand /\ "right" \in Sides
      BY <1>11 DEF RunInv, HandInv, take, Sides
    <2>2. QED
      BY <1>9, <1>11, <2>1
  <1>12. CASE add_task
    <2> DEFINE p == <<ind["left"], ind["right"]>>
               new == [pair |-> p, stage |-> "join", attempts |-> 0]
    <2>1. /\ tasks' = tasks \cup {new}
          /\ in_hand' = {}
          /\ UNCHANGED <<loaded, array>>
          /\ pc = "add"
      BY <1>12 DEF add_task
    <2>2. in_hand = Sides /\ p \in LoadedPairs
      BY <2>1 DEF RunInv, HandInv, ChosenInv
    <2>3. /\ new.pair = p /\ new.stage # "put_right"
          /\ p[IF s = "left" THEN 1 ELSE 2] = ind[s]
      BY DEF Sides
    <2> HIDE DEF new
    <2>4. \A k : Has(new, s, k) <=> k = ind[s]
      BY <2>3 DEF Has
    <2>5. ind[s] \in Numbers(s)
      BY <2>2 DEF LoadedPairs, Sides
    <2>6. QED
      BY <2>1, <2>2, <2>4, <2>5, PlaceGiven
  <1>13. CASE finish
    <2>1. UNCHANGED <<tasks, array, loaded, in_hand, ind>>
      BY <1>13 DEF finish, runUnchanged, Calm
    <2>2. QED
      BY <2>1, PlaceSame
  <1>14. QED
    BY <1>2, <1>3, <1>4, <1>6, <1>7, <1>8, <1>10, <1>11, <1>12, <1>13 DEF Run

\* A step of a task.
LEMMA PlaceProcess ==
    ASSUME RunInv, TaskInv, Calm', NEW t \in tasks, Process(t) \/ exception(t),
           NEW s \in Sides, PlaceOf(s)
    PROVE  PlaceOf(s)'
  <1>1. /\ UNCHANGED <<loaded, in_hand, ind>>
        /\ array \in [Sides -> Seq(Indexes)]
        /\ array[s] \in Seq(Numbers(s))
    BY DEF Process, join_set, put_left, put_right, exception, taskUnchanged,
       runVars, RunInv, TypeOK, KnownInv
  <1>2. /\ t \in TaskType
        /\ t.pair[1] \in Numbers("left")
        /\ t.pair[2] \in Numbers("right")
    BY DEF RunInv, TypeOK, TaskType, TaskInv, KnownInv, LoadedPairs
  \* The task goes from one stage to another and has the batch in both.
  <1>3. ASSUME NEW u, u.pair = t.pair, array'[s] = array[s],
               tasks' = (tasks \ {t}) \cup {u},
               s = "left" => (u.stage = "put_right" <=> t.stage = "put_right")
        PROVE  PlaceOf(s)'
    <2>1. \A k : Has(u, s, k) <=> Has(t, s, k)
      BY <1>3 DEF Has
    <2>2. QED
      BY <1>1, <1>3, <2>1, PlaceReplaced
  <1>4. CASE join_set(t)
    <2> DEFINE u == [t EXCEPT !.stage = "put_left"]
    <2>1. /\ tasks' = (tasks \ {t}) \cup {u} /\ array' = array
          /\ t.stage = "join"
      BY <1>4 DEF join_set
    <2>2. u.pair = t.pair /\ u.stage = "put_left"
      BY <1>2 DEF TaskType
    <2> HIDE DEF u
    <2>3. QED
      BY <1>3, <2>1, <2>2
  <1>5. CASE put_left(t)
    <2> DEFINE u == [t EXCEPT !.stage = "put_right"]
    <2>1. /\ tasks' = (tasks \ {t}) \cup {u}
          /\ array' = [array EXCEPT !["left"] = Append(@, t.pair[1])]
          /\ t.stage = "put_left"
      BY <1>5 DEF put_left
    <2>2. u.pair = t.pair /\ u.stage = "put_right"
      BY <1>2 DEF TaskType
    <2> HIDE DEF u
    <2>3. CASE s = "left"
      <3>1. array'[s] = Append(array[s], t.pair[1])
        BY <1>1, <2>1, <2>3
      <3>2. /\ \A k : Has(t, s, k) <=> k = t.pair[1]
            /\ \A k : ~Has(u, s, k)
        BY <2>1, <2>2, <2>3 DEF Has
      <3>3. QED
        BY <1>1, <1>2, <2>1, <2>3, <3>1, <3>2, PlaceReturned
    <2>4. CASE s = "right"
      <3>1. array'[s] = array[s]
        BY <1>1, <2>1, <2>4
      <3>2. QED
        BY <1>3, <2>1, <2>2, <2>4, <3>1
    <2>5. QED
      BY <2>3, <2>4 DEF Sides
  <1>6. CASE put_right(t)
    <2>1. /\ tasks' = tasks \ {t}
          /\ array' = [array EXCEPT !["right"] = Append(@, t.pair[2])]
          /\ t.stage = "put_right"
      BY <1>6 DEF put_right
    <2>2. CASE s = "right"
      <3>1. array'[s] = Append(array[s], t.pair[2])
        BY <1>1, <2>1, <2>2
      <3>2. \A k : Has(t, s, k) <=> k = t.pair[2]
        BY <2>2 DEF Has
      <3>3. QED
        BY <1>1, <1>2, <2>1, <2>2, <3>1, <3>2, PlaceReturned
    <2>3. CASE s = "left"
      <3>1. array'[s] = array[s]
        BY <1>1, <2>1, <2>3
      <3>2. \A k : ~Has(t, s, k)
        BY <2>1, <2>3 DEF Has
      <3>3. QED
        BY <1>1, <2>1, <3>1, <3>2, PlaceGone
    <2>4. QED
      BY <2>2, <2>3 DEF Sides
  <1>7. CASE exception(t)
    <2>1. array' = array
      BY <1>7 DEF exception
    <2>2. ~throw(t)
      BY DEF throw, Calm
    <2>3. rerun(t) /\ t.stage = "join"
      BY <1>7, <2>2 DEF exception, Calm
    <2> DEFINE u == [t EXCEPT !.stage = "join", !.attempts = @ + 1]
    <2>4. tasks' = (tasks \ {t}) \cup {u}
      BY <2>3 DEF rerun
    <2>5. u.pair = t.pair /\ u.stage = "join"
      BY <1>2 DEF TaskType
    <2> HIDE DEF u
    <2>6. QED
      BY <1>3, <2>1, <2>3, <2>4, <2>5
  <1>8. QED
    BY <1>4, <1>5, <1>6, <1>7 DEF Process

\* A step that leads to a calm state starts in one.
LEMMA CalmBefore ==
    ASSUME Next, Calm'
    PROVE  Calm
  <1>1. CASE \E s \in Sides : arrive(s) \/ close(s)
    BY <1>1 DEF arrive, close, runVars, faultVars, Calm
  <1>2. CASE Run
    <2>1. pc # "done"
      BY <1>2 DEF Run, load_first, check_left, check_right, load, pair, take,
         add_task, finish
    <2>2. UNCHANGED faultVars
      BY <1>2 DEF Run, load_first, check_left, check_right, load, pair, take,
         add_task, finish, runUnchanged
    <2>3. QED
      BY <2>1, <2>2 DEF faultVars, Calm
  <1>3. CASE \E t \in tasks : Process(t)
    BY <1>3 DEF Process, join_set, put_left, put_right, taskUnchanged,
       runVars, faultVars, Calm
  <1>4. CASE \E t \in tasks : exception(t)
    BY <1>4 DEF exception, rerun, throw, taskUnchanged, runVars, Calm
  <1>5. CASE other_throws
    BY <1>5 DEF other_throws, Calm
  <1>6. QED
    BY <1>1, <1>2, <1>3, <1>4, <1>5 DEF Next

\* The batches stay where they should be.
LEMMA PlaceStep == JoinInv /\ PlaceInv /\ [Next]_vars => PlaceInv'
  <1> SUFFICES ASSUME JoinInv, PlaceInv, [Next]_vars, Calm', NEW s \in Sides
               PROVE  PlaceOf(s)'
    BY DEF PlaceInv
  <1>1. RunInv /\ TaskInv
    BY DEF JoinInv
  <1>2. CASE UNCHANGED vars
    <2>1. UNCHANGED <<pc, failed, reput, tasks, array, loaded, in_hand, ind>>
      BY <1>2 DEF vars, runVars, faultVars
    <2>2. PlaceOf(s)
      BY <2>1 DEF PlaceInv, Calm
    <2>3. QED
      BY <2>1, <2>2, PlaceSame
  <1>3. CASE Next
    <2>1. PlaceOf(s)
      BY <1>3, CalmBefore DEF PlaceInv
    <2>2. CASE \E r \in Sides : arrive(r) \/ close(r)
      <3>1. UNCHANGED <<tasks, array, loaded, in_hand, ind>>
        BY <2>2 DEF arrive, close, runVars
      <3>2. QED
        BY <2>1, <3>1, PlaceSame
    <2>3. CASE Run
      BY <1>1, <2>1, <2>3, PlaceRun
    <2>4. CASE \E t \in tasks : Process(t) \/ exception(t)
      BY <1>1, <2>1, <2>4, PlaceProcess
    <2>5. CASE other_throws
      BY <2>5 DEF other_throws, Calm
    <2>6. QED
      BY <1>3, <2>2, <2>3, <2>4, <2>5 DEF Next
  <1>4. QED
    BY <1>2, <1>3

\* How many of the things of a kind there are, when there is at most one.
LEMMA CountsOne ==
    ASSUME NEW S
    PROVE  /\ (\E x : S = {x}) => Cardinality(S) = 1
           /\ S = {} => Cardinality(S) = 0
  BY FS_Singleton, FS_EmptySet

\* A batch that was loaded is once in its array cache, in run()'s hands or with
\* a task, as long as no task was rerun after its output or has failed: what
\* run() waits for in get_or_wait comes back.
THEOREM JoinKeepsBatches == Spec => []BatchInOnePlace
  <1>1. RunInv /\ PlaceInv => BatchInOnePlace
    <2> SUFFICES ASSUME RunInv, PlaceInv, Calm,
                        NEW s \in Sides, NEW k \in 0 .. loaded[s] - 1
                 PROVE  Places(s, k) = 1
      BY DEF BatchInOnePlace, Calm
    <2> DEFINE A == {i \in DOMAIN array[s] : array[s][i] = k}
               T == {t \in tasks : t.pair[IF s = "left" THEN 1 ELSE 2] = k
                                   /\ ~(s = "left" /\ t.stage = "put_right")}
    <2>1. PlaceOf(s) /\ k \in Numbers(s)
      BY DEF PlaceInv, Numbers
    <2>2. OnlyOne(k \in ToSet(array[s]), Held(s, k),
                  \E t \in tasks : Has(t, s, k))
      BY <2>1 DEF PlaceOf
    <2>3. T = {t \in tasks : Has(t, s, k)}
      BY DEF Has
    <2>4. k \in ToSet(array[s]) => \E i : A = {i}
      <3> HAVE k \in ToSet(array[s])
      <3>1. PICK i \in DOMAIN array[s] : array[s][i] = k
        BY DEF ToSet
      <3>2. A = {i}
        BY <2>1, <3>1 DEF PlaceOf, IsInjective
      <3>3. QED
        BY <3>2
    <2>5. k \notin ToSet(array[s]) => A = {}
      BY DEF ToSet
    <2>6. (\E t \in tasks : Has(t, s, k)) => \E t : T = {t}
      <3> HAVE \E t \in tasks : Has(t, s, k)
      <3>1. PICK t \in tasks : Has(t, s, k)
        OBVIOUS
      <3>2. T = {t}
        BY <2>1, <2>3, <3>1 DEF PlaceOf
      <3>3. QED
        BY <3>2
    <2>7. ~(\E t \in tasks : Has(t, s, k)) => T = {}
      BY <2>3
    <2>8. Places(s, k) = Cardinality(A) + (IF Held(s, k) THEN 1 ELSE 0)
                         + Cardinality(T)
      BY DEF Places, Held
    <2> HIDE DEF A, T
    <2>9. /\ Cardinality(A) = IF k \in ToSet(array[s]) THEN 1 ELSE 0
          /\ Cardinality(T) = IF \E t \in tasks : Has(t, s, k) THEN 1 ELSE 0
      BY <2>4, <2>5, <2>6, <2>7, CountsOne
    <2>10. QED
      BY <2>2, <2>8, <2>9 DEF OnlyOne
  <1>2. Init => PlaceInv
    BY PlaceInit
  <1>3. JoinInv => RunInv
    BY DEF JoinInv
  <1>4. QED
    BY <1>1, <1>2, <1>3, JoinInvariant, PlaceStep, PTL DEF Spec
=============================================================================
