-------------------------- MODULE CacheMachineProofs --------------------------
(***************************************************************************)
(* Machine-checked proofs about CacheMachine, for every set of producers,  *)
(* every kind of cache and of consumer, every input and choice of tiers,   *)
(* as given by the constant Settings.                                      *)
(*                                                                         *)
(* wait_for_next and pullFromCache are two critical sections.  That the    *)
(* second finds what the first saw is an argument about everyone else: no  *)
(* other thread pops, the monitor keeps the messages while it holds the    *)
(* mutex, and only its exception empties the queue.                        *)
(*                                                                         *)
(* A cache keeps its batches: each is in one place at a time, and what the *)
(* kernel sees is a FIFO channel, a step of the cache being a step of the  *)
(* channel or none.  The weight of a concatenated table and the number of  *)
(* rows at the end are totals over sequences, followed step by step.       *)
(***************************************************************************)
EXTENDS CacheMachine, QueueTheorems, FiniteSetTheorems

-----------------------------------------------------------------------------
(* Type correctness. *)

\* What TypeOK needs to be inductive: a producer inside an add has a batch.
InHand ==
    \A p \in Producers :
        add_pc[p] \in {"place", "write", "mark"} => todo[p] # <<>>

TypeInv == TypeOK /\ InHand

\* What the configuration of a cache gives the actions.
LEMMA SettingTypes ==
    ASSUME setting \in Settings
    PROVE  /\ Input \in [Producers -> Seq(Batches)]
           /\ Rows \in [Batches -> Nat]
           /\ Entry \in [Producers -> Entries]
  BY CacheAssumption DEF SettingType, Input, Rows, Entry

\* The batches of a sequence of messages.
LEMMA BatchesOfType ==
    ASSUME NEW s \in Seq(Messages)
    PROVE  BatchesOf(s) \in Seq(Batches)
  <1>1. Len(s) \in Nat
    BY LenProperties
  <1>2. ASSUME NEW i \in 1 .. Len(s) PROVE s[i].batch \in Batches
    <2>1. s[i] \in Messages
      BY ElementOfSeq
    <2>2. QED
      BY <2>1 DEF Messages
  <1>3. QED
    BY <1>1, <1>2, IsASeq DEF BatchesOf

\* Total(Size, .) of no messages is 0: wait_until_num_bytes on an empty queue.
LEMMA NothingWeighs == Bytes(<<>>) = 0
  <1>1. BatchesOf(<<>>) = <<>>
    BY DEF BatchesOf
  <1>2. Total(Size, <<>>) = 0
    BY CacheAssumption, TotalEmpty
  <1>3. QED
    BY <1>1, <1>2 DEF Bytes

\* Moving a message to another tier keeps the sequence of messages one.
LEMMA MoveType ==
    ASSUME NEW s \in Seq(Messages), NEW i \in 1 .. Len(s),
           NEW tier \in {"GPU", "CPU", "FILE"}
    PROVE  /\ [s EXCEPT ![i].tier = tier] \in Seq(Messages)
           /\ Len([s EXCEPT ![i].tier = tier]) = Len(s)
  <1>1. s[i] \in Messages
    BY ElementOfSeq
  <1>2. [s[i] EXCEPT !.tier = tier] \in Messages
    BY <1>1 DEF Messages
  <1>3. QED
    BY <1>2, ExceptSeq

\* Taking a message out leaves a sequence of messages.
LEMMA RemoveAtType ==
    ASSUME NEW S, NEW s \in Seq(S), NEW i \in 1 .. Len(s)
    PROVE  RemoveAt(s, i) \in Seq(S)
  <1>1. Len(s) \in Nat
    BY LenProperties
  <1>2. SubSeq(s, 1, i - 1) \in Seq(S) /\ SubSeq(s, i + 1, Len(s)) \in Seq(S)
    BY <1>1, SubSeqProperties
  <1>3. QED
    BY <1>2, ConcatProperties DEF RemoveAt

\* The types hold at the start.
LEMMA TypeInit == Init => TypeInv
  <1> SUFFICES ASSUME Init PROVE TypeInv
    OBVIOUS
  <1>1. /\ written \in [Writers -> BOOLEAN]
        /\ attempts \in [Writers -> 0 .. attempts_limit]
    BY CacheAssumption DEF Init
  <1>2. /\ message_queue \in Seq(Messages) /\ collected \in Seq(Messages)
        /\ delivered \in Seq(Seq(Batches)) /\ taken \in Seq(Batches)
        /\ recounted \in Seq(Batches)
    BY EmptySeq DEF Init
  <1>3. pull_pc \in PullPcs /\ add_pc \in [Producers -> AddPcs] /\ InHand
    BY DEF Init, PullPcs, AddPcs, InHand
  <1>4. QED
    BY <1>1, <1>2, <1>3, SettingTypes DEF Init, TypeInv, TypeOK

\* A step of a producer keeps them.
LEMMA TypeProduce ==
    ASSUME TypeInv, NEW p \in Producers, Produce(p)
    PROVE  TypeInv'
  <1> USE CacheAssumption DEF TypeInv, TypeOK, InHand, AddPcs, Writers,
          queueVars, addVars, fileVars, pullVars, monitorVars, endVars
  <1>0. todo[p] \in Seq(Batches)
    OBVIOUS
  <1>1. ASSUME todo[p] # <<>>
        PROVE  Head(todo[p]) \in Batches /\ Tail(todo[p]) \in Seq(Batches)
    BY <1>0, <1>1, HeadTailProperties
  <1>2. CASE add(p)
    <2>1. todo[p] # <<>>
      BY <1>2 DEF add
    <2>2. num_rows_added' \in Nat
      <3>1. \/ num_rows_added' = num_rows_added + Rows[Head(todo[p])]
            \/ num_rows_added' = num_rows_added
        BY <1>2 DEF add
      <3>2. Rows[Head(todo[p])] \in Nat
        BY <1>1, <2>1, SettingTypes
      <3>3. QED
        BY <3>1, <3>2
    <2>3. todo' \in [Producers -> Seq(Batches)] /\ skipped' \subseteq Batches
      <3>1. todo' = todo \/ todo' = [todo EXCEPT ![p] = Tail(@)]
        BY <1>2 DEF add
      <3>2. skipped' = skipped \/ skipped' = skipped \cup {Head(todo[p])}
        BY <1>2 DEF add
      <3>3. Head(todo[p]) \in Batches /\ Tail(todo[p]) \in Seq(Batches)
        BY <1>1, <2>1
      <3>4. todo' \in [Producers -> Seq(Batches)]
        BY <3>1, <3>3
      <3>5. QED
        BY <3>2, <3>3, <3>4
    <2>4. add_pc' \in [Producers -> AddPcs] /\ InHand'
      BY <1>2, <2>1 DEF add
    <2>5. QED
      BY <1>2, <2>2, <2>3, <2>4 DEF add
  <1>3. CASE add_put(p)
    <2>1. todo[p] # <<>>
      BY <1>3 DEF add_put
    <2>2. PICK tier \in put_tiers(p) :
              put([batch |-> Head(todo[p]), tier |-> tier])
      BY <1>3 DEF add_put
    <2>3. tier \in {"GPU", "CPU", "FILE"}
      BY <2>2, SettingTypes DEF put_tiers, Entries
    <2>4. [batch |-> Head(todo[p]), tier |-> tier] \in Messages
      BY <1>1, <2>1, <2>3 DEF Messages
    <2>5. message_queue' \in Seq(Messages) /\ processed' \in Nat
      BY <2>2, <2>4, AppendProperties DEF put
    <2>6. QED
      BY <1>3, <2>1, <2>5 DEF add_put
  <1>4. CASE add_to_disk(p)
    BY <1>4 DEF add_to_disk
  <1>5. CASE add_nowhere(p)
    <2>1. todo[p] # <<>>
      BY <1>5 DEF add_nowhere
    <2>2. QED
      BY <1>1, <1>5, <2>1 DEF add_nowhere
  <1>6. CASE add_mark(p)
    <2>1. todo[p] # <<>>
      BY <1>6 DEF add_mark
    <2>2. todo' \in [Producers -> Seq(Batches)]
      BY <1>1, <1>6, <2>1 DEF add_mark
    <2>3. QED
      BY <1>6, <2>2 DEF add_mark
  <1>7. QED
    BY <1>2, <1>3, <1>4, <1>5, <1>6 DEF Produce

\* An attempt to write a file keeps them.
LEMMA TypeWrite ==
    ASSUME TypeInv, NEW w \in Writers, write_orc(w) \/ write_orc_fails(w)
    PROVE  TypeInv'
  <1> USE CacheAssumption DEF TypeInv, TypeOK, InHand,
          queueVars, addVars, fileVars, pullVars, monitorVars, endVars
  <1>1. CASE write_orc(w)
    BY <1>1 DEF write_orc
  <1>2. CASE write_orc_fails(w)
    <2>1. attempts' \in [Writers -> 0 .. attempts_limit]
      BY <1>2 DEF write_orc_fails
    <2>2. QED
      BY <1>2, <2>1 DEF write_orc_fails
  <1>3. QED
    BY <1>1, <1>2

\* So does an add that throws with its rows counted.
LEMMA TypeAddThrows ==
    ASSUME TypeInv, NEW p \in Producers, add_throws(p)
    PROVE  TypeInv'
  <1> USE CacheAssumption DEF TypeInv, TypeOK, InHand, AddPcs,
          queueVars, addVars, fileVars, pullVars, monitorVars, endVars
  <1>1. add_pc[p] = "place" /\ todo[p] # <<>>
    BY DEF add_throws
  <1>2. Head(todo[p]) \in Batches
    BY <1>1, HeadTailProperties
  <1>3. recounted' \in Seq(Batches)
    BY <1>2, AppendProperties DEF add_throws
  <1>4. add_pc' \in [Producers -> AddPcs] /\ lost' \subseteq Batches /\ InHand'
    BY <1>2 DEF add_throws
  <1>5. QED
    BY <1>3, <1>4 DEF add_throws

\* So does the last attempt, when it fails.
LEMMA TypeThrow ==
    ASSUME TypeInv, NEW p \in Producers, write_orc_throws(p), p # "monitor"
    PROVE  TypeInv'
  <1> USE CacheAssumption DEF TypeInv, TypeOK, InHand, AddPcs,
          queueVars, addVars, fileVars, pullVars, monitorVars, endVars
  <1>1. add_pc[p] = "write" /\ todo[p] # <<>>
    BY DEF write_orc_throws, Writing
  <1>2. Head(todo[p]) \in Batches
    BY <1>1, HeadTailProperties
  <1>3. QED
    BY <1>2 DEF write_orc_throws

\* So does the end of the producing kernel.
LEMMA TypeFinish ==
    ASSUME TypeInv, finish \/ finish_aborted
    PROVE  TypeInv'
  BY DEF TypeInv, TypeOK, InHand, finish, finish_aborted, queueVars, addVars,
         fileVars, pullVars, monitorVars, endVars

\* A step of the consumer keeps them.
LEMMA TypeConsume ==
    ASSUME TypeInv, Consume
    PROVE  TypeInv'
  <1> USE CacheAssumption DEF TypeInv, TypeOK, InHand, PullPcs, queueVars,
          addVars, fileVars, pullVars, monitorVars, endVars, consumerUnchanged
  <1>0. NextPull \in PullPcs /\ AfterNull \in PullPcs
    BY DEF NextPull, AfterNull
  <1>1. ASSUME pop
        PROVE  /\ message_queue' \in Seq(Messages)
               /\ Head(message_queue) \in Messages
               /\ Head(message_queue).batch \in Batches
               /\ processed' = processed
    <2>1. /\ message_queue # <<>>
          /\ message_queue' = Tail(message_queue)
          /\ processed' = processed
      BY <1>1 DEF pop
    <2>2. Head(message_queue) \in Messages /\ message_queue' \in Seq(Messages)
      BY <2>1, HeadTailProperties
    <2>3. QED
      BY <2>1, <2>2 DEF Messages
  <1>2. ASSUME NEW g \in Seq(Batches), deliver(g)
        PROVE  delivered' \in Seq(Seq(Batches)) /\ taken' \in Seq(Batches)
    BY <1>2, AppendProperties, ConcatProperties DEF deliver
  <1>3. CASE wait_for_next
    BY <1>3 DEF wait_for_next
  <1>4. CASE pull_message
    <2>1. pop
      BY <1>4 DEF pull_message
    <2>2. <<Head(message_queue).batch>> \in Seq(Batches)
      BY <1>1, <2>1
    <2>3. delivered' \in Seq(Seq(Batches)) /\ taken' \in Seq(Batches)
      BY <1>4, <1>2, <2>2 DEF pull_message
    <2>4. QED
      BY <1>0, <1>1, <1>4, <2>1, <2>3 DEF pull_message
  <1>5. CASE pull_null
    BY <1>5 DEF pull_null, pop_null
  <1>6. CASE pullUnorderedFromCache
    <2>1. CASE UNCHANGED <<message_queue, delivered, taken>>
      BY <1>6, <2>1 DEF pullUnorderedFromCache
    <2>2. ASSUME NEW i \in DOMAIN message_queue,
                 deliver(<<message_queue[i].batch>>),
                 message_queue' = RemoveAt(message_queue, i)
          PROVE  TypeInv'
      <3>1. i \in 1 .. Len(message_queue) /\ message_queue[i] \in Messages
        BY <2>2, ElementOfSeq, LenProperties
      <3>2. message_queue' \in Seq(Messages)
        BY <2>2, <3>1, RemoveAtType
      <3>3. <<message_queue[i].batch>> \in Seq(Batches)
        BY <3>1 DEF Messages
      <3>4. delivered' \in Seq(Seq(Batches)) /\ taken' \in Seq(Batches)
        BY <1>2, <2>2, <3>3
      <3>5. QED
        BY <1>6, <3>2, <3>4 DEF pullUnorderedFromCache
    <2>3. QED
      BY <1>6, <2>1, <2>2 DEF pullUnorderedFromCache
  <1>7. CASE wait_to_concat
    BY <1>7 DEF wait_to_concat
  <1>8. CASE has_next_now
    BY <1>8 DEF has_next_now
  <1>9. CASE collect
    <2>1. pop
      BY <1>9 DEF collect
    <2>2. collected' \in Seq(Messages)
      BY <1>1, <1>9, <2>1, AppendProperties DEF collect
    <2>3. QED
      BY <1>1, <1>9, <2>1, <2>2 DEF collect
  <1>10. CASE collect_null
    BY <1>10 DEF collect_null, pop_null
  <1>11. CASE size_check
    BY <1>11 DEF size_check
  <1>12. CASE release_null
    BY <1>0, <1>12 DEF release_null
  <1>13. CASE release_all
    <2>1. delivered' \in Seq(Seq(Batches)) /\ taken' \in Seq(Batches)
      BY <1>13, <1>2, BatchesOfType DEF release_all
    <2>2. QED
      BY <1>0, <1>13, <2>1, EmptySeq DEF release_all
  <1>14. CASE release_some
    <2>1. PICK i \in 2 .. Len(collected) :
              /\ deliver(BatchesOf(SubSeq(collected, 1, i - 1)))
              /\ collected' = [SubSeq(collected, i, Len(collected))
                                  EXCEPT ![1].tier = "GPU"]
      BY <1>14 DEF release_some
    <2>2. Len(collected) \in Nat
      BY LenProperties
    <2>3. i \in Nat /\ i - 1 \in Nat /\ 2 <= i /\ i <= Len(collected)
      BY <2>2
    <2>4. /\ SubSeq(collected, 1, i - 1) \in Seq(Messages)
          /\ SubSeq(collected, i, Len(collected)) \in Seq(Messages)
          /\ 1 \in 1 .. Len(SubSeq(collected, i, Len(collected)))
      <3>1. SubSeq(collected, 1, i - 1) \in Seq(Messages)
        BY <2>2, <2>3, Piece
      <3>2. /\ SubSeq(collected, i, Len(collected)) \in Seq(Messages)
            /\ Len(SubSeq(collected, i, Len(collected)))
                  = Len(collected) - i + 1
        BY <2>2, <2>3, Piece
      <3>3. QED
        BY <2>2, <2>3, <3>1, <3>2
    <2>5. collected' \in Seq(Messages)
      BY <2>1, <2>4, MoveType
    <2>6. delivered' \in Seq(Seq(Batches)) /\ taken' \in Seq(Batches)
      BY <1>2, <2>1, <2>4, BatchesOfType
    <2>7. QED
      BY <1>14, <2>5, <2>6 DEF release_some
  <1>15. CASE put_back
    <2>1. CASE collected # <<>>
      <3>1. Head(collected) \in Messages /\ Tail(collected) \in Seq(Messages)
        BY <2>1, HeadTailProperties
      <3>2. /\ message_queue' = Append(message_queue, Head(collected))
            /\ processed' = processed + 1
            /\ collected' = Tail(collected)
        BY <1>15, <2>1 DEF put_back, put
      <3>3. message_queue' \in Seq(Messages)
        BY <3>1, <3>2, AppendProperties
      <3>4. QED
        BY <1>15, <2>1, <3>1, <3>2, <3>3 DEF put_back
    <2>2. CASE collected = <<>>
      BY <1>0, <1>15, <2>2 DEF put_back
    <2>3. QED
      BY <2>1, <2>2
  <1>16. QED
    BY <1>3, <1>4, <1>5, <1>6, <1>7, <1>8, <1>9, <1>10, <1>11, <1>12, <1>13,
       <1>14, <1>15 DEF Consume

\* A step of the monitor keeps them.
LEMMA TypeDowngrade ==
    ASSUME TypeInv, Downgrade
    PROVE  TypeInv'
  <1> USE CacheAssumption DEF TypeInv, TypeOK, InHand, queueVars,
          addVars, fileVars, pullVars, monitorVars, endVars, monitorUnchanged
  <1>0. ASSUME NEW i \in DOMAIN message_queue
        PROVE  /\ i \in 1 .. Len(message_queue)
               /\ Size[message_queue[i].batch] \in Nat
    <2>1. i \in 1 .. Len(message_queue) /\ message_queue[i] \in Messages
      BY ElementOfSeq, LenProperties
    <2>2. QED
      BY <2>1 DEF Messages
  <1>1. CASE downgrade_begin
    BY <1>1 DEF downgrade_begin
  <1>2. CASE downgrade_to_host
    <2>1. PICK i \in DOMAIN message_queue :
              /\ message_queue' = [message_queue EXCEPT ![i].tier = "CPU"]
              /\ bytes_downgraded' = bytes_downgraded
                                       + Size[message_queue[i].batch]
      BY <1>2 DEF downgrade_to_host
    <2>2. message_queue' \in Seq(Messages)
      BY <1>0, <2>1, MoveType
    <2>3. bytes_downgraded' \in Nat
      BY <1>0, <2>1
    <2>4. QED
      BY <1>2, <2>2, <2>3 DEF downgrade_to_host
  <1>3. CASE downgrade_to_disk
    <2>1. PICK i \in DOMAIN message_queue :
              bytes_downgraded' = bytes_downgraded + Size[message_queue[i].batch]
      BY <1>3 DEF downgrade_to_disk
    <2>2. bytes_downgraded' \in Nat
      BY <1>0, <2>1
    <2>3. /\ attempts' \in [Writers -> 0 .. attempts_limit]
          /\ written' \in [Writers -> BOOLEAN]
      <3>1. 0 \in 0 .. attempts_limit
        OBVIOUS
      <3>2. /\ attempts' = [attempts EXCEPT !["monitor"] = 0]
            /\ written' = [written EXCEPT !["monitor"] = FALSE]
        BY <1>3 DEF downgrade_to_disk
      <3>3. QED
        BY <3>1, <3>2
    <2>4. QED
      BY <1>3, <2>2, <2>3 DEF downgrade_to_disk
  <1>4. CASE downgrade_throws
    <2>1. Range(BatchesOf(message_queue)) \subseteq Batches
      <3>1. BatchesOf(message_queue) \in Seq(Batches)
        BY BatchesOfType
      <3>2. QED
        BY <3>1, ElementOfSeq, LenProperties DEF Range
    <2>2. QED
      BY <1>4, <2>1, EmptySeq DEF downgrade_throws
  <1>5. CASE downgrade_end
    BY <1>5 DEF downgrade_end
  <1>6. QED
    BY <1>1, <1>2, <1>3, <1>4, <1>5 DEF Downgrade

\* Every step keeps them.
LEMMA TypeStep == TypeInv /\ [Next]_vars => TypeInv'
  <1> SUFFICES ASSUME TypeInv, [Next]_vars PROVE TypeInv'
    OBVIOUS
  <1>1. CASE UNCHANGED vars
    BY <1>1 DEF TypeInv, TypeOK, InHand, vars, queueVars, addVars, fileVars,
                pullVars, monitorVars, endVars
  <1>2. ASSUME NEW p \in Producers,
               Produce(p) \/ add_throws(p) \/ write_orc_throws(p)
        PROVE  TypeInv'
    BY <1>2, TypeProduce, TypeAddThrows, TypeThrow, CacheAssumption
  <1>3. ASSUME NEW w \in Writers, write_orc(w) \/ write_orc_fails(w)
        PROVE  TypeInv'
    BY <1>3, TypeWrite
  <1>4. QED
    BY <1>1, <1>2, <1>3, TypeFinish, TypeConsume, TypeDowngrade DEF Next

\* Type correctness: whatever the threads do, the queue holds messages, the
\* attempts of the disk constructor (CacheDataLocalFile.cpp:37) stay within
\* attempts_limit, and every history is made of batches.
THEOREM TypeCorrect == Spec => []TypeOK
  <1>1. TypeInv => TypeOK
    BY DEF TypeInv
  <1>2. QED
    BY <1>1, TypeInit, TypeStep, PTL DEF Spec

-----------------------------------------------------------------------------
(* What wait_for_next saw is still there.                                  *)

\* NoNullPulled is not inductive: it says nothing of the time between the two
\* critical sections.  In that time the queue is not empty, unless the monitor
\* destroyed it.
SeenIsThere ==
    /\ Concat = "none"
    /\ Consumer # "kernel"
    /\ pull_pc \in {"pull", "pop"}
    /\ monitor # "threw"
    => message_queue # <<>>

NullInv == TypeInv /\ SeenIsThere /\ NoNullPulled

\* The invariant holds at the start.
LEMMA NullInit == Init => NullInv
  <1> SUFFICES ASSUME Init PROVE NullInv
    OBVIOUS
  <1>1. SeenIsThere /\ NoNullPulled
    BY DEF Init, SeenIsThere, NoNullPulled
  <1>2. QED
    BY <1>1, TypeInit DEF NullInv

\* Nobody but the consumer takes a message: producers and put-backs append.
LEMMA PutKeeps ==
    ASSUME TypeInv, NEW m \in Messages, put(m)
    PROVE  message_queue' # <<>>
  <1>1. message_queue \in Seq(Messages) /\ message_queue' = Append(message_queue, m)
    BY DEF TypeInv, TypeOK, put
  <1>2. Len(message_queue') = Len(message_queue) + 1 /\ Len(message_queue) \in Nat
    BY <1>1, AppendProperties, LenProperties
  <1>3. QED
    BY <1>2

\* A producer takes nothing out of the queue.
LEMMA NullProduce ==
    ASSUME NullInv, NEW p \in Producers, Produce(p)
    PROVE  SeenIsThere' /\ NoNullPulled'
  <1> USE DEF NullInv, SeenIsThere, NoNullPulled, queueVars, pullVars,
              monitorVars, endVars, Concat, Consumer
  <1>1. CASE add_put(p)
    <2>1. TypeInv /\ todo[p] # <<>> /\ todo[p] \in Seq(Batches)
      BY <1>1 DEF add_put, TypeInv, TypeOK, InHand
    <2>2. Head(todo[p]) \in Batches
      BY <2>1, HeadTailProperties
    <2>3. PICK tier \in put_tiers(p) :
              put([batch |-> Head(todo[p]), tier |-> tier])
      BY <1>1 DEF add_put
    <2>4. tier \in {"GPU", "CPU", "FILE"}
      BY <2>1, <2>3, SettingTypes DEF put_tiers, Entries, TypeInv, TypeOK
    <2>5. [batch |-> Head(todo[p]), tier |-> tier] \in Messages
      BY <2>2, <2>4 DEF Messages
    <2>6. message_queue' # <<>>
      BY <2>1, <2>3, <2>5, PutKeeps
    <2>7. QED
      BY <1>1, <2>6 DEF add_put
  <1>2. CASE add(p) \/ add_to_disk(p) \/ add_nowhere(p) \/ add_mark(p)
    BY <1>2 DEF add, add_to_disk, add_nowhere, add_mark
  <1>3. QED
    BY <1>1, <1>2 DEF Produce

\* The consumer pulls after it has seen a message.
LEMMA NullConsume ==
    ASSUME NullInv, Consume
    PROVE  SeenIsThere' /\ NoNullPulled'
  <1> USE DEF NullInv, SeenIsThere, NoNullPulled, queueVars, monitorVars,
              endVars, consumerUnchanged, Concat, Consumer
  <1>1. CASE wait_for_next
    BY <1>1 DEF wait_for_next
  <1>2. CASE pull_message
    BY <1>2 DEF pull_message, NextPull
  <1>3. CASE pull_null
    BY <1>3 DEF pull_null, pop_null, PlainPull
  <1>4. CASE pullUnorderedFromCache
    BY <1>4 DEF pullUnorderedFromCache
  <1>5. CASE wait_to_concat \/ has_next_now \/ collect \/ collect_null
    BY <1>5 DEF wait_to_concat, has_next_now, collect, collect_null
  <1>6. CASE size_check \/ release_null \/ release_all \/ release_some
    BY <1>6 DEF size_check, release_null, release_all, release_some,
                AfterNull, NextPull
  <1>7. CASE put_back
    BY <1>7 DEF put_back, NextPull
  <1>8. QED
    BY <1>1, <1>2, <1>3, <1>4, <1>5, <1>6, <1>7 DEF Consume

\* The monitor puts back what it takes, unless it throws.
LEMMA NullDowngrade ==
    ASSUME NullInv, Downgrade
    PROVE  SeenIsThere' /\ NoNullPulled'
  <1> USE DEF NullInv, SeenIsThere, NoNullPulled, pullVars, monitorUnchanged,
              Concat, Consumer
  <1>1. CASE downgrade_to_host
    <2>1. PICK i \in DOMAIN message_queue :
              message_queue' = [message_queue EXCEPT ![i].tier = "CPU"]
      BY <1>1 DEF downgrade_to_host
    <2>2. message_queue \in Seq(Messages) /\ i \in 1 .. Len(message_queue)
      BY LenProperties DEF TypeInv, TypeOK
    <2>3. Len(message_queue') = Len(message_queue) /\ Len(message_queue) # 0
      BY <2>1, <2>2, MoveType
    <2>4. message_queue' # <<>>
      BY <2>3
    <2>5. QED
      BY <1>1, <2>4 DEF downgrade_to_host
  <1>2. CASE downgrade_begin \/ downgrade_to_disk \/ downgrade_end
    BY <1>2 DEF downgrade_begin, downgrade_to_disk, downgrade_end
  <1>3. CASE downgrade_throws
    BY <1>3 DEF downgrade_throws
  <1>4. QED
    BY <1>1, <1>2, <1>3 DEF Downgrade

\* Every step keeps it.
LEMMA NullStep == NullInv /\ [Next]_vars => NullInv'
  <1> SUFFICES ASSUME NullInv, [Next]_vars PROVE NullInv'
    OBVIOUS
  <1>0. TypeInv'
    BY TypeStep DEF NullInv
  <1>1. ASSUME UNCHANGED <<setting, message_queue, pull_pc, monitor>>
        PROVE  SeenIsThere' /\ NoNullPulled'
    BY <1>1 DEF NullInv, SeenIsThere, NoNullPulled, Concat, Consumer
  <1>2. ASSUME UNCHANGED vars PROVE SeenIsThere' /\ NoNullPulled'
    BY <1>1, <1>2 DEF vars, queueVars, pullVars, monitorVars, endVars
  <1>3. ASSUME NEW p \in Producers, add_throws(p) \/ write_orc_throws(p)
        PROVE  SeenIsThere' /\ NoNullPulled'
    BY <1>1, <1>3 DEF add_throws, write_orc_throws, queueVars, pullVars,
           monitorVars, endVars
  <1>4. ASSUME NEW w \in Writers, write_orc(w) \/ write_orc_fails(w)
        PROVE  SeenIsThere' /\ NoNullPulled'
    BY <1>1, <1>4 DEF write_orc, write_orc_fails, queueVars, pullVars,
           monitorVars, endVars
  <1>5. ASSUME finish \/ finish_aborted PROVE SeenIsThere' /\ NoNullPulled'
    BY <1>1, <1>5 DEF finish, finish_aborted, queueVars, pullVars, monitorVars,
           endVars
  <1>6. SeenIsThere' /\ NoNullPulled'
    BY <1>2, <1>3, <1>4, <1>5, NullProduce, NullConsume, NullDowngrade DEF Next
  <1>7. QED
    BY <1>0, <1>6 DEF NullInv

\* OutputKernel::run and Print::run never dereference the nullptr of a drained
\* cache (CacheMachine.cpp:497), for any number of producers and any input, as
\* long as no downgrade of that cache has thrown.
THEOREM NoNullDereferenced == Spec => []NoNullPulled
  <1>1. NullInv => NoNullPulled
    BY DEF NullInv
  <1>2. QED
    BY <1>1, NullInit, NullStep, PTL DEF Spec

-----------------------------------------------------------------------------
(* The way of the batches to the end of the cache. *)

\* Something was put and not lost.
Put == message_queue # <<>> \/ collected # <<>> \/ delivered # <<>>

\* The producers: one that has come on has set something_added or will find it
\* set, and finish comes last, unless run() failed.
ProducersInv ==
    /\ \A p \in Producers : todo[p] # Input[p] => something_added
    /\ NoLoss /\ (something_added \/ \E p \in Producers : add_pc[p] = "mark")
           => Put
    /\ finished /\ ~aborted => AllAdded

\* The consumer: what it holds and what it has seen, by where it stands.
ConsumerInv ==
    /\ Concat # "none" => monitor = "sleep"
    /\ Concat = "none" => collected = <<>>
    /\ pull_pc \in {"wait", "pull", "ended", "crashed"} => collected = <<>>
    /\ pull_pc = "size" => collected # <<>>
    /\ pull_pc \in {"next", "size"} => Concat = "bytes"
    /\ pull_pc \in {"next", "pop"} /\ Concat = "bytes" /\ collected = <<>> =>
           finished \/ message_queue # <<>>
    /\ collected = <<>> /\ pull_pc \in {"release", "ended"} =>
           finished /\ (aborted \/ message_queue = <<>>)

\* A cache with concat_all is read only after its end.
ConcatAllInv ==
    Concat = "all" /\ NoLoss =>
        /\ pull_pc \notin {"next", "size", "put_back"}
        /\ pull_pc \in {"pop", "release"} => finished
        /\ pull_pc = "release" => message_queue = <<>>
        /\ delivered # <<>> => /\ finished /\ message_queue = <<>>
                               /\ collected = <<>> /\ Len(delivered) = 1

FlowInv == TypeInv /\ ProducersInv /\ ConsumerInv /\ ConcatAllInv

\* Once everything was added nothing is.
LEMMA FinishedIdle ==
    ASSUME FlowInv, NEW p \in Producers, Produce(p) \/ add_throws(p)
    PROVE  ~aborted => ~finished
  <1>1. todo[p] # <<>> \/ add_pc[p] # "ready"
    BY DEF Produce, add, add_put, add_to_disk, add_nowhere, add_mark,
           add_throws
  <1>2. QED
    BY <1>1 DEF FlowInv, ProducersInv, AllAdded

\* A producer's step.
LEMMA FlowProduce ==
    ASSUME FlowInv, NEW p \in Producers, Produce(p)
    PROVE  ProducersInv' /\ ConsumerInv' /\ ConcatAllInv'
  <1> USE DEF FlowInv, ProducersInv, ConsumerInv, ConcatAllInv, NoLoss, Put,
              AllAdded, queueVars, addVars, fileVars, pullVars,
              monitorVars, endVars, Concat, Consumer, Input
  <1>0. /\ add_pc \in [Producers -> AddPcs]
        /\ todo \in [Producers -> Seq(Batches)]
        /\ ~aborted => ~finished
    BY FinishedIdle DEF TypeInv, TypeOK
  <1>1. CASE add(p)
    <2>1. /\ setting' = setting /\ UNCHANGED <<finished, aborted, lost>>
          /\ UNCHANGED <<message_queue, something_added, pull_pc, collected,
                         delivered, monitor>>
          /\ todo[p] # <<>> /\ add_pc[p] = "ready"
      BY <1>1 DEF add
    <2>2. \/ /\ add_pc' = [add_pc EXCEPT ![p] = "place"] /\ todo' = todo
          \/ /\ add_pc' = add_pc /\ something_added
             /\ todo' = [todo EXCEPT ![p] = Tail(@)]
      BY <1>1 DEF add, admits
    <2>3. \A q \in Producers : add_pc'[q] = "mark" =>
             add_pc[q] = add_pc'[q]
      BY <1>0, <2>2
    <2>4. ProducersInv'
      BY <1>0, <2>1, <2>2, <2>3
    <2>5. QED
      BY <2>1, <2>4
  <1>2. CASE add_put(p)
    <2>1. /\ setting' = setting /\ UNCHANGED <<finished, aborted, lost>>
          /\ UNCHANGED <<todo, something_added, pull_pc, collected,
                         delivered, monitor>>
          /\ add_pc' = [add_pc EXCEPT ![p] = "mark"]
      BY <1>2 DEF add_put
    <2>2. message_queue' # <<>>
      <3>1. PICK m : m \in Messages /\ put(m)
        <4>1. PICK tier \in put_tiers(p) :
                  put([batch |-> Head(todo[p]), tier |-> tier])
          BY <1>2 DEF add_put
        <4>2. todo[p] # <<>> /\ todo[p] \in Seq(Batches)
          BY <1>2 DEF add_put, TypeInv, TypeOK, InHand
        <4>3. Head(todo[p]) \in Batches
          BY <4>2, HeadTailProperties
        <4>4. tier \in {"GPU", "CPU", "FILE"}
          BY <4>1, SettingTypes DEF put_tiers, Entries, TypeInv, TypeOK
        <4>5. [batch |-> Head(todo[p]), tier |-> tier] \in Messages
          BY <4>3, <4>4 DEF Messages
        <4>6. QED
          BY <4>1, <4>5
      <3>2. QED
        BY <3>1, PutKeeps
    <2>3. \A q \in Producers : add_pc'[q] = "threw" => add_pc[q] = "threw"
      BY <1>0, <2>1
    <2>4. ProducersInv'
      BY <1>0, <2>1, <2>2, <2>3
    <2>5. QED
      BY <1>0, <2>1, <2>2, <2>4
  <1>3. CASE add_to_disk(p)
    <2>1. /\ setting' = setting /\ UNCHANGED <<finished, aborted, lost>>
          /\ UNCHANGED <<todo, something_added, message_queue, pull_pc,
                         collected, delivered, monitor>>
          /\ add_pc' = [add_pc EXCEPT ![p] = "write"]
      BY <1>3 DEF add_to_disk
    <2>2. \A q \in Producers : add_pc'[q] = "mark" =>
             add_pc[q] = add_pc'[q]
      BY <1>0, <2>1
    <2>3. ProducersInv'
      BY <1>0, <2>1, <2>2
    <2>4. QED
      BY <2>1, <2>3
  <1>4. CASE add_nowhere(p)
    <2>1. /\ setting' = setting /\ UNCHANGED <<finished, aborted>>
          /\ UNCHANGED <<todo, something_added, message_queue, pull_pc,
                         collected, delivered, monitor>>
          /\ lost' # {}
      BY <1>4 DEF add_nowhere
    <2>2. ProducersInv'
      BY <1>0, <2>1
    <2>3. QED
      BY <2>1, <2>2
  <1>5. CASE add_mark(p)
    <2>1. /\ setting' = setting /\ UNCHANGED <<finished, aborted, lost>>
          /\ UNCHANGED <<message_queue, pull_pc, collected, delivered,
                         monitor>>
          /\ add_pc[p] = "mark" /\ something_added' = TRUE
          /\ add_pc' = [add_pc EXCEPT ![p] = "ready"]
      BY <1>5 DEF add_mark
    <2>2. \A q \in Producers : add_pc'[q] = "threw" => add_pc[q] = "threw"
      BY <1>0, <2>1
    <2>3. ProducersInv'
      BY <1>0, <2>1, <2>2
    <2>4. QED
      BY <2>1, <2>3
  <1>6. QED
    BY <1>1, <1>2, <1>3, <1>4, <1>5 DEF Produce

\* An add that throws, a further attempt, and the end of the producing kernel.
LEMMA FlowOthers ==
    ASSUME FlowInv,
           \/ \E p \in Producers : add_throws(p) \/ write_orc_throws(p)
           \/ \E w \in Writers : write_orc(w) \/ write_orc_fails(w)
           \/ finish \/ finish_aborted
    PROVE  ProducersInv' /\ ConsumerInv' /\ ConcatAllInv'
  <1> USE DEF FlowInv, ProducersInv, ConsumerInv, ConcatAllInv, NoLoss, Put,
              queueVars, addVars, fileVars, pullVars, monitorVars, endVars,
              Concat, Consumer, Input
  <1>0. /\ add_pc \in [Producers -> AddPcs]
        /\ "monitor" \notin Producers
    BY CacheAssumption DEF TypeInv, TypeOK
  <1>1. ASSUME NEW p \in Producers, add_throws(p) \/ write_orc_throws(p)
        PROVE  ProducersInv' /\ ConsumerInv' /\ ConcatAllInv'
    <2>1. /\ setting' = setting /\ UNCHANGED <<finished, aborted>>
          /\ UNCHANGED <<todo, something_added, message_queue, pull_pc,
                         collected, delivered, monitor>>
          /\ \/ lost' = lost /\ add_pc' = [add_pc EXCEPT ![p] = "ready"]
             \/ lost' # {}
          /\ add_pc[p] \in {"place", "write"}
      BY <1>0, <1>1 DEF add_throws, write_orc_throws, Writing
    <2>2. ~aborted => ~finished
      BY <2>1 DEF AllAdded
    <2>3. ProducersInv'
      BY <1>0, <2>1, <2>2 DEF AllAdded
    <2>4. QED
      BY <2>1, <2>3
  <1>2. ASSUME NEW w \in Writers, write_orc(w) \/ write_orc_fails(w)
        PROVE  ProducersInv' /\ ConsumerInv' /\ ConcatAllInv'
    <2>1. /\ setting' = setting /\ UNCHANGED <<finished, aborted, lost>>
          /\ UNCHANGED <<todo, add_pc, something_added, message_queue,
                         pull_pc, collected, delivered, monitor>>
      BY <1>2 DEF write_orc, write_orc_fails
    <2>2. QED
      BY <2>1 DEF AllAdded
  <1>3. ASSUME finish \/ finish_aborted
        PROVE  ProducersInv' /\ ConsumerInv' /\ ConcatAllInv'
    <2>1. /\ setting' = setting /\ finished' = TRUE /\ lost' = lost
          /\ UNCHANGED <<todo, add_pc, something_added, message_queue,
                         pull_pc, collected, delivered, monitor>>
          /\ ~finished
          /\ (aborted' = aborted /\ AllAdded) \/ aborted' = TRUE
      BY <1>3 DEF finish, finish_aborted
    <2>2. ProducersInv'
      BY <2>1 DEF AllAdded
    <2>3. QED
      BY <2>1, <2>2
  <1>4. QED
    BY <1>1, <1>2, <1>3

\* Appending is never empty.
LEMMA AppendSome ==
    ASSUME NEW S, NEW s \in Seq(S), NEW x \in S
    PROVE  Append(s, x) # <<>> /\ Len(Append(s, x)) = Len(s) + 1
           /\ Len(s) \in Nat
  BY AppendProperties, LenProperties

\* A pull, or a step of one.
LEMMA FlowConsume ==
    ASSUME FlowInv, Consume
    PROVE  ProducersInv' /\ ConsumerInv' /\ ConcatAllInv'
  <1> USE DEF FlowInv, ConsumerInv, ConcatAllInv, NoLoss, queueVars, addVars,
              fileVars, pullVars, monitorVars, endVars, consumerUnchanged,
              Concat, Consumer, Input
  <1>1. /\ setting' = setting /\ UNCHANGED <<finished, aborted, lost>>
        /\ UNCHANGED <<todo, add_pc, something_added, monitor>>
    BY DEF Consume, wait_for_next, pull_message, pull_null,
           pullUnorderedFromCache, wait_to_concat, has_next_now, collect,
           collect_null, size_check, release_null, release_all, release_some,
           put_back
  <1>2. /\ message_queue \in Seq(Messages) /\ collected \in Seq(Messages)
        /\ delivered \in Seq(Seq(Batches)) /\ setting \in Settings
    BY DEF TypeInv, TypeOK
  <1>3. SUFFICES (NoLoss /\ Put => Put') /\ ConsumerInv' /\ ConcatAllInv'
    BY <1>1 DEF ProducersInv, AllAdded
  <1>4. ASSUME NEW g \in Seq(Batches), deliver(g)
        PROVE  delivered' # <<>> /\ Len(delivered') = Len(delivered) + 1
    BY <1>2, <1>4, AppendSome DEF deliver
  <1>5. ASSUME pop
        PROVE  /\ message_queue # <<>> /\ message_queue' = Tail(message_queue)
               /\ Head(message_queue) \in Messages
               /\ Head(message_queue).batch \in Batches
               /\ <<Head(message_queue).batch>> \in Seq(Batches)
    <2>1. message_queue # <<>> /\ message_queue' = Tail(message_queue)
      BY <1>5 DEF pop
    <2>2. Head(message_queue) \in Messages
      BY <1>2, <2>1, HeadTailProperties
    <2>3. Head(message_queue).batch \in Batches
      BY <2>2 DEF Messages
    <2>4. QED
      BY <2>1, <2>2, <2>3
  <1>6. CASE wait_for_next
    <2>1. /\ UNCHANGED <<message_queue, collected, delivered>>
          /\ pull_pc = "wait" /\ pull_pc' \in {"ended", "pull"}
          /\ pull_pc' = "ended" => finished /\ message_queue = <<>>
      BY <1>6 DEF wait_for_next
    <2>2. QED
      BY <1>1, <2>1 DEF Put
  <1>7. CASE pull_message
    <2>1. /\ deliver(<<Head(message_queue).batch>>) /\ pop
          /\ pull_pc' \in {"pull", "wait"} /\ Concat = "none"
          /\ collected' = collected
      BY <1>7 DEF pull_message, PlainPull, NextPull
    <2>2. delivered' # <<>>
      BY <1>4, <1>5, <2>1
    <2>3. QED
      BY <1>1, <2>1, <2>2 DEF Put
  <1>8. CASE pull_null
    <2>1. /\ UNCHANGED <<message_queue, collected, delivered>>
          /\ finished /\ message_queue = <<>> /\ Concat = "none"
          /\ pull_pc' \in {"ended", "crashed"}
      BY <1>8 DEF pull_null, pop_null, PlainPull
    <2>2. QED
      BY <1>1, <2>1 DEF Put
  <1>9. CASE pullUnorderedFromCache
    <2>1. Concat = "none" /\ collected' = collected
          /\ pull_pc' \in {"wait", "pop"}
      BY <1>9 DEF pullUnorderedFromCache
    <2>2. CASE UNCHANGED <<message_queue, delivered>>
      BY <1>1, <2>1, <2>2 DEF Put
    <2>3. ASSUME NEW i \in DOMAIN message_queue,
                 deliver(<<message_queue[i].batch>>)
          PROVE  delivered' # <<>>
      <3>1. message_queue[i] \in Messages
        BY <1>2, ElementOfSeq, LenProperties
      <3>2. <<message_queue[i].batch>> \in Seq(Batches)
        BY <3>1 DEF Messages
      <3>3. QED
        BY <1>4, <2>3, <3>2
    <2>4. QED
      BY <1>1, <1>9, <2>1, <2>2, <2>3 DEF Put, pullUnorderedFromCache
  <1>10. CASE wait_to_concat
    <2>1. /\ UNCHANGED <<message_queue, collected, delivered>>
          /\ Concat # "none" /\ pull_pc = "pull"
          /\ pull_pc' = IF Concat = "all" THEN "pop" ELSE "next"
          /\ \/ finished
             \/ Concat = "bytes" /\ Bytes(message_queue) > concat_cache_num_bytes
             \/ Concat = "bytes" /\ Bytes(message_queue) > 0
      BY <1>10 DEF wait_to_concat
    <2>2. concat_cache_num_bytes \in Nat /\ Concat \in {"none", "bytes", "all"}
      BY <1>2, CacheAssumption DEF concat_cache_num_bytes, SettingType
    <2>3. message_queue = <<>> => Bytes(message_queue) = 0
      BY NothingWeighs
    <2>4. message_queue = <<>> => finished
      BY <2>1, <2>2, <2>3
    <2>5. Concat = "all" => finished
      BY <2>1
    <2>6. QED
      BY <1>1, <2>1, <2>2, <2>4, <2>5 DEF Put
  <1>11. CASE has_next_now
    <2>1. /\ UNCHANGED <<message_queue, collected, delivered>>
          /\ pull_pc = "next"
          /\ pull_pc' = IF message_queue = <<>> THEN "release" ELSE "pop"
      BY <1>11 DEF has_next_now
    <2>2. QED
      BY <1>1, <2>1 DEF Put
  <1>12. CASE collect
    <2>1. /\ pop /\ collected' = Append(collected, Head(message_queue))
          /\ Concat # "none" /\ pull_pc = "pop" /\ delivered' = delivered
          /\ pull_pc' = IF Concat = "all" THEN "pop" ELSE "size"
      BY <1>12 DEF collect
    <2>2. collected' # <<>> /\ message_queue # <<>>
      BY <1>2, <1>5, <2>1, AppendSome
    <2>3. Concat \in {"none", "bytes", "all"}
      BY <1>2, CacheAssumption DEF SettingType
    <2>4. QED
      BY <1>1, <2>1, <2>2, <2>3 DEF Put
  <1>13. CASE collect_null
    <2>1. /\ UNCHANGED <<message_queue, collected, delivered>>
          /\ finished /\ message_queue = <<>> /\ Concat # "none"
          /\ pull_pc' = "release"
      BY <1>13 DEF collect_null, pop_null
    <2>2. QED
      BY <1>1, <2>1 DEF Put
  <1>14. CASE size_check
    <2>1. /\ UNCHANGED <<message_queue, collected, delivered>>
          /\ pull_pc = "size" /\ pull_pc' \in {"next", "release"}
      BY <1>14 DEF size_check
    <2>2. QED
      BY <1>1, <2>1 DEF Put
  <1>15. CASE release_null
    <2>1. /\ UNCHANGED <<message_queue, collected, delivered>>
          /\ pull_pc = "release" /\ pull_pc' \in {"ended", "wait"}
          /\ collected = <<>>
      BY <1>15 DEF release_null, AfterNull
    <2>2. QED
      BY <1>1, <2>1 DEF Put
  <1>16. CASE release_all
    <2>1. /\ deliver(BatchesOf(collected)) /\ collected' = <<>>
          /\ pull_pc = "release" /\ pull_pc' \in {"pull", "wait"}
          /\ message_queue' = message_queue /\ collected # <<>>
      BY <1>16 DEF release_all, NextPull
    <2>2. delivered' # <<>> /\ Len(delivered') = Len(delivered) + 1
      BY <1>2, <1>4, <2>1, BatchesOfType
    <2>3. delivered = <<>> => Len(delivered') = 1
      BY <2>2
    <2>4. QED
      BY <1>1, <2>1, <2>2, <2>3 DEF Put
  <1>17. CASE release_some
    <2>1. /\ Concat = "bytes" /\ pull_pc' = "put_back"
          /\ message_queue' = message_queue
      BY <1>17 DEF release_some
    <2>2. delivered' # <<>>
      <3>1. PICK g : delivered' = Append(delivered, g)
        BY <1>17 DEF release_some, deliver
      <3>2. QED
        BY <3>1
    <2>3. QED
      BY <1>1, <2>1, <2>2 DEF Put
  <1>18. CASE put_back
    <2>1. pull_pc = "put_back" /\ delivered' = delivered
      BY <1>18 DEF put_back
    <2>2. Concat \in {"none", "bytes", "all"}
      BY <1>2, CacheAssumption DEF SettingType
    <2>3. CASE collected # <<>>
      <3>1. Concat # "none" /\ pull_pc' = pull_pc
            /\ put(Head(collected)) /\ Head(collected) \in Messages
        BY <1>2, <1>18, <2>3, HeadTailProperties DEF put_back
      <3>2. message_queue' # <<>>
        BY <3>1, PutKeeps
      <3>3. QED
        BY <1>1, <2>1, <2>2, <3>1, <3>2 DEF Put
    <2>4. CASE collected = <<>>
      <3>1. /\ pull_pc' \in {"pull", "wait"}
            /\ message_queue' = message_queue /\ collected' = collected
        BY <1>18, <2>4 DEF put_back, NextPull
      <3>2. QED
        BY <1>1, <2>1, <2>2, <2>4, <3>1 DEF Put
    <2>5. QED
      BY <2>3, <2>4
  <1>19. QED
    BY <1>6, <1>7, <1>8, <1>9, <1>10, <1>11, <1>12, <1>13, <1>14, <1>15,
       <1>16, <1>17, <1>18 DEF Consume

\* A step of the monitor; where it throws, everything in the queue is lost.
LEMMA FlowDowngrade ==
    ASSUME FlowInv, Downgrade
    PROVE  ProducersInv' /\ ConsumerInv' /\ ConcatAllInv'
  <1> USE DEF FlowInv, ConsumerInv, ConcatAllInv, NoLoss, queueVars, addVars,
              fileVars, pullVars, monitorVars, endVars, monitorUnchanged,
              Concat, Consumer, Input
  <1>1. /\ setting' = setting /\ UNCHANGED <<finished, aborted>>
        /\ UNCHANGED <<todo, add_pc, something_added, pull_pc, collected,
                       delivered>>
    BY DEF Downgrade, downgrade_begin, downgrade_to_host, downgrade_to_disk,
           downgrade_throws, downgrade_end
  <1>2. message_queue \in Seq(Messages)
    BY DEF TypeInv, TypeOK
  <1>3. Concat = "none"
    BY DEF Downgrade, downgrade_begin, downgrade_to_host, downgrade_to_disk,
           downgrade_throws, downgrade_end, Writing
  <1>4. \/ lost' # {} /\ message_queue' = <<>>
        \/ /\ lost' = lost
           /\ message_queue' = <<>> <=> message_queue = <<>>
    <2>1. CASE downgrade_begin \/ downgrade_to_disk \/ downgrade_end
      BY <2>1 DEF downgrade_begin, downgrade_to_disk, downgrade_end
    <2>2. CASE downgrade_to_host
      <3>1. PICK i \in DOMAIN message_queue :
                message_queue' = [message_queue EXCEPT ![i].tier = "CPU"]
        BY <2>2 DEF downgrade_to_host
      <3>2. i \in 1 .. Len(message_queue)
        BY <1>2, LenProperties
      <3>3. Len(message_queue') = Len(message_queue) /\ Len(message_queue) # 0
        BY <1>2, <3>1, <3>2, MoveType
      <3>4. message_queue' # <<>> /\ message_queue # <<>>
        BY <3>3
      <3>5. QED
        BY <2>2, <3>4 DEF downgrade_to_host
    <2>3. CASE downgrade_throws
      <3>1. /\ lost' = lost \cup Range(BatchesOf(message_queue))
            /\ message_queue' = <<>>
        BY <2>3 DEF downgrade_throws
      <3>2. CASE message_queue = <<>>
        BY <3>1, <3>2 DEF BatchesOf, Range
      <3>3. CASE message_queue # <<>>
        <4>1. 1 \in 1 .. Len(message_queue)
          BY <1>2, <3>3
        <4>2. BatchesOf(message_queue)[1] \in Range(BatchesOf(message_queue))
          BY <4>1 DEF BatchesOf, Range
        <4>3. QED
          BY <3>1, <4>2
      <3>4. QED
        BY <3>2, <3>3
    <2>4. QED
      BY <2>1, <2>2, <2>3 DEF Downgrade
  <1>5. lost \subseteq lost'
    BY DEF Downgrade, downgrade_begin, downgrade_to_host, downgrade_to_disk,
           downgrade_throws, downgrade_end
  <1>6. ProducersInv'
    BY <1>1, <1>4, <1>5 DEF ProducersInv, AllAdded, Put
  <1>7. ConsumerInv' /\ ConcatAllInv'
    BY <1>1, <1>3, <1>4, <1>5
  <1>8. QED
    BY <1>6, <1>7

\* The invariant holds at the start.
LEMMA FlowInit == Init => FlowInv
  <1> SUFFICES ASSUME Init PROVE FlowInv
    OBVIOUS
  <1>1. ProducersInv
    BY DEF Init, ProducersInv, AllAdded
  <1>2. ConsumerInv /\ ConcatAllInv
    BY DEF Init, ConsumerInv, ConcatAllInv
  <1>3. QED
    BY <1>1, <1>2, TypeInit DEF FlowInv

\* Every step keeps it.
LEMMA FlowStep == FlowInv /\ [Next]_vars => FlowInv'
  <1> SUFFICES ASSUME FlowInv, [Next]_vars PROVE FlowInv'
    OBVIOUS
  <1>1. TypeInv'
    BY TypeStep DEF FlowInv
  <1>2. CASE UNCHANGED vars
    <2>1. /\ setting' = setting /\ UNCHANGED <<finished, aborted, lost>>
          /\ UNCHANGED <<todo, add_pc, something_added, message_queue,
                         pull_pc, collected, delivered, monitor>>
      BY <1>2 DEF vars, queueVars, addVars, pullVars, monitorVars, endVars
    <2>2. QED
      BY <1>1, <2>1 DEF FlowInv, ProducersInv, ConsumerInv, ConcatAllInv,
                        NoLoss, Put, AllAdded, Concat, Input
  <1>3. ProducersInv' /\ ConsumerInv' /\ ConcatAllInv'
    BY <1>2, FlowProduce, FlowOthers, FlowConsume, FlowDowngrade
       DEF Next, FlowInv
  <1>4. QED
    BY <1>1, <1>3 DEF FlowInv

\* The invariant holds in every state of the cache.
LEMMA FlowAlways == Spec => []FlowInv
  BY FlowInit, FlowStep, PTL DEF Spec

\* A consumer that saw the end of the cache got at least one table, hence a
\* schema, even if all the tables were empty, unless the producing kernel
\* aborted or a table was lost: the test of something_added and its assignment
\* are apart, yet the first table to be marked was put before.
THEOREM SchemaIsKept == Spec => []SchemaSurvives
  <1>1. FlowInv => SchemaSurvives
    <2>1. SUFFICES ASSUME FlowInv, pull_pc = "ended", NoLoss
                   PROVE  delivered # <<>>
      BY DEF SchemaSurvives
    <2>2. finished /\ message_queue = <<>> /\ collected = <<>>
      BY <2>1 DEF FlowInv, ConsumerInv, NoLoss
    <2>3. AllAdded
      BY <2>1, <2>2 DEF FlowInv, ProducersInv, NoLoss
    <2>4. PICK p \in Producers : Input[p] # <<>>
      BY <2>1, InputAssumption DEF FlowInv, TypeInv, TypeOK, Input
    <2>5. something_added
      BY <2>1, <2>3, <2>4 DEF FlowInv, ProducersInv, AllAdded
    <2>6. Put
      BY <2>1, <2>5 DEF FlowInv, ProducersInv
    <2>7. QED
      BY <2>2, <2>6 DEF Put
  <1>2. QED
    BY <1>1, FlowAlways, PTL

\* With concat_all the consumer gets one table: ConcatenatingCacheMachine's
\* pull waits for finish, after which nothing is put (unless the producing
\* kernel aborted), and pops until the queue is empty.
THEOREM ConcatAllGivesOne == Spec => []ConcatAllIsOne
  <1>1. FlowInv => ConcatAllIsOne
    <2>1. SUFFICES ASSUME FlowInv, Concat = "all", NoLoss
                   PROVE  Len(delivered) <= 1
      BY DEF ConcatAllIsOne
    <2>2. CASE delivered = <<>>
      BY <2>2
    <2>3. CASE delivered # <<>>
      <3>1. Len(delivered) = 1
        BY <2>1, <2>3 DEF FlowInv, ConcatAllInv
      <3>2. QED
        BY <3>1
    <2>4. QED
      BY <2>2, <2>3
  <1>2. QED
    BY <1>1, FlowAlways, PTL

-----------------------------------------------------------------------------
(* The cache of a kernel is a FIFO channel. *)

\* BatchesOf takes the batch of each message.
LEMMA BatchesOfEach ==
    ASSUME NEW s \in Seq(Messages)
    PROVE  /\ Len(s) \in Nat
           /\ BatchesOf(s) \in Seq(Batches)
           /\ Len(BatchesOf(s)) = Len(s)
           /\ DOMAIN BatchesOf(s) = 1 .. Len(s)
           /\ \A i \in 1 .. Len(s) : BatchesOf(s)[i] = s[i].batch
  <1>1. Len(s) \in Nat
    BY LenProperties
  <1>2. DOMAIN BatchesOf(s) = 1 .. Len(s)
    BY DEF BatchesOf
  <1>3. \A i \in 1 .. Len(s) : BatchesOf(s)[i] = s[i].batch
    BY DEF BatchesOf
  <1>4. BatchesOf(s) \in Seq(Batches)
    BY BatchesOfType
  <1> HIDE DEF BatchesOf
  <1>5. Len(BatchesOf(s)) = Len(s)
    BY <1>1, <1>2, <1>4, LenProperties
  <1>6. QED
    BY <1>1, <1>2, <1>3, <1>4, <1>5

\* The batches of a queue to which a message was appended.
LEMMA BatchesAppend ==
    ASSUME NEW s \in Seq(Messages), NEW m \in Messages
    PROVE  /\ m.batch \in Batches
           /\ BatchesOf(Append(s, m)) = Append(BatchesOf(s), m.batch)
  <1> DEFINE a == Append(s, m)
             b == Append(BatchesOf(s), m.batch)
  <1>0. m.batch \in Batches
    BY DEF Messages
  <1>1. /\ a \in Seq(Messages) /\ Len(a) = Len(s) + 1 /\ Len(s) \in Nat
        /\ \A i \in 1 .. Len(s) : a[i] = s[i]
        /\ a[Len(s) + 1] = m
    BY AppendProperties, LenProperties
  <1>2. /\ BatchesOf(s) \in Seq(Batches) /\ Len(BatchesOf(s)) = Len(s)
        /\ \A i \in 1 .. Len(s) : BatchesOf(s)[i] = s[i].batch
    BY BatchesOfEach
  <1>3. /\ b \in Seq(Batches) /\ Len(b) = Len(s) + 1
        /\ \A i \in 1 .. Len(s) : b[i] = s[i].batch
        /\ b[Len(s) + 1] = m.batch
    BY <1>0, <1>1, <1>2, AppendProperties
  <1> HIDE DEF a
  <1>4. /\ BatchesOf(a) \in Seq(Batches) /\ Len(BatchesOf(a)) = Len(a)
        /\ \A i \in 1 .. Len(a) : BatchesOf(a)[i] = a[i].batch
    BY <1>1, BatchesOfEach
  <1> HIDE DEF b
  <1>5. \A i \in 1 .. Len(s) + 1 : BatchesOf(a)[i] = b[i]
    BY <1>1, <1>3, <1>4
  <1>6. BatchesOf(a) = b
    BY <1>1, <1>3, <1>4, <1>5, SeqEqual
  <1>7. QED
    BY <1>0, <1>6 DEF a, b

\* The first batch of a queue and the batches after it.
LEMMA BatchesHead ==
    ASSUME NEW s \in Seq(Messages), s # <<>>
    PROVE  /\ Head(s).batch \in Batches
           /\ BatchesOf(s) = <<Head(s).batch>> \o BatchesOf(Tail(s))
  <1> DEFINE t == Tail(s)
             h == Head(s).batch
             b == <<h>> \o BatchesOf(t)
  <1>1. /\ t \in Seq(Messages) /\ Len(t) = Len(s) - 1 /\ Len(s) \in Nat
        /\ Len(s) >= 1 /\ Head(s) = s[1] /\ Head(s) \in Messages
        /\ \A i \in 1 .. Len(t) : t[i] = s[i + 1]
    BY HeadTailProperties, LenProperties
  <1>2. h \in Batches /\ h = s[1].batch
    BY <1>1 DEF Messages
  <1> HIDE DEF t, h
  <1>3. /\ BatchesOf(t) \in Seq(Batches) /\ Len(BatchesOf(t)) = Len(t)
        /\ \A i \in 1 .. Len(t) : BatchesOf(t)[i] = t[i].batch
    BY <1>1, BatchesOfEach
  <1>4. /\ BatchesOf(s) \in Seq(Batches) /\ Len(BatchesOf(s)) = Len(s)
        /\ \A i \in 1 .. Len(s) : BatchesOf(s)[i] = s[i].batch
    BY BatchesOfEach
  <1>5. <<h>> \in Seq(Batches) /\ Len(<<h>>) = 1 /\ <<h>>[1] = h
    BY <1>2
  <1>6. /\ b \in Seq(Batches) /\ Len(b) = 1 + Len(t)
        /\ \A i \in 1 .. 1 + Len(t) :
              b[i] = IF i <= 1 THEN <<h>>[i] ELSE BatchesOf(t)[i - 1]
    BY <1>3, <1>5, ConcatProperties
  <1> HIDE DEF b
  <1>7. ASSUME NEW i \in 1 .. Len(s) PROVE BatchesOf(s)[i] = b[i]
    <2>1. CASE i = 1
      BY <1>1, <1>2, <1>4, <1>5, <1>6, <2>1
    <2>2. CASE i # 1
      <3>1. i - 1 \in 1 .. Len(t) /\ (i - 1) + 1 = i /\ ~(i <= 1)
            /\ i \in 1 .. 1 + Len(t)
        BY <1>1, <2>2
      <3>2. b[i] = BatchesOf(t)[i - 1] /\ t[i - 1] = s[i]
        BY <1>1, <1>6, <3>1
      <3>3. QED
        BY <1>3, <1>4, <3>1, <3>2
    <2>3. QED
      BY <2>1, <2>2
  <1>8. BatchesOf(s) = b
    BY <1>1, <1>4, <1>6, <1>7, SeqEqual
  <1>9. QED
    BY <1>2, <1>8 DEF b, h, t

\* A message that moves to another tier keeps its batch and its place.
LEMMA BatchesMoved ==
    ASSUME NEW s \in Seq(Messages), NEW i \in 1 .. Len(s),
           NEW tier \in {"GPU", "CPU", "FILE"}
    PROVE  BatchesOf([s EXCEPT ![i].tier = tier]) = BatchesOf(s)
  <1> DEFINE t == [s EXCEPT ![i].tier = tier]
  <1>1. Len(t) = Len(s)
    <2>1. s[i] \in Messages
      BY ElementOfSeq
    <2>2. [s[i] EXCEPT !.tier = tier] \in Messages
      BY <2>1 DEF Messages
    <2>3. QED
      BY <2>2, ExceptSeq
  <1>2. ASSUME NEW j \in 1 .. Len(s) PROVE t[j].batch = s[j].batch
    <2>1. s[j] \in Messages /\ s[i] \in Messages
      BY ElementOfSeq
    <2>2. t[j] = IF j = i THEN [s[i] EXCEPT !.tier = tier] ELSE s[j]
      BY LenProperties
    <2>3. QED
      BY <2>1, <2>2 DEF Messages
  <1>3. QED
    BY <1>1, <1>2 DEF BatchesOf

\* Where the memory of the node has room, nothing is written to the disk and no
\* downgrade fails; and a kernel's loop never waits, puts back or is handed a
\* nullptr that it did not ask for.
RoomInv ==
    Tiers \subseteq {"GPU", "CPU"} =>
        /\ monitor \notin {"write", "threw"}
        /\ \A p \in Producers : add_pc[p] # "write"

KernelInv ==
    Consumer = "kernel" => pull_pc \notin {"wait", "put_back", "crashed"}

FifoInv == FlowInv /\ RoomInv /\ KernelInv

\* The invariant holds at the start.
LEMMA FifoInit == Init => FifoInv
  <1> SUFFICES ASSUME Init PROVE FifoInv
    OBVIOUS
  <1>1. RoomInv /\ KernelInv
    BY DEF Init, RoomInv, KernelInv
  <1>2. QED
    BY <1>1, FlowInit DEF FifoInv

\* Every step keeps RoomInv.
LEMMA RoomStep ==
    ASSUME FifoInv, Next
    PROVE  RoomInv'
  <1> USE DEF queueVars, addVars, fileVars, pullVars, monitorVars, endVars,
              consumerUnchanged, monitorUnchanged, Tiers
  <1>0. SUFFICES ASSUME setting' = setting, Tiers \subseteq {"GPU", "CPU"}
                 PROVE  RoomInv'
    <2>1. setting' = setting
      BY DEF Next, Produce, add, add_put, add_to_disk, add_nowhere, add_mark,
             add_throws, write_orc_throws, write_orc, write_orc_fails, finish,
             finish_aborted, Consume, wait_for_next, pull_message, pull_null,
             pullUnorderedFromCache, wait_to_concat, has_next_now, collect,
             collect_null, size_check,
             release_null, release_all, release_some, put_back, Downgrade,
             downgrade_begin, downgrade_to_host, downgrade_to_disk,
             downgrade_throws, downgrade_end
    <2>2. QED
      BY <1>0, <2>1 DEF RoomInv
  <1>1. /\ monitor \notin {"write", "threw"}
        /\ \A p \in Producers : add_pc[p] # "write"
        /\ add_pc \in [Producers -> AddPcs]
        /\ "DISK" \notin Tiers /\ "nowhere" \notin Tiers
        /\ "monitor" \notin Producers
    BY <1>0, CacheAssumption DEF FifoInv, RoomInv, FlowInv, TypeInv, TypeOK
  <1>2. ASSUME NEW p \in Producers, Produce(p) PROVE RoomInv'
    <2>1. /\ monitor' = monitor
          /\ \/ add_pc' = add_pc
             \/ \E pc \in {"place", "mark", "ready"} :
                    add_pc' = [add_pc EXCEPT ![p] = pc]
      BY <1>1, <1>2 DEF Produce, add, add_put, add_to_disk, add_nowhere,
                        add_mark
    <2>2. QED
      BY <1>1, <2>1 DEF RoomInv
  <1>3. ASSUME NEW p \in Producers, add_throws(p) \/ write_orc_throws(p)
        PROVE  RoomInv'
    <2>1. /\ monitor' = monitor
          /\ \E pc \in {"ready", "threw"} : add_pc' = [add_pc EXCEPT ![p] = pc]
      BY <1>1, <1>3 DEF add_throws, write_orc_throws, Writing
    <2>2. QED
      BY <1>1, <2>1 DEF RoomInv
  <1>4. ASSUME NEW w \in Writers, write_orc(w) \/ write_orc_fails(w)
        PROVE  RoomInv'
    BY <1>1, <1>4 DEF write_orc, write_orc_fails, RoomInv
  <1>5. CASE finish \/ finish_aborted
    BY <1>1, <1>5 DEF finish, finish_aborted, RoomInv
  <1>6. CASE Consume
    <2>1. UNCHANGED <<monitor, add_pc>>
      BY <1>6 DEF Consume, wait_for_next, pull_message, pull_null,
             pullUnorderedFromCache, wait_to_concat, has_next_now, collect,
             collect_null, size_check, release_null, release_all,
             release_some, put_back
    <2>2. QED
      BY <1>1, <2>1 DEF RoomInv
  <1>7. CASE Downgrade
    <2>1. UNCHANGED add_pc /\ monitor' \notin {"write", "threw"}
      BY <1>1, <1>7 DEF Downgrade, downgrade_begin, downgrade_to_host,
             downgrade_to_disk, downgrade_throws, downgrade_end, Writing
    <2>2. QED
      BY <1>1, <2>1 DEF RoomInv
  <1>8. QED
    BY <1>2, <1>3, <1>4, <1>5, <1>6, <1>7 DEF Next

\* Every step keeps KernelInv.
LEMMA KernelStep ==
    ASSUME FifoInv, Next
    PROVE  KernelInv'
  <1> USE DEF queueVars, addVars, fileVars, pullVars, monitorVars, endVars,
              consumerUnchanged, monitorUnchanged, Consumer, Concat
  <1>1. CASE Consume
    <2>1. setting' = setting
      BY <1>1 DEF Consume, wait_for_next, pull_message, pull_null,
             pullUnorderedFromCache, wait_to_concat, has_next_now, collect,
             collect_null, size_check, release_null, release_all,
             release_some, put_back
    <2>2. Consumer = "kernel" =>
              /\ pull_pc \notin {"wait", "put_back"}
              /\ pull_pc' \notin {"wait", "put_back", "crashed"}
      BY <1>1 DEF FifoInv, KernelInv, Consume, wait_for_next, pull_message,
             pull_null, pullUnorderedFromCache, wait_to_concat, has_next_now,
             collect, collect_null, size_check, release_null, release_all,
             release_some, put_back, NextPull, AfterNull
    <2>3. QED
      BY <2>1, <2>2 DEF KernelInv
  <1>2. CASE ~Consume
    <2>1. setting' = setting /\ pull_pc' = pull_pc
      BY <1>2 DEF Next, Produce, add, add_put, add_to_disk, add_nowhere,
             add_mark, add_throws, write_orc_throws, write_orc, write_orc_fails,
             finish, finish_aborted, Downgrade, downgrade_begin,
             downgrade_to_host, downgrade_to_disk, downgrade_throws, downgrade_end
    <2>2. QED
      BY <2>1 DEF FifoInv, KernelInv
  <1>3. QED
    BY <1>1, <1>2

\* Every step keeps the invariant.
LEMMA FifoStep == FifoInv /\ [Next]_vars => FifoInv'
  <1> SUFFICES ASSUME FifoInv, [Next]_vars PROVE FifoInv'
    OBVIOUS
  <1>1. FlowInv'
    BY FlowStep DEF FifoInv
  <1>2. RoomInv' /\ KernelInv'
    <2>1. CASE UNCHANGED vars
      BY <2>1 DEF FifoInv, RoomInv, KernelInv, vars, queueVars, addVars,
                  pullVars, monitorVars, endVars, Tiers, Consumer
    <2>2. CASE Next
      BY <2>2, RoomStep, KernelStep
    <2>3. QED
      BY <2>1, <2>2
  <1>3. QED
    BY <1>1, <1>2 DEF FifoInv

\* What the channel sees of a state.
View == <<IF Ordered THEN Through ELSE <<>>, IF Ordered THEN Len(taken) ELSE 0,
          finished, aborted, Ordered /\ pull_pc = "ended">>

\* The batches that came through, from three sequences: how many there are.
LEMMA Joined ==
    ASSUME NEW t \in Seq(Batches), NEW c \in Seq(Messages),
           NEW q \in Seq(Messages)
    PROVE  /\ Len(t) \in Nat /\ Len(c) \in Nat /\ Len(q) \in Nat
           /\ Len(t \o BatchesOf(c) \o BatchesOf(q)) = Len(t) + Len(c) + Len(q)
  <1> DEFINE bc == BatchesOf(c)
             bq == BatchesOf(q)
  <1>1. /\ bc \in Seq(Batches) /\ Len(bc) = Len(c)
        /\ bq \in Seq(Batches) /\ Len(bq) = Len(q)
        /\ Len(t) \in Nat /\ Len(c) \in Nat /\ Len(q) \in Nat
    BY BatchesOfEach, LenProperties
  <1> HIDE DEF bc, bq
  <1>2. t \o bc \in Seq(Batches) /\ Len(t \o bc) = Len(t) + Len(bc)
    BY <1>1, ConcatProperties
  <1>3. Len((t \o bc) \o bq) = Len(t \o bc) + Len(bq)
    BY <1>1, <1>2, ConcatProperties
  <1>4. QED
    BY <1>1, <1>2, <1>3 DEF bc, bq

\* A batch appended to the last of two sequences.
LEMMA JoinAppend ==
    ASSUME NEW S, NEW a \in Seq(S), NEW b \in Seq(S), NEW x \in S
    PROVE  a \o Append(b, x) = Append(a \o b, x)
  OBVIOUS

\* A put is a Send: the kernel has not finished its output.
LEMMA PutSends ==
    ASSUME FifoInv, FifoInv', Ordered, NEW p \in Producers, add_put(p)
    PROVE  Channel!Send
  <1>1. /\ UNCHANGED <<setting, finished, aborted, pull_pc>>
        /\ collected' = collected /\ taken' = taken
    BY DEF add_put, pullVars, endVars
  <1>2. ~finished \/ aborted
    BY FinishedIdle DEF FifoInv, Produce
  <1>3. PICK m : m \in Messages /\ put(m)
    <2>1. PICK tier \in put_tiers(p) :
              put([batch |-> Head(todo[p]), tier |-> tier])
      BY DEF add_put
    <2>2. todo[p] # <<>> /\ todo[p] \in Seq(Batches)
      BY DEF add_put, FifoInv, FlowInv, TypeInv, TypeOK, InHand
    <2>3. Head(todo[p]) \in Batches
      BY <2>2, HeadTailProperties
    <2>4. tier \in {"GPU", "CPU", "FILE"}
      BY <2>1, SettingTypes
         DEF put_tiers, Entries, FifoInv, FlowInv, TypeInv, TypeOK
    <2>5. [batch |-> Head(todo[p]), tier |-> tier] \in Messages
      BY <2>3, <2>4 DEF Messages
    <2>6. QED
      BY <2>1, <2>5
  <1>4. TypeOK /\ message_queue \in Seq(Messages)
    BY DEF FifoInv, FlowInv, TypeInv, TypeOK
  <1>5. /\ m.batch \in Batches
        /\ BatchesOf(message_queue') = Append(BatchesOf(message_queue), m.batch)
    BY <1>3, <1>4, BatchesAppend DEF put
  <1> DEFINE c == BatchesOf(collected)
             q == BatchesOf(message_queue)
  <1>6. /\ taken \o c \in Seq(Batches) /\ q \in Seq(Batches)
    BY <1>4, BatchesOfType, ConcatProperties DEF TypeOK
  <1>7. BatchesOf(collected') = c
    BY <1>1
  <1>8. Through' = (taken \o c) \o Append(q, m.batch)
    BY <1>1, <1>5, <1>7 DEF Through
  <1> HIDE DEF c, q
  <1>9. (taken \o c) \o Append(q, m.batch) = Append((taken \o c) \o q, m.batch)
    BY <1>5, <1>6, JoinAppend
  <1>10. Through' = Append(Through, m.batch)
    BY <1>8, <1>9 DEF Through, c, q
  <1>11. Ordered'
    BY <1>1 DEF Ordered, Consumer, Tiers
  <1>12. QED
    BY <1>1, <1>2, <1>5, <1>10, <1>11 DEF Channel!Send

\* What a pull that hands out batches does to the channel.
LEMMA PullTakes ==
    ASSUME FifoInv, FifoInv', Ordered, pull_message \/ release_all
    PROVE  Channel!Take
  <1> USE DEF consumerUnchanged, queueVars, endVars
  <1>0. /\ setting' = setting /\ UNCHANGED <<finished, aborted>>
        /\ Consumer = "kernel" /\ Ordered'
    BY DEF pull_message, release_all, Ordered, Consumer, Tiers
  <1>1. /\ TypeOK /\ TypeOK' /\ message_queue \in Seq(Messages)
        /\ collected \in Seq(Messages)
    BY DEF FifoInv, FlowInv, TypeInv, TypeOK
  <1>2. pull_pc # "ended" /\ pull_pc' = "pull"
    BY <1>0 DEF pull_message, release_all, PlainPull, NextPull
  <1> DEFINE c == BatchesOf(collected)
             q == BatchesOf(message_queue)
  <1>3. /\ taken \in Seq(Batches) /\ c \in Seq(Batches) /\ q \in Seq(Batches)
    BY <1>1, BatchesOfType DEF TypeOK
  <1>4. Through' = Through /\ Len(taken') > Len(taken)
    <2>1. CASE pull_message
      <3> DEFINE h == Head(message_queue).batch
                 t == BatchesOf(Tail(message_queue))
      <3>1. /\ message_queue # <<>> /\ message_queue' = Tail(message_queue)
            /\ taken' = taken \o <<h>> /\ collected' = collected
            /\ collected = <<>>
        BY <2>1 DEF pull_message, pop, deliver, PlainPull, FifoInv, FlowInv,
                    ConsumerInv
      <3>2. h \in Batches /\ q = <<h>> \o t
        BY <1>1, <3>1, BatchesHead
      <3>3. /\ <<h>> \in Seq(Batches) /\ Len(<<h>>) = 1
        BY <3>2
      <3>4. t \in Seq(Batches)
        BY <1>1, <3>1, HeadTailProperties, BatchesOfType
      <3>5. c = <<>> /\ BatchesOf(collected') = <<>>
            /\ BatchesOf(message_queue') = t
        BY <3>1 DEF BatchesOf
      <3> HIDE DEF h, t, c, q
      <3>6. Through = taken \o q
        BY <1>3, <3>5, ConcatEmptySeq DEF Through, c, q
      <3>7. taken \o <<h>> \in Seq(Batches)
            /\ Len(taken \o <<h>>) = Len(taken) + 1 /\ Len(taken) \in Nat
        BY <1>3, <3>3, ConcatProperties, LenProperties
      <3>8. Through' = (taken \o <<h>>) \o t
        BY <3>1, <3>5, <3>7, ConcatEmptySeq DEF Through
      <3>9. QED
        BY <1>3, <3>1, <3>2, <3>3, <3>4, <3>6, <3>7, <3>8, ConcatAssociative
    <2>2. CASE release_all
      <3>1. /\ message_queue' = message_queue /\ collected' = <<>>
            /\ collected # <<>> /\ taken' = taken \o c
        BY <2>2 DEF release_all, deliver
      <3>2. BatchesOf(collected') = <<>> /\ BatchesOf(message_queue') = q
        BY <3>1 DEF BatchesOf
      <3>3. Len(c) = Len(collected) /\ Len(collected) \in Nat \ {0}
        BY <1>1, <3>1, BatchesOfEach
      <3> HIDE DEF c, q
      <3>4. /\ taken \o c \in Seq(Batches)
            /\ Len(taken \o c) = Len(taken) + Len(c) /\ Len(taken) \in Nat
        BY <1>3, ConcatProperties, LenProperties
      <3>5. Through' = (taken \o c) \o q
        BY <3>1, <3>2, <3>4, ConcatEmptySeq DEF Through
      <3>6. Through = (taken \o c) \o q
        BY DEF Through, c, q
      <3>7. Len(taken \o c) > Len(taken)
        BY <3>3, <3>4
      <3>8. QED
        BY <3>1, <3>5, <3>6, <3>7
    <2>3. QED
      BY <2>1, <2>2
  <1>5. Len(taken') \in Len(taken) + 1 .. Len(Through)
    <2>1. /\ taken' \in Seq(Batches) /\ collected' \in Seq(Messages)
          /\ message_queue' \in Seq(Messages) /\ Len(taken) \in Nat
      BY <1>1, <1>3, LenProperties DEF TypeOK
    <2>2. /\ Len(taken') \in Nat
          /\ Len(collected') \in Nat /\ Len(message_queue') \in Nat
          /\ Len(Through') = Len(taken') + Len(collected') + Len(message_queue')
      BY <2>1, Joined DEF Through
    <2>3. QED
      BY <1>4, <2>1, <2>2
  <1>6. QED
    BY <1>0, <1>2, <1>4, <1>5 DEF Channel!Take

\* A pull that returns nullptr is the End: the channel is closed and drained.
LEMMA NullEnds ==
    ASSUME FifoInv, Ordered, pull_null \/ release_null
    PROVE  Channel!End
  <1>1. /\ setting' = setting /\ UNCHANGED <<finished, aborted>>
        /\ Consumer = "kernel" /\ Ordered'
        /\ message_queue' = message_queue /\ collected' = collected
        /\ taken' = taken
    BY DEF pull_null, pop_null, release_null, Ordered, Consumer, Tiers,
           consumerUnchanged, queueVars, endVars
  <1>2. pull_pc # "ended" /\ pull_pc' = "ended"
    BY <1>1 DEF pull_null, release_null, PlainPull, AfterNull
  <1>3. finished /\ collected = <<>> /\ (aborted \/ message_queue = <<>>)
    BY DEF pull_null, pop_null, release_null, PlainPull, FifoInv, FlowInv,
           ConsumerInv
  <1>4. Len(collected) = 0 /\ (aborted \/ Len(message_queue) = 0)
    BY <1>3
  <1>5. /\ Len(taken) \in Nat
        /\ Len(Through) = Len(taken) + Len(collected) + Len(message_queue)
    BY Joined DEF FifoInv, FlowInv, TypeInv, TypeOK, Through
  <1>6. Len(taken) = Len(Through) \/ aborted
    BY <1>4, <1>5
  <1>7. Through' = Through
    BY <1>1 DEF Through, BatchesOf
  <1>8. QED
    BY <1>1, <1>2, <1>3, <1>6, <1>7 DEF Channel!End

\* A step that moves batches, or none, without sending or taking any is none
\* of the channel's.
LEMMA OthersStutter ==
    ASSUME FifoInv, Ordered,
           \/ \E p \in Producers : (Produce(p) /\ ~add_put(p)) \/ add_throws(p)
           \/ \E w \in Writers : write_orc(w) \/ write_orc_fails(w)
           \/ collect \/ wait_to_concat \/ has_next_now \/ collect_null
           \/ size_check
           \/ Downgrade
    PROVE  View' = View
  <1> USE DEF queueVars, addVars, fileVars, pullVars, monitorVars, endVars,
              consumerUnchanged, monitorUnchanged
  <1>1. /\ UNCHANGED <<setting, finished, aborted, taken>>
        /\ pull_pc # "ended" \/ pull_pc' = pull_pc
        /\ pull_pc' # "ended" \/ pull_pc' = pull_pc
    BY DEF Produce, add, add_put, add_to_disk, add_nowhere, add_mark,
           add_throws, write_orc, write_orc_fails, collect, wait_to_concat,
           has_next_now, collect_null, size_check, Downgrade, downgrade_begin,
           downgrade_to_host, downgrade_to_disk, downgrade_throws,
           downgrade_end
  <1>2. /\ message_queue \in Seq(Messages) /\ collected \in Seq(Messages)
        /\ taken \in Seq(Batches)
    BY DEF FifoInv, FlowInv, TypeInv, TypeOK
  <1>3. Through' = Through
    <2>1. CASE collect
      <3> DEFINE h == Head(message_queue).batch
                 t == BatchesOf(Tail(message_queue))
                 c == BatchesOf(collected)
                 q == BatchesOf(message_queue)
      <3>1. /\ message_queue # <<>> /\ message_queue' = Tail(message_queue)
            /\ collected' = Append(collected, Head(message_queue))
        BY <2>1 DEF collect, pop
      <3>2. h \in Batches /\ q = <<h>> \o t
        BY <1>2, <3>1, BatchesHead
      <3>3. Head(message_queue) \in Messages
            /\ Tail(message_queue) \in Seq(Messages)
        BY <1>2, <3>1, HeadTailProperties
      <3>4. BatchesOf(collected') = Append(c, h)
        BY <1>2, <3>1, <3>3, BatchesAppend
      <3>5. /\ c \in Seq(Batches) /\ t \in Seq(Batches)
            /\ <<h>> \in Seq(Batches)
        <4>1. c \in Seq(Batches) /\ t \in Seq(Batches)
          BY <1>2, <3>3, BatchesOfType
        <4>2. <<h>> \in Seq(Batches)
          BY <3>2
        <4>3. QED
          BY <4>1, <4>2
      <3>6. BatchesOf(message_queue') = t
        BY <3>1
      <3> HIDE DEF h, t, c, q
      <3>7. /\ taken \o c \in Seq(Batches)
            /\ taken \o Append(c, h) = Append(taken \o c, h)
        BY <1>2, <3>2, <3>5, JoinAppend, ConcatProperties
      <3>8. Append(taken \o c, h) = (taken \o c) \o <<h>>
        BY <3>2, <3>7, AppendIsConcat
      <3>9. ((taken \o c) \o <<h>>) \o t = (taken \o c) \o (<<h>> \o t)
        BY <3>5, <3>7, ConcatAssociative
      <3>10. Through' = (taken \o Append(c, h)) \o t
        BY <1>1, <3>4, <3>6 DEF Through
      <3>11. Through = (taken \o c) \o q
        BY DEF Through, c, q
      <3>12. QED
        BY <3>2, <3>7, <3>8, <3>9, <3>10, <3>11
    <2>2. CASE downgrade_to_host
      <3>1. PICK i \in DOMAIN message_queue :
                message_queue' = [message_queue EXCEPT ![i].tier = "CPU"]
        BY <2>2 DEF downgrade_to_host
      <3>2. i \in 1 .. Len(message_queue)
        BY <1>2, LenProperties
      <3>3. BatchesOf(message_queue') = BatchesOf(message_queue)
        BY <1>2, <3>1, <3>2, BatchesMoved
      <3>4. collected' = collected
        BY <2>2 DEF downgrade_to_host
      <3>5. BatchesOf(collected') = BatchesOf(collected)
        BY <3>4
      <3>6. QED
        BY <1>1, <3>3, <3>5 DEF Through
    <2>3. CASE ~collect /\ ~downgrade_to_host
      <3>1. ~downgrade_throws
        BY DEF downgrade_throws, Writing, FifoInv, RoomInv, Ordered
      <3>2. message_queue' = message_queue /\ collected' = collected
        BY <2>3, <3>1
           DEF Produce, add, add_put, add_to_disk, add_nowhere, add_mark,
               add_throws, write_orc, write_orc_fails, wait_to_concat,
               has_next_now, collect_null, pop_null, size_check, Downgrade,
               downgrade_begin, downgrade_to_disk, downgrade_end
      <3>3. QED
        BY <1>1, <3>2 DEF Through, BatchesOf
    <2>4. QED
      BY <2>1, <2>2, <2>3
  <1>4. Ordered' = Ordered
    BY <1>1 DEF Ordered, Consumer, Tiers
  <1>5. QED
    BY <1>1, <1>3, <1>4 DEF View

\* Every step of the cache is a step of the channel, or none.
LEMMA FifoSimulates ==
    ASSUME FifoInv, FifoInv', [Next]_vars
    PROVE  [Channel!Next]_View
  <1> USE DEF queueVars, addVars, fileVars, pullVars, monitorVars, endVars,
              consumerUnchanged, monitorUnchanged
  <1>1. CASE UNCHANGED vars
    BY <1>1 DEF vars, View, Ordered, Consumer, Tiers, Through, BatchesOf
  <1>2. CASE Next /\ (finish \/ finish_aborted)
    <2>1. /\ ~finished /\ finished' = TRUE
          /\ aborted' = aborted \/ aborted' = TRUE
          /\ UNCHANGED <<setting, message_queue, collected, taken, pull_pc>>
      BY <1>2 DEF finish, finish_aborted
    <2>2. Through' = Through /\ Ordered' = Ordered
      BY <2>1 DEF Through, BatchesOf, Ordered, Consumer, Tiers
    <2>3. Channel!Close \/ Channel!Abort
      BY <2>1, <2>2 DEF Channel!Close, Channel!Abort
    <2>4. QED
      BY <2>3 DEF Channel!Next
  <1>3. CASE Next /\ ~(finish \/ finish_aborted) /\ ~Ordered
    <2>1. setting' = setting /\ UNCHANGED <<finished, aborted>>
      BY <1>3 DEF Next, Produce, add, add_put, add_to_disk, add_nowhere,
             add_mark, add_throws, write_orc_throws, write_orc, write_orc_fails,
             Consume, wait_for_next, pull_message, pull_null, pullUnorderedFromCache,
             wait_to_concat, has_next_now, collect, collect_null, size_check,
             release_null, release_all, release_some, put_back, Downgrade,
             downgrade_begin, downgrade_to_host, downgrade_to_disk,
             downgrade_throws, downgrade_end
    <2>2. ~Ordered'
      BY <1>3, <2>1 DEF Ordered, Consumer, Tiers
    <2>3. View = <<<<>>, 0, finished, aborted, FALSE>>
      BY <1>3 DEF View
    <2>4. View' = <<<<>>, 0, finished', aborted', FALSE>>
      BY <2>2 DEF View
    <2>5. QED
      BY <2>1, <2>3, <2>4
  <1>4. CASE Next /\ ~(finish \/ finish_aborted) /\ Ordered
    <2>1. CASE \E p \in Producers : add_put(p)
      BY <1>4, <2>1, PutSends DEF Channel!Next
    <2>2. CASE pull_message \/ release_all
      BY <1>4, <2>2, PullTakes DEF Channel!Next
    <2>3. CASE pull_null \/ release_null
      BY <1>4, <2>3, NullEnds DEF Channel!Next
    <2>4. ~wait_for_next /\ ~pullUnorderedFromCache /\ ~release_some
          /\ ~put_back
      BY <1>4 DEF wait_for_next, pullUnorderedFromCache, release_some,
             put_back, FifoInv, KernelInv, Ordered
    <2>5. \A p \in Producers : ~write_orc_throws(p)
      BY <1>4, CacheAssumption
         DEF write_orc_throws, Writing, FifoInv, RoomInv, Ordered
    <2>6. CASE /\ ~(\E p \in Producers : add_put(p))
               /\ ~(pull_message \/ release_all)
               /\ ~(pull_null \/ release_null)
      <3>1. \/ \E p \in Producers : (Produce(p) /\ ~add_put(p)) \/ add_throws(p)
            \/ \E w \in Writers : write_orc(w) \/ write_orc_fails(w)
            \/ collect \/ wait_to_concat \/ has_next_now \/ collect_null
            \/ size_check
            \/ Downgrade
        BY <1>4, <2>4, <2>5, <2>6 DEF Next, Consume
      <3>2. QED
        BY <1>4, <3>1, OthersStutter
    <2>7. QED
      BY <2>1, <2>2, <2>3, <2>6
  <1>5. QED
    BY <1>1, <1>2, <1>3, <1>4

\* For a kernel that pulls, where memory holds every table, the cache is a
\* FIFO channel: whatever the tiers, the downgrades and the concatenation, the
\* batches come out in the order they were put, and the end comes last.
THEOREM CacheIsFifo == Spec => IsFifoChannel
  <1>1. Init => Channel!Init
    <2> SUFFICES ASSUME Init PROVE Channel!Init
      OBVIOUS
    <2>1. /\ taken = <<>> /\ collected = <<>> /\ message_queue = <<>>
          /\ finished = FALSE /\ aborted = FALSE /\ pull_pc # "ended"
      BY DEF Init
    <2>2. BatchesOf(<<>>) = <<>>
      BY DEF BatchesOf
    <2>3. Through = <<>> /\ Len(taken) = 0
      BY <2>1, <2>2 DEF Through
    <2>4. QED
      BY <2>1, <2>3 DEF Channel!Init
  <1>2. FifoInv /\ FifoInv' /\ [Next]_vars => [Channel!Next]_View
    BY FifoSimulates
  <1>3. QED
    BY <1>1, <1>2, FifoInit, FifoStep, PTL
       DEF Spec, IsFifoChannel, Channel!Spec, View

-----------------------------------------------------------------------------
(* Every batch is in one place. *)

\* The batches of some of the messages.
LEMMA BatchesPiece ==
    ASSUME NEW s \in Seq(Messages), NEW a \in Nat, NEW b \in Nat,
           1 <= a, a <= b + 1, b <= Len(s)
    PROVE  BatchesOf(SubSeq(s, a, b)) = SubSeq(BatchesOf(s), a, b)
  <1> DEFINE p == SubSeq(s, a, b)
             t == BatchesOf(s)
             r == SubSeq(t, a, b)
  <1>1. /\ p \in Seq(Messages) /\ Len(p) = b - a + 1
        /\ \A j \in 1 .. b - a + 1 : p[j] = s[a + j - 1]
    BY Piece
  <1>2. /\ t \in Seq(Batches) /\ Len(t) = Len(s) /\ Len(s) \in Nat
        /\ \A i \in 1 .. Len(s) : t[i] = s[i].batch
    BY BatchesOfEach
  <1> HIDE DEF p, t
  <1>3. /\ r \in Seq(Batches) /\ Len(r) = b - a + 1
        /\ \A j \in 1 .. b - a + 1 : r[j] = t[a + j - 1]
    BY <1>2, Piece
  <1>4. /\ BatchesOf(p) \in Seq(Batches) /\ Len(BatchesOf(p)) = Len(p)
        /\ \A i \in 1 .. Len(p) : BatchesOf(p)[i] = p[i].batch
    BY <1>1, BatchesOfEach
  <1> HIDE DEF r
  <1>5. ASSUME NEW j \in 1 .. b - a + 1 PROVE BatchesOf(p)[j] = r[j]
    <2>1. a + j - 1 \in 1 .. Len(s)
      BY <1>2
    <2>2. QED
      BY <1>1, <1>2, <1>3, <1>4, <2>1
  <1>6. BatchesOf(p) = r
    BY <1>1, <1>3, <1>4, <1>5, SeqEqual
  <1>7. QED
    BY <1>6 DEF p, r, t

\* The batches of two queues, one after the other.
LEMMA BatchesConcat ==
    ASSUME NEW s \in Seq(Messages), NEW t \in Seq(Messages)
    PROVE  BatchesOf(s \o t) = BatchesOf(s) \o BatchesOf(t)
  <1> DEFINE u == s \o t
             bs == BatchesOf(s)
             bt == BatchesOf(t)
             r == bs \o bt
  <1>1. /\ u \in Seq(Messages) /\ Len(u) = Len(s) + Len(t)
        /\ \A i \in 1 .. Len(s) + Len(t) :
               u[i] = IF i <= Len(s) THEN s[i] ELSE t[i - Len(s)]
    BY ConcatProperties
  <1>2. /\ bs \in Seq(Batches) /\ Len(bs) = Len(s) /\ Len(s) \in Nat
        /\ \A i \in 1 .. Len(s) : bs[i] = s[i].batch
    BY BatchesOfEach
  <1>3. /\ bt \in Seq(Batches) /\ Len(bt) = Len(t) /\ Len(t) \in Nat
        /\ \A i \in 1 .. Len(t) : bt[i] = t[i].batch
    BY BatchesOfEach
  <1> HIDE DEF u, bs, bt
  <1>4. /\ r \in Seq(Batches) /\ Len(r) = Len(s) + Len(t)
        /\ \A i \in 1 .. Len(s) + Len(t) :
               r[i] = IF i <= Len(s) THEN bs[i] ELSE bt[i - Len(s)]
    <2>1. bs \in Seq(Batches) /\ bt \in Seq(Batches)
      BY <1>2, <1>3
    <2>2. /\ r \in Seq(Batches) /\ Len(r) = Len(bs) + Len(bt)
          /\ \A i \in 1 .. Len(bs) + Len(bt) :
                 r[i] = IF i <= Len(bs) THEN bs[i] ELSE bt[i - Len(bs)]
      BY <2>1, ConcatProperties
    <2>3. QED
      BY <1>2, <1>3, <2>2
  <1>5. /\ BatchesOf(u) \in Seq(Batches) /\ Len(BatchesOf(u)) = Len(u)
        /\ \A i \in 1 .. Len(u) : BatchesOf(u)[i] = u[i].batch
    BY <1>1, BatchesOfEach
  <1> HIDE DEF r
  <1>6. ASSUME NEW i \in 1 .. Len(s) + Len(t) PROVE BatchesOf(u)[i] = r[i]
    <2>1. CASE i <= Len(s)
      <3>1. i \in 1 .. Len(s)
        BY <1>2, <2>1
      <3>2. r[i] = s[i].batch /\ u[i] = s[i]
        BY <1>1, <1>2, <1>4, <2>1, <3>1
      <3>3. QED
        BY <1>1, <1>5, <3>2
    <2>2. CASE ~(i <= Len(s))
      <3>1. i - Len(s) \in 1 .. Len(t)
        BY <1>2, <1>3, <2>2
      <3>2. QED
        BY <1>1, <1>3, <1>4, <1>5, <2>2, <3>1
    <2>3. QED
      BY <2>1, <2>2
  <1>7. BatchesOf(u) = r
    BY <1>1, <1>4, <1>5, <1>6, SeqEqual
  <1>8. QED
    BY <1>7 DEF u, r, bs, bt

\* RemoveAt and BatchesOf commute.
LEMMA BatchesRemoved ==
    ASSUME NEW s \in Seq(Messages), NEW i \in 1 .. Len(s)
    PROVE  /\ s[i].batch = BatchesOf(s)[i]
           /\ BatchesOf(RemoveAt(s, i)) = RemoveAt(BatchesOf(s), i)
  <1>1. /\ Len(s) \in Nat /\ Len(BatchesOf(s)) = Len(s)
        /\ s[i].batch = BatchesOf(s)[i]
    BY BatchesOfEach
  <1>2. /\ 1 \in Nat /\ i - 1 \in Nat /\ 1 <= 1 /\ 1 <= i - 1 + 1
        /\ i - 1 <= Len(s) /\ i + 1 \in Nat /\ 1 <= i + 1
        /\ i + 1 <= Len(s) + 1 /\ Len(s) <= Len(s)
    BY <1>1
  <1>3. BatchesOf(SubSeq(s, 1, i - 1)) = SubSeq(BatchesOf(s), 1, i - 1)
    BY <1>1, <1>2, BatchesPiece
  <1>4. BatchesOf(SubSeq(s, i + 1, Len(s)))
          = SubSeq(BatchesOf(s), i + 1, Len(s))
    BY <1>1, <1>2, BatchesPiece
  <1>5. /\ SubSeq(s, 1, i - 1) \in Seq(Messages)
        /\ SubSeq(s, i + 1, Len(s)) \in Seq(Messages)
    BY <1>1, <1>2, Piece
  <1>6. QED
    BY <1>1, <1>3, <1>4, <1>5, BatchesConcat DEF RemoveAt

\* The first batch of a queue and the batches after it, once more.
LEMMA BatchesTail ==
    ASSUME NEW s \in Seq(Messages), s # <<>>
    PROVE  /\ BatchesOf(s) \in Seq(Batches)
           /\ BatchesOf(s) # <<>>
           /\ Head(BatchesOf(s)) = Head(s).batch
           /\ Tail(BatchesOf(s)) = BatchesOf(Tail(s))
  <1> DEFINE h == Head(s).batch
             t == BatchesOf(Tail(s))
  <1>1. h \in Batches /\ BatchesOf(s) = <<h>> \o t
    BY BatchesHead
  <1>2. BatchesOf(s) \in Seq(Batches) /\ t \in Seq(Batches)
    BY HeadTailProperties, BatchesOfType
  <1> HIDE DEF h, t
  <1>3. /\ <<h>> \o t # <<>> /\ Head(<<h>> \o t) = h /\ Tail(<<h>> \o t) = t
    BY <1>1, <1>2
  <1>4. QED
    BY <1>1, <1>2, <1>3 DEF h, t

\* What a producer has still to put, what all of them have, and what they had.
Rest(p) == IF add_pc[p] \in {"mark", "threw"} THEN Tail(todo[p]) ELSE todo[p]
Waiting == UNION {ToSet(Rest(p)) : p \in Producers}
AllInput == UNION {ToSet(Input[p]) : p \in Producers}

\* The producers work through their own inputs, each batch once.
TodoInv ==
    \A p \in Producers :
        /\ add_pc[p] = "threw" => todo[p] # <<>>
        /\ IsInjective(todo[p])
        /\ ToSet(todo[p]) \subseteq ToSet(Input[p])

\* Each of the sets has elements of its own, and together they are U.
Partition(A, B, C, D, E, F, U) ==
    /\ A \cup B \cup C \cup D \cup E \cup F = U
    /\ A \cap (B \cup C \cup D \cup E \cup F) = {}
    /\ B \cap (C \cup D \cup E \cup F) = {}
    /\ C \cap (D \cup E \cup F) = {}
    /\ D \cap (E \cup F) = {}
    /\ E \cap F = {}

\* A batch waits, is queued, is in the consumer's hands, was delivered, skipped
\* or lost, and is nowhere twice.
PlaceInv ==
    /\ IsInjective(BatchesOf(message_queue))
    /\ IsInjective(BatchesOf(collected))
    /\ IsInjective(taken)
    /\ Partition(Waiting, ToSet(BatchesOf(message_queue)),
                 ToSet(BatchesOf(collected)), ToSet(taken), skipped, lost,
                 AllInput)

ConservedInv == FlowInv /\ TodoInv /\ PlaceInv

\* What the producers' state and the constants say about their batches.
LEMMA RestFacts ==
    ASSUME FlowInv, TodoInv, NEW p \in Producers
    PROVE  /\ todo[p] \in Seq(Batches)
           /\ add_pc[p] \in {"place", "write", "mark", "threw"} =>
                 todo[p] # <<>>
           /\ Rest(p) \in Seq(Batches)
           /\ IsInjective(Rest(p))
           /\ ToSet(Rest(p)) \subseteq ToSet(todo[p])
           /\ ToSet(todo[p]) \subseteq ToSet(Input[p])
  <1>1. /\ todo[p] \in Seq(Batches)
        /\ add_pc[p] \in {"place", "write", "mark", "threw"} => todo[p] # <<>>
        /\ IsInjective(todo[p]) /\ ToSet(todo[p]) \subseteq ToSet(Input[p])
    BY DEF FlowInv, TypeInv, TypeOK, InHand, TodoInv
  <1>2. CASE add_pc[p] \in {"mark", "threw"}
    BY <1>1, <1>2, TailQueue DEF Rest
  <1>3. CASE add_pc[p] \notin {"mark", "threw"}
    BY <1>1, <1>3 DEF Rest
  <1>4. QED
    BY <1>1, <1>2, <1>3

\* No two producers wait with the same batch.
LEMMA RestsApart ==
    ASSUME FlowInv, TodoInv, NEW p \in Producers, NEW q \in Producers, p # q
    PROVE  ToSet(Rest(p)) \cap ToSet(Rest(q)) = {}
  <1>1. Range(Input[p]) \cap Range(Input[q]) = {}
    BY InputAssumption DEF FlowInv, TypeInv, TypeOK, Input
  <1>2. ToSet(Input[p]) \cap ToSet(Input[q]) = {}
    BY <1>1 DEF ToSet, Range
  <1>3. /\ ToSet(Rest(p)) \subseteq ToSet(Input[p])
        /\ ToSet(Rest(q)) \subseteq ToSet(Input[q])
    BY RestFacts
  <1>4. QED
    BY <1>2, <1>3

\* A producer is done with its first batch: one batch less is waiting.
LEMMA WaitingLoses ==
    ASSUME FlowInv, TodoInv, NEW p \in Producers, Rest(p) # <<>>,
           Rest(p)' = Tail(Rest(p)),
           \A q \in Producers \ {p} : Rest(q)' = Rest(q)
    PROVE  /\ Head(Rest(p)) \in Waiting
           /\ Waiting' = Waiting \ {Head(Rest(p))}
  <1> DEFINE h == Head(Rest(p))
  <1>1. Rest(p) \in Seq(Batches) /\ IsInjective(Rest(p))
    BY RestFacts
  <1>2. /\ h \in ToSet(Rest(p))
        /\ ToSet(Rest(p)) = ToSet(Tail(Rest(p))) \cup {h}
        /\ h \notin ToSet(Tail(Rest(p)))
    BY <1>1, TailQueue
  <1>3. \A q \in Producers \ {p} : h \notin ToSet(Rest(q))
    BY <1>2, RestsApart
  <1> HIDE DEF h
  <1>4. h \in Waiting
    BY <1>2 DEF Waiting
  <1>5. ToSet(Rest(p))' = ToSet(Rest(p)) \ {h}
    BY <1>2 DEF ToSet
  <1>6. \A q \in Producers \ {p} : ToSet(Rest(q))' = ToSet(Rest(q)) \ {h}
    BY <1>3 DEF ToSet
  <1>7. \A q \in Producers : ToSet(Rest(q))' = ToSet(Rest(q)) \ {h}
    BY <1>5, <1>6
  <1>8. Waiting' = Waiting \ {h}
    <2>1. ASSUME NEW y PROVE y \in Waiting' <=> \E q \in Producers : y \in ToSet(Rest(q))'
      BY DEF Waiting
    <2>2. ASSUME NEW y PROVE y \in Waiting <=> \E q \in Producers : y \in ToSet(Rest(q))
      BY DEF Waiting
    <2>3. ASSUME NEW y PROVE y \in Waiting' <=> y \in Waiting \ {h}
      BY <1>7, <2>1, <2>2
    <2>4. QED
      BY <2>3
  <1>9. QED
    BY <1>4, <1>8 DEF h

\* Nobody put anything: as many are waiting.
LEMMA WaitingStays ==
    ASSUME \A q \in Producers : Rest(q)' = Rest(q)
    PROVE  Waiting' = Waiting
  <1>1. \A q \in Producers : ToSet(Rest(q))' = ToSet(Rest(q))
    BY DEF ToSet
  <1>2. ASSUME NEW y PROVE y \in Waiting' <=> y \in Waiting
    BY <1>1 DEF Waiting
  <1>3. QED
    BY <1>2

\* The producers' part of the invariant.
LEMMA TodoStep ==
    ASSUME FlowInv, TodoInv, [Next]_vars
    PROVE  TodoInv' /\ AllInput' = AllInput
  <1> USE DEF queueVars, addVars, fileVars, pullVars, monitorVars, endVars,
              consumerUnchanged, monitorUnchanged
  <1>1. setting' = setting
    BY DEF vars, Next, Produce, add, add_put, add_to_disk, add_nowhere,
           add_mark, add_throws, write_orc_throws, write_orc, write_orc_fails,
           finish, finish_aborted, Consume, wait_for_next, pull_message,
           pull_null, pullUnorderedFromCache, wait_to_concat, has_next_now, collect,
           collect_null, size_check, release_null, release_all,
           release_some, put_back, Downgrade, downgrade_begin,
           downgrade_to_host, downgrade_to_disk, downgrade_throws,
           downgrade_end
  <1>2. AllInput' = AllInput /\ Input' = Input
    BY <1>1 DEF AllInput, Input
  <1>3. /\ todo \in [Producers -> Seq(Batches)]
        /\ add_pc \in [Producers -> AddPcs]
    BY DEF FlowInv, TypeInv, TypeOK
  <1>4. ASSUME NEW p \in Producers,
               Produce(p) \/ add_throws(p) \/ write_orc_throws(p)
        PROVE  TodoInv'
    <2>1. /\ \A q \in Producers \ {p} :
                add_pc'[q] = add_pc[q] /\ todo'[q] = todo[q]
          /\ \/ todo'[p] = todo[p]
             \/ todo'[p] = Tail(todo[p]) /\ todo[p] # <<>>
          /\ add_pc'[p] = "threw" => todo[p] # <<>> /\ todo'[p] = todo[p]
      BY <1>3, <1>4, RestFacts, CacheAssumption
         DEF Produce, add, add_put, add_to_disk, add_nowhere,
             add_mark, add_throws, write_orc_throws, Writing
    <2>2. /\ IsInjective(todo'[p])
          /\ ToSet(todo'[p]) \subseteq ToSet(Input[p])
      <3>1. CASE todo'[p] = todo[p]
        BY <3>1 DEF TodoInv
      <3>2. CASE todo'[p] = Tail(todo[p]) /\ todo[p] # <<>>
        <4>1. todo[p] \in Seq(Batches) /\ IsInjective(todo[p])
              /\ ToSet(todo[p]) \subseteq ToSet(Input[p])
          BY <1>3 DEF TodoInv
        <4>2. IsInjective(Tail(todo[p]))
              /\ ToSet(Tail(todo[p])) \subseteq ToSet(todo[p])
          BY <3>2, <4>1, TailQueue
        <4>3. QED
          BY <3>2, <4>1, <4>2
      <3>3. QED
        BY <2>1, <3>1, <3>2
    <2>3. ASSUME NEW q \in Producers
          PROVE  /\ add_pc'[q] = "threw" => todo'[q] # <<>>
                 /\ IsInjective(todo'[q])
                 /\ ToSet(todo'[q]) \subseteq ToSet(Input'[q])
      <3>1. CASE q = p
        BY <1>2, <2>1, <2>2, <3>1
      <3>2. CASE q # p
        BY <1>2, <2>1, <3>2 DEF TodoInv
      <3>3. QED
        BY <3>1, <3>2
    <2>4. QED
      BY <2>3 DEF TodoInv
  <1>5. CASE ~(\E p \in Producers :
                   Produce(p) \/ add_throws(p) \/ write_orc_throws(p))
    <2>1. UNCHANGED <<todo, add_pc>>
      BY <1>5 DEF vars, Next, write_orc, write_orc_fails, finish,
           finish_aborted, Consume, wait_for_next, pull_message, pull_null,
           pullUnorderedFromCache, wait_to_concat, has_next_now, collect,
           collect_null, size_check, release_null, release_all,
           release_some, put_back, Downgrade, downgrade_begin,
           downgrade_to_host, downgrade_to_disk, downgrade_throws,
           downgrade_end
    <2>2. QED
      BY <1>2, <2>1 DEF TodoInv
  <1>6. QED
    BY <1>2, <1>4, <1>5

\* What is waiting after a producer's step: all but the batch in its hands,
\* when it was put, skipped or lost.
LEMMA WaitingStep ==
    ASSUME FlowInv, TodoInv, NEW p \in Producers
    PROVE  /\ \/ add(p) /\ admits(p, Head(todo[p]))
              \/ add_to_disk(p) \/ add_mark(p)
              \/ add_throws(p) /\ add_pc'[p] = "ready"
              => Waiting' = Waiting
           /\ \/ add(p) /\ ~admits(p, Head(todo[p]))
              \/ add_put(p) \/ add_nowhere(p) \/ write_orc_throws(p)
              \/ add_throws(p) /\ add_pc'[p] = "threw"
              => /\ todo[p] # <<>>
                 /\ Head(todo[p]) \in Batches
                 /\ Head(todo[p]) \in Waiting
                 /\ Waiting' = Waiting \ {Head(todo[p])}
  <1>0. /\ todo \in [Producers -> Seq(Batches)]
        /\ add_pc \in [Producers -> AddPcs]
        /\ "monitor" \notin Producers
    BY CacheAssumption DEF FlowInv, TypeInv, TypeOK
  <1>1. ASSUME \/ add(p) /\ admits(p, Head(todo[p]))
               \/ add_to_disk(p) \/ add_mark(p)
               \/ add_throws(p) /\ add_pc'[p] = "ready"
        PROVE  Waiting' = Waiting
    <2>1. CASE add(p) /\ admits(p, Head(todo[p]))
      <3>1. /\ add_pc[p] = "ready" /\ todo' = todo
            /\ add_pc' = [add_pc EXCEPT ![p] = "place"]
        BY <2>1 DEF add
      <3>2. \A q \in Producers : Rest(q)' = Rest(q)
        BY <1>0, <3>1 DEF Rest
      <3>3. QED
        BY <3>2, WaitingStays
    <2>2. CASE add_to_disk(p)
      <3>1. /\ add_pc[p] = "place" /\ todo' = todo
            /\ add_pc' = [add_pc EXCEPT ![p] = "write"]
        BY <2>2 DEF add_to_disk
      <3>2. \A q \in Producers : Rest(q)' = Rest(q)
        BY <1>0, <3>1 DEF Rest
      <3>3. QED
        BY <3>2, WaitingStays
    <2>3. CASE add_mark(p)
      <3>1. /\ add_pc[p] = "mark" /\ todo' = [todo EXCEPT ![p] = Tail(@)]
            /\ add_pc' = [add_pc EXCEPT ![p] = "ready"]
        BY <2>3 DEF add_mark
      <3>2. \A q \in Producers : Rest(q)' = Rest(q)
        BY <1>0, <3>1 DEF Rest
      <3>3. QED
        BY <3>2, WaitingStays
    <2>4. CASE add_throws(p) /\ add_pc'[p] = "ready"
      <3>1. /\ add_pc[p] = "place" /\ todo' = todo
            /\ add_pc' = [add_pc EXCEPT ![p] = "ready"]
        BY <1>0, <2>4 DEF add_throws
      <3>2. \A q \in Producers : Rest(q)' = Rest(q)
        BY <1>0, <3>1 DEF Rest
      <3>3. QED
        BY <3>2, WaitingStays
    <2>5. QED
      BY <1>1, <2>1, <2>2, <2>3, <2>4
  <1>2. ASSUME \/ add(p) /\ ~admits(p, Head(todo[p]))
               \/ add_put(p) \/ add_nowhere(p) \/ write_orc_throws(p)
               \/ add_throws(p) /\ add_pc'[p] = "threw"
        PROVE  /\ todo[p] # <<>>
               /\ Head(todo[p]) \in Batches
               /\ Head(todo[p]) \in Waiting
               /\ Waiting' = Waiting \ {Head(todo[p])}
    <2>1. /\ add_pc[p] \in {"ready", "place", "write"}
          /\ todo[p] # <<>>
          /\ \/ /\ add_pc[p] = "ready" /\ add_pc' = add_pc
                /\ todo' = [todo EXCEPT ![p] = Tail(@)]
             \/ /\ \E pc \in {"mark", "threw"} :
                       add_pc' = [add_pc EXCEPT ![p] = pc]
                /\ todo' = todo
      BY <1>0, <1>2, RestFacts
         DEF add, add_put, add_nowhere, add_throws, write_orc_throws, Writing,
             addVars
    <2>2. Rest(p) = todo[p]
      BY <2>1 DEF Rest
    <2>3. Rest(p)' = Tail(todo[p]) /\ \A q \in Producers \ {p} : Rest(q)' = Rest(q)
      BY <1>0, <2>1 DEF Rest
    <2>4. Head(todo[p]) \in Batches
      BY <1>0, <2>1, HeadTailProperties
    <2>5. QED
      BY <2>1, <2>2, <2>3, <2>4, WaitingLoses
  <1>3. QED
    BY <1>1, <1>2

\* A producer's step moves the batch in its hands, if any.
LEMMA PlaceProduce ==
    ASSUME ConservedInv, NEW p \in Producers,
           Produce(p) \/ add_throws(p) \/ write_orc_throws(p),
           AllInput' = AllInput
    PROVE  PlaceInv'
  <1> USE DEF queueVars, addVars, fileVars, pullVars, monitorVars, endVars
  <1> DEFINE h == Head(todo[p])
             q == BatchesOf(message_queue)
             c == BatchesOf(collected)
  <1>0. /\ FlowInv /\ TodoInv
        /\ IsInjective(q) /\ IsInjective(c) /\ IsInjective(taken)
        /\ Partition(Waiting, ToSet(q), ToSet(c), ToSet(taken), skipped, lost,
                     AllInput)
    BY DEF ConservedInv, PlaceInv
  <1>1. /\ collected' = collected /\ taken' = taken
    BY DEF Produce, add, add_put, add_to_disk, add_nowhere, add_mark,
           add_throws, write_orc_throws
  <1>2. BatchesOf(collected') = c /\ ToSet(taken') = ToSet(taken)
        /\ IsInjective(taken')
    BY <1>0, <1>1
  <1>6. /\ add_pc \in [Producers -> AddPcs]
        /\ add_throws(p) => add_pc'[p] \in {"ready", "threw"}
    BY DEF ConservedInv, FlowInv, TypeInv, TypeOK, add_throws
  <1>3. CASE add_put(p)
    <2>1. /\ skipped' = skipped /\ lost' = lost
      BY <1>3 DEF add_put
    <2>2. /\ h \in Batches /\ h \in Waiting /\ Waiting' = Waiting \ {h}
          /\ todo[p] # <<>>
      BY <1>0, <1>3, WaitingStep
    <2>3. PICK tier \in put_tiers(p) : put([batch |-> h, tier |-> tier])
      BY <1>3 DEF add_put
    <2>4. tier \in {"GPU", "CPU", "FILE"}
      BY <1>0, SettingTypes
         DEF put_tiers, Entries, FlowInv, TypeInv, TypeOK
    <2> DEFINE m == [batch |-> h, tier |-> tier]
    <2>5. m \in Messages /\ m.batch = h
      BY <2>2, <2>4 DEF Messages
    <2>6. message_queue' = Append(message_queue, m)
          /\ message_queue \in Seq(Messages)
      BY <1>0, <2>3 DEF put, FlowInv, TypeInv, TypeOK
    <2> HIDE DEF m, h
    <2>7. BatchesOf(message_queue') = Append(q, h) /\ q \in Seq(Batches)
      BY <2>5, <2>6, BatchesAppend, BatchesOfType
    <2>8. h \notin ToSet(q)
      BY <1>0, <2>2 DEF Partition
    <2>9. /\ ToSet(Append(q, h)) = ToSet(q) \cup {h}
          /\ IsInjective(Append(q, h))
      BY <1>0, <2>2, <2>7, <2>8, AppendQueue
    <2> HIDE DEF q, c
    <2>10. Partition(Waiting \ {h}, ToSet(q) \cup {h}, ToSet(c), ToSet(taken),
                     skipped, lost, AllInput)
      BY <1>0, <2>2 DEF Partition
    <2>11. QED
      BY <1>0, <1>2, <2>1, <2>2, <2>7, <2>9, <2>10 DEF PlaceInv
  <1>4. CASE ~add_put(p)
    <2>1. message_queue' = message_queue
      BY <1>4 DEF Produce, add, add_put, add_to_disk, add_nowhere, add_mark,
                  add_throws, write_orc_throws
    <2>2. BatchesOf(message_queue') = q
      BY <2>1
    <2> HIDE DEF q, c
    <2>3. CASE \/ add(p) /\ admits(p, h)
               \/ add_to_disk(p) \/ add_mark(p)
               \/ add_throws(p) /\ add_pc'[p] = "ready"
      <3>1. Waiting' = Waiting
        BY <1>0, <2>3, WaitingStep
      <3>2. skipped' = skipped /\ lost' = lost
        BY <1>6, <2>3 DEF add, add_to_disk, add_mark, add_throws
      <3>3. QED
        BY <1>0, <1>2, <2>2, <3>1, <3>2 DEF PlaceInv
    <2>4. CASE add(p) /\ ~admits(p, h)
      <3>1. h \in Waiting /\ Waiting' = Waiting \ {h}
        BY <1>0, <2>4, WaitingStep
      <3>2. skipped' = skipped \cup {h} /\ lost' = lost
        BY <2>4 DEF add
      <3> HIDE DEF h
      <3>3. Partition(Waiting \ {h}, ToSet(q), ToSet(c), ToSet(taken),
                      skipped \cup {h}, lost, AllInput)
        BY <1>0, <3>1 DEF Partition
      <3>4. QED
        BY <1>0, <1>2, <2>2, <3>1, <3>2, <3>3 DEF PlaceInv
    <2>5. CASE \/ add_nowhere(p) \/ write_orc_throws(p)
               \/ add_throws(p) /\ add_pc'[p] = "threw"
      <3>1. h \in Waiting /\ Waiting' = Waiting \ {h}
        BY <1>0, <2>5, WaitingStep
      <3>2. lost' = lost \cup {h} /\ skipped' = skipped
        BY <1>6, <2>5 DEF add_nowhere, add_throws, write_orc_throws
      <3> HIDE DEF h
      <3>3. Partition(Waiting \ {h}, ToSet(q), ToSet(c), ToSet(taken),
                      skipped, lost \cup {h}, AllInput)
        BY <1>0, <3>1 DEF Partition
      <3>4. QED
        BY <1>0, <1>2, <2>2, <3>1, <3>2, <3>3 DEF PlaceInv
    <2>6. QED
      BY <1>4, <1>6, <2>3, <2>4, <2>5 DEF Produce
  <1>5. QED
    BY <1>3, <1>4

\* The end of every case below: what the queue, the consumer's hands and the
\* consumer have after the step.
LEMMA PlaceResult ==
    ASSUME NEW nq, NEW nc, NEW nt,
           Waiting' = Waiting, skipped' = skipped, lost' = lost,
           AllInput' = AllInput,
           BatchesOf(message_queue') = nq, BatchesOf(collected') = nc,
           taken' = nt,
           IsInjective(nq), IsInjective(nc), IsInjective(nt),
           Partition(Waiting, ToSet(nq), ToSet(nc), ToSet(nt), skipped, lost,
                     AllInput)
    PROVE  PlaceInv'
  BY DEF PlaceInv

\* Pulls of single tables: from the queue to the consumer.
LEMMA PlacePull ==
    ASSUME ConservedInv, pull_message \/ pullUnorderedFromCache,
           AllInput' = AllInput, Waiting' = Waiting
    PROVE  PlaceInv'
  <1> USE DEF queueVars, addVars, consumerUnchanged
  <1> DEFINE q == BatchesOf(message_queue)
             c == BatchesOf(collected)
  <1>0. /\ FlowInv /\ IsInjective(q) /\ IsInjective(c) /\ IsInjective(taken)
        /\ Partition(Waiting, ToSet(q), ToSet(c), ToSet(taken), skipped, lost,
                     AllInput)
    BY DEF ConservedInv, PlaceInv
  <1>1. /\ skipped' = skipped /\ lost' = lost /\ collected' = collected
    BY DEF pull_message, pullUnorderedFromCache
  <1>2. BatchesOf(collected') = c
    BY <1>1
  <1>3. message_queue \in Seq(Messages) /\ taken \in Seq(Batches)
    BY <1>0 DEF FlowInv, TypeInv, TypeOK
  <1>4. q \in Seq(Batches)
    BY <1>3, BatchesOfType
  <1>5. \/ /\ message_queue' = message_queue /\ taken' = taken
        \/ \E x \in Batches :
              /\ taken' = taken \o <<x>>
              /\ x \in ToSet(q)
              /\ IsInjective(BatchesOf(message_queue'))
              /\ ToSet(BatchesOf(message_queue')) = ToSet(q) \ {x}
    <2>1. CASE pull_message
      <3>1. /\ message_queue # <<>> /\ message_queue' = Tail(message_queue)
            /\ taken' = taken \o <<Head(message_queue).batch>>
        BY <2>1 DEF pull_message, pop, deliver
      <3>2. /\ q # <<>> /\ Head(q) = Head(message_queue).batch
            /\ Tail(q) = BatchesOf(Tail(message_queue))
        BY <1>3, <3>1, BatchesTail
      <3>3. /\ Head(q) \in Batches /\ Head(q) \in ToSet(q)
            /\ ToSet(q) = ToSet(Tail(q)) \cup {Head(q)}
            /\ IsInjective(Tail(q)) /\ Head(q) \notin ToSet(Tail(q))
        BY <1>0, <1>4, <3>2, TailQueue
      <3>4. BatchesOf(message_queue') = Tail(q)
        BY <3>1, <3>2
      <3> HIDE DEF q
      <3>5. QED
        BY <3>1, <3>2, <3>3, <3>4
    <2>2. CASE pullUnorderedFromCache
      <3>1. CASE message_queue' = message_queue /\ taken' = taken
        BY <3>1
      <3>2. CASE ~(message_queue' = message_queue /\ taken' = taken)
        <4>1. PICK i \in DOMAIN message_queue :
                  /\ taken' = taken \o <<message_queue[i].batch>>
                  /\ message_queue' = RemoveAt(message_queue, i)
          BY <2>2, <3>2 DEF pullUnorderedFromCache, deliver
        <4>2. i \in 1 .. Len(message_queue)
          BY <1>3, LenProperties
        <4>3. /\ message_queue[i].batch = q[i]
              /\ BatchesOf(RemoveAt(message_queue, i)) = RemoveAt(q, i)
          BY <1>3, <4>2, BatchesRemoved
        <4>4. i \in 1 .. Len(q)
          BY <1>3, <4>2, BatchesOfEach
        <4>5. /\ q[i] \in ToSet(q) /\ IsInjective(RemoveAt(q, i))
              /\ ToSet(RemoveAt(q, i)) = ToSet(q) \ {q[i]}
          BY <1>0, <1>4, <4>4, RemoveQueue
        <4>6. q[i] \in Batches
          BY <1>4, <4>4, ElementOfSeq
        <4>7. BatchesOf(message_queue') = RemoveAt(q, i)
          BY <4>1, <4>3
        <4> HIDE DEF q
        <4>8. QED
          BY <4>1, <4>3, <4>5, <4>6, <4>7
      <3>3. QED
        BY <3>1, <3>2
    <2>3. QED
      BY <2>1, <2>2
  <1>6. CASE message_queue' = message_queue /\ taken' = taken
    <2>1. BatchesOf(message_queue') = q
      BY <1>6
    <2> HIDE DEF q, c
    <2>2. QED
      BY <1>0, <1>1, <1>2, <1>6, <2>1, PlaceResult
  <1>7. ASSUME NEW x \in Batches, taken' = taken \o <<x>>, x \in ToSet(q),
               IsInjective(BatchesOf(message_queue')),
               ToSet(BatchesOf(message_queue')) = ToSet(q) \ {x}
        PROVE  PlaceInv'
    <2>1. taken \o <<x>> = Append(taken, x)
      BY <1>3, AppendIsConcat
    <2> HIDE DEF q, c
    <2>2. x \notin ToSet(taken)
      BY <1>0, <1>7 DEF Partition
    <2>3. /\ ToSet(taken') = ToSet(taken) \cup {x} /\ IsInjective(taken')
      <3>1. /\ ToSet(Append(taken, x)) = ToSet(taken) \cup {x}
            /\ IsInjective(taken) /\ x \notin ToSet(taken) =>
                  IsInjective(Append(taken, x))
        BY <1>3, AppendQueue
      <3>2. taken' = Append(taken, x)
        BY <1>7, <2>1
      <3>3. QED
        BY <1>0, <2>2, <3>1, <3>2
    <2>4. Partition(Waiting, ToSet(q) \ {x}, ToSet(c), ToSet(taken) \cup {x},
                    skipped, lost, AllInput)
      BY <1>0, <1>7 DEF Partition
    <2>5. QED
      BY <1>0, <1>1, <1>2, <1>7, <2>3, <2>4, PlaceResult
  <1>8. QED
    BY <1>5, <1>6, <1>7

\* One table moves from the queue to the consumer's hands, or back.
LEMMA PlaceCollect ==
    ASSUME ConservedInv, collect \/ (put_back /\ collected # <<>>),
           AllInput' = AllInput, Waiting' = Waiting
    PROVE  PlaceInv'
  <1> USE DEF queueVars, addVars, consumerUnchanged
  <1> DEFINE q == BatchesOf(message_queue)
             c == BatchesOf(collected)
  <1>0. /\ FlowInv /\ IsInjective(q) /\ IsInjective(c) /\ IsInjective(taken)
        /\ Partition(Waiting, ToSet(q), ToSet(c), ToSet(taken), skipped, lost,
                     AllInput)
    BY DEF ConservedInv, PlaceInv
  <1>1. /\ skipped' = skipped /\ lost' = lost /\ taken' = taken
    BY DEF collect, put_back
  <1>2. message_queue \in Seq(Messages) /\ collected \in Seq(Messages)
    BY <1>0 DEF FlowInv, TypeInv, TypeOK
  <1>3. q \in Seq(Batches) /\ c \in Seq(Batches)
    BY <1>2, BatchesOfType
  <1>4. CASE collect
    <2>1. /\ message_queue # <<>> /\ message_queue' = Tail(message_queue)
          /\ collected' = Append(collected, Head(message_queue))
      BY <1>4 DEF collect, pop
    <2>2. /\ q # <<>> /\ Head(q) = Head(message_queue).batch
          /\ Tail(q) = BatchesOf(Tail(message_queue))
      BY <1>2, <2>1, BatchesTail
    <2>3. /\ Head(q) \in Batches /\ Head(q) \in ToSet(q)
          /\ ToSet(q) = ToSet(Tail(q)) \cup {Head(q)}
          /\ IsInjective(Tail(q)) /\ Head(q) \notin ToSet(Tail(q))
      BY <1>0, <1>3, <2>2, TailQueue
    <2>4. Head(message_queue) \in Messages
      BY <1>2, <2>1, HeadTailProperties
    <2>5. BatchesOf(collected') = Append(c, Head(q))
      BY <1>2, <2>1, <2>2, <2>4, BatchesAppend
    <2>6. BatchesOf(message_queue') = Tail(q)
      BY <2>1, <2>2
    <2> HIDE DEF q, c
    <2>7. Head(q) \notin ToSet(c)
      BY <1>0, <2>3 DEF Partition
    <2>8. /\ ToSet(Append(c, Head(q))) = ToSet(c) \cup {Head(q)}
          /\ IsInjective(Append(c, Head(q)))
      BY <1>0, <1>3, <2>3, <2>7, AppendQueue
    <2>9. Partition(Waiting, ToSet(Tail(q)), ToSet(Append(c, Head(q))),
                    ToSet(taken), skipped, lost, AllInput)
      BY <1>0, <2>3, <2>8 DEF Partition
    <2>10. QED
      BY <1>0, <1>1, <2>3, <2>5, <2>6, <2>8, <2>9, PlaceResult
  <1>5. CASE put_back /\ collected # <<>>
    <2>1. /\ message_queue' = Append(message_queue, Head(collected))
          /\ collected' = Tail(collected)
      BY <1>5 DEF put_back, put
    <2>2. /\ c # <<>> /\ Head(c) = Head(collected).batch
          /\ Tail(c) = BatchesOf(Tail(collected))
      BY <1>2, <1>5, BatchesTail
    <2>3. /\ Head(c) \in Batches /\ Head(c) \in ToSet(c)
          /\ ToSet(c) = ToSet(Tail(c)) \cup {Head(c)}
          /\ IsInjective(Tail(c)) /\ Head(c) \notin ToSet(Tail(c))
      BY <1>0, <1>3, <2>2, TailQueue
    <2>4. Head(collected) \in Messages
      BY <1>2, <1>5, HeadTailProperties
    <2>5. BatchesOf(message_queue') = Append(q, Head(c))
      BY <1>2, <2>1, <2>2, <2>4, BatchesAppend
    <2>6. BatchesOf(collected') = Tail(c)
      BY <2>1, <2>2
    <2> HIDE DEF q, c
    <2>7. Head(c) \notin ToSet(q)
      BY <1>0, <2>3 DEF Partition
    <2>8. /\ ToSet(Append(q, Head(c))) = ToSet(q) \cup {Head(c)}
          /\ IsInjective(Append(q, Head(c)))
      BY <1>0, <1>3, <2>3, <2>7, AppendQueue
    <2>9. Partition(Waiting, ToSet(Append(q, Head(c))), ToSet(Tail(c)),
                    ToSet(taken), skipped, lost, AllInput)
      BY <1>0, <2>3, <2>8 DEF Partition
    <2>10. QED
      BY <1>0, <1>1, <2>3, <2>5, <2>6, <2>8, <2>9, PlaceResult
  <1>6. QED
    BY <1>4, <1>5

\* What was collected, or the first of it, goes to the consumer.
LEMMA PlaceRelease ==
    ASSUME ConservedInv, release_all \/ release_some,
           AllInput' = AllInput, Waiting' = Waiting
    PROVE  PlaceInv'
  <1> USE DEF queueVars, addVars, consumerUnchanged
  <1> DEFINE q == BatchesOf(message_queue)
             c == BatchesOf(collected)
  <1>0. /\ FlowInv /\ IsInjective(q) /\ IsInjective(c) /\ IsInjective(taken)
        /\ Partition(Waiting, ToSet(q), ToSet(c), ToSet(taken), skipped, lost,
                     AllInput)
    BY DEF ConservedInv, PlaceInv
  <1>1. /\ skipped' = skipped /\ lost' = lost /\ message_queue' = message_queue
    BY DEF release_all, release_some
  <1>2. BatchesOf(message_queue') = q
    BY <1>1
  <1>3. collected \in Seq(Messages) /\ taken \in Seq(Batches)
    BY <1>0 DEF FlowInv, TypeInv, TypeOK
  <1>4. c \in Seq(Batches)
    BY <1>3, BatchesOfType
  <1>5. PICK a \in Seq(Batches), b \in Seq(Batches) :
            /\ taken' = taken \o a /\ BatchesOf(collected') = b
            /\ ToSet(c) = ToSet(a) \cup ToSet(b)
            /\ IsInjective(a) /\ IsInjective(b)
            /\ ToSet(a) \cap ToSet(b) = {}
    <2>1. CASE release_all
      <3>1. taken' = taken \o c /\ collected' = <<>>
        BY <2>1 DEF release_all, deliver
      <3>2. BatchesOf(collected') = <<>>
        BY <3>1 DEF BatchesOf
      <3>3. ToSet(<<>>) = {} /\ IsInjective(<<>>)
        BY DEF ToSet, IsInjective
      <3>4. <<>> \in Seq(Batches)
        OBVIOUS
      <3> HIDE DEF c
      <3>5. /\ ToSet(c) = ToSet(c) \cup ToSet(<<>>)
            /\ ToSet(c) \cap ToSet(<<>>) = {}
        BY <3>3
      <3>6. QED
        BY <1>0, <1>4, <3>1, <3>2, <3>3, <3>4, <3>5
    <2>2. CASE release_some
      <3>1. PICK i \in 2 .. Len(collected) :
                /\ taken' = taken \o BatchesOf(SubSeq(collected, 1, i - 1))
                /\ collected' = [SubSeq(collected, i, Len(collected))
                                    EXCEPT ![1].tier = "GPU"]
        BY <2>2 DEF release_some, deliver
      <3> DEFINE n == Len(collected)
                 r == SubSeq(collected, i, n)
      <3>2. /\ n \in Nat /\ Len(c) = n
        BY <1>3, BatchesOfEach
      <3>3. /\ i \in Nat /\ 1 \in Nat /\ i - 1 \in Nat /\ 1 <= 1 /\ 1 <= i
            /\ 1 <= i - 1 + 1 /\ i - 1 <= n /\ i <= n + 1 /\ n <= n
            /\ i \in 1 .. n /\ 1 <= n - i + 1
        BY <3>2
      <3>4. BatchesOf(SubSeq(collected, 1, i - 1)) = SubSeq(c, 1, i - 1)
        BY <1>3, <3>3, BatchesPiece
      <3>5. BatchesOf(r) = SubSeq(c, i, n)
        BY <1>3, <3>2, <3>3, BatchesPiece
      <3>6. r \in Seq(Messages) /\ Len(r) = n - i + 1
        BY <1>3, <3>2, <3>3, Piece
      <3> HIDE DEF r, n
      <3>7. 1 \in 1 .. Len(r)
        BY <3>2, <3>3, <3>6
      <3>8. BatchesOf(collected') = SubSeq(c, i, n)
        BY <3>1, <3>5, <3>6, <3>7, BatchesMoved DEF r, n
      <3> HIDE DEF c
      <3>9. /\ SubSeq(c, 1, i - 1) \in Seq(Batches)
            /\ SubSeq(c, i, Len(c)) \in Seq(Batches)
            /\ ToSet(c) = ToSet(SubSeq(c, 1, i - 1))
                            \cup ToSet(SubSeq(c, i, Len(c)))
            /\ IsInjective(SubSeq(c, 1, i - 1))
            /\ IsInjective(SubSeq(c, i, Len(c)))
            /\ ToSet(SubSeq(c, 1, i - 1)) \cap ToSet(SubSeq(c, i, Len(c))) = {}
        BY <1>0, <1>4, <3>2, <3>3, SplitQueue
      <3>10. QED
        BY <3>1, <3>2, <3>4, <3>8, <3>9
    <2>3. QED
      BY <2>1, <2>2
  <1> HIDE DEF q, c
  <1>6. ToSet(a) \cap ToSet(taken) = {}
    BY <1>0, <1>5 DEF Partition
  <1>7. /\ ToSet(taken \o a) = ToSet(taken) \cup ToSet(a)
        /\ IsInjective(taken \o a)
    BY <1>0, <1>3, <1>5, <1>6, ConcatQueue
  <1>8. Partition(Waiting, ToSet(q), ToSet(b), ToSet(taken) \cup ToSet(a),
                  skipped, lost, AllInput)
    BY <1>0, <1>5 DEF Partition
  <1>9. QED
    BY <1>0, <1>1, <1>2, <1>5, <1>7, <1>8, PlaceResult

\* The monitor changes the tier of a batch, or loses all of the queue.
LEMMA PlaceDowngrade ==
    ASSUME ConservedInv, Downgrade, AllInput' = AllInput, Waiting' = Waiting
    PROVE  PlaceInv'
  <1> USE DEF queueVars, addVars, pullVars, monitorUnchanged
  <1> DEFINE q == BatchesOf(message_queue)
             c == BatchesOf(collected)
  <1>0. /\ FlowInv /\ IsInjective(q) /\ IsInjective(c) /\ IsInjective(taken)
        /\ Partition(Waiting, ToSet(q), ToSet(c), ToSet(taken), skipped, lost,
                     AllInput)
    BY DEF ConservedInv, PlaceInv
  <1>1. /\ skipped' = skipped /\ collected' = collected /\ taken' = taken
    BY DEF Downgrade, downgrade_begin, downgrade_to_host, downgrade_to_disk,
           downgrade_throws, downgrade_end
  <1>2. BatchesOf(collected') = c
    BY <1>1
  <1>3. message_queue \in Seq(Messages)
    BY <1>0 DEF FlowInv, TypeInv, TypeOK
  <1>4. CASE downgrade_throws
    <2>1. message_queue' = <<>> /\ lost' = lost \cup ToSet(q)
      BY <1>4 DEF downgrade_throws, Range, ToSet
    <2>2. BatchesOf(message_queue') = <<>>
      BY <2>1 DEF BatchesOf
    <2>3. ToSet(<<>>) = {} /\ IsInjective(<<>>)
      BY DEF ToSet, IsInjective
    <2> HIDE DEF q, c
    <2>4. Partition(Waiting, {}, ToSet(c), ToSet(taken), skipped,
                    lost \cup ToSet(q), AllInput)
      BY <1>0 DEF Partition
    <2>5. QED
      BY <1>0, <1>1, <1>2, <2>1, <2>2, <2>3, <2>4 DEF PlaceInv
  <1>5. CASE ~downgrade_throws
    <2>1. lost' = lost
      BY <1>5 DEF Downgrade, downgrade_begin, downgrade_to_host,
                  downgrade_to_disk, downgrade_end
    <2>2. BatchesOf(message_queue') = q
      <3>1. CASE downgrade_to_host
        <4>1. PICK i \in DOMAIN message_queue :
                  message_queue' = [message_queue EXCEPT ![i].tier = "CPU"]
          BY <3>1 DEF downgrade_to_host
        <4>2. i \in 1 .. Len(message_queue)
          BY <1>3, LenProperties
        <4>3. QED
          BY <1>3, <4>1, <4>2, BatchesMoved
      <3>2. CASE ~downgrade_to_host
        <4>1. message_queue' = message_queue
          BY <1>5, <3>2 DEF Downgrade, downgrade_begin, downgrade_to_disk,
                            downgrade_end
        <4>2. QED
          BY <4>1
      <3>3. QED
        BY <3>1, <3>2
    <2> HIDE DEF q, c
    <2>3. QED
      BY <1>0, <1>1, <1>2, <2>1, <2>2, PlaceResult
  <1>6. QED
    BY <1>4, <1>5

\* At the start every batch waits.
LEMMA ConservedInit == Init => ConservedInv
  <1> SUFFICES ASSUME Init PROVE ConservedInv
    OBVIOUS
  <1>1. /\ setting \in Settings /\ todo = Input
        /\ add_pc = [p \in Producers |-> "ready"]
        /\ message_queue = <<>> /\ collected = <<>> /\ taken = <<>>
        /\ skipped = {} /\ lost = {}
    BY DEF Init
  <1>2. \A p \in Producers : IsInjective(Input[p])
    BY <1>1, InputAssumption DEF Input
  <1>3. TodoInv
    BY <1>1, <1>2 DEF TodoInv
  <1>4. Waiting = AllInput
    <2>1. \A p \in Producers : Rest(p) = Input[p]
      BY <1>1 DEF Rest
    <2>2. QED
      BY <2>1 DEF Waiting, AllInput
  <1>5. BatchesOf(<<>>) = <<>> /\ ToSet(<<>>) = {} /\ IsInjective(<<>>)
    BY DEF BatchesOf, ToSet, IsInjective
  <1>6. Partition(AllInput, {}, {}, {}, {}, {}, AllInput)
    BY DEF Partition
  <1>7. PlaceInv
    BY <1>1, <1>4, <1>5, <1>6 DEF PlaceInv
  <1>8. QED
    BY <1>3, <1>7, FlowInit DEF ConservedInv

\* Every step keeps the invariant.
LEMMA ConservedStep == ConservedInv /\ [Next]_vars => ConservedInv'
  <1> SUFFICES ASSUME ConservedInv, [Next]_vars PROVE ConservedInv'
    OBVIOUS
  <1> USE DEF queueVars, addVars, fileVars, pullVars, monitorVars, endVars,
              consumerUnchanged, monitorUnchanged
  <1>1. FlowInv' /\ TodoInv' /\ AllInput' = AllInput
    BY FlowStep, TodoStep DEF ConservedInv
  <1>2. ASSUME NEW p \in Producers,
               Produce(p) \/ add_throws(p) \/ write_orc_throws(p)
        PROVE  PlaceInv'
    BY <1>1, <1>2, PlaceProduce
  <1>3. ASSUME ~(\E p \in Producers :
                     Produce(p) \/ add_throws(p) \/ write_orc_throws(p))
        PROVE  PlaceInv'
    <2>1. UNCHANGED <<todo, add_pc>>
      BY <1>3 DEF vars, Next, write_orc, write_orc_fails, finish,
           finish_aborted, Consume, wait_for_next, pull_message, pull_null,
           pullUnorderedFromCache, wait_to_concat, has_next_now, collect,
           collect_null, size_check, release_null, release_all,
           release_some, put_back, Downgrade, downgrade_begin,
           downgrade_to_host, downgrade_to_disk, downgrade_throws,
           downgrade_end
    <2>2. Waiting' = Waiting
      BY <2>1, WaitingStays DEF Rest
    <2>3. CASE pull_message \/ pullUnorderedFromCache
      BY <1>1, <2>2, <2>3, PlacePull
    <2>4. CASE collect \/ (put_back /\ collected # <<>>)
      BY <1>1, <2>2, <2>4, PlaceCollect
    <2>5. CASE release_all \/ release_some
      BY <1>1, <2>2, <2>5, PlaceRelease
    <2>6. CASE Downgrade
      BY <1>1, <2>2, <2>6, PlaceDowngrade
    <2>7. CASE /\ ~(pull_message \/ pullUnorderedFromCache)
               /\ ~(collect \/ (put_back /\ collected # <<>>))
               /\ ~(release_all \/ release_some)
               /\ ~Downgrade
      <3>1. UNCHANGED <<message_queue, collected, taken, skipped, lost>>
        BY <1>3, <2>7 DEF vars, Next, write_orc, write_orc_fails, finish,
             finish_aborted, Consume, wait_for_next, pull_null, pop_null,
             wait_to_concat, has_next_now, collect_null, size_check,
             release_null, put_back
      <3>2. /\ BatchesOf(message_queue') = BatchesOf(message_queue)
            /\ BatchesOf(collected') = BatchesOf(collected)
        BY <3>1
      <3>3. QED
        BY <1>1, <2>2, <3>1, <3>2, PlaceResult DEF ConservedInv, PlaceInv
    <2>8. QED
      BY <2>3, <2>4, <2>5, <2>6, <2>7
  <1>4. PlaceInv'
    BY <1>2, <1>3
  <1>5. QED
    BY <1>1, <1>4 DEF ConservedInv

\* A batch of a sequence without repetitions is in it once.
LEMMA InSeqOnce ==
    ASSUME NEW b, NEW s, IsInjective(s)
    PROVE  InSeq(b, s) = IF b \in ToSet(s) THEN 1 ELSE 0
  <1>1. CASE b \in ToSet(s)
    <2>1. PICK i \in DOMAIN s : s[i] = b
      BY <1>1 DEF ToSet
    <2>2. {j \in DOMAIN s : s[j] = b} = {i}
      BY <2>1 DEF IsInjective
    <2>3. QED
      BY <1>1, <2>2, FS_Singleton DEF InSeq
  <1>2. CASE b \notin ToSet(s)
    <2>1. {j \in DOMAIN s : s[j] = b} = {}
      BY <1>2 DEF ToSet
    <2>2. QED
      BY <1>2, <2>1, FS_EmptySet DEF InSeq
  <1>3. QED
    BY <1>1, <1>2

\* A batch that waits does so with one producer.
LEMMA PendingOnce ==
    ASSUME FlowInv, TodoInv, NEW b
    PROVE  Pending(b) = IF b \in Waiting THEN 1 ELSE 0
  <1> DEFINE at(p) == \E i \in DOMAIN todo[p] :
                          /\ todo[p][i] = b
                          /\ ~(i = 1 /\ add_pc[p] \in {"mark", "threw"})
  <1>1. ASSUME NEW p \in Producers PROVE at(p) <=> b \in ToSet(Rest(p))
    <2>1. /\ todo[p] \in Seq(Batches)
          /\ add_pc[p] \in {"place", "write", "mark", "threw"} =>
                todo[p] # <<>>
      BY RestFacts
    <2>2. CASE add_pc[p] \in {"mark", "threw"}
      <3> DEFINE t == Tail(todo[p])
      <3>1. /\ t \in Seq(Batches) /\ Len(todo[p]) \in Nat \ {0}
            /\ DOMAIN todo[p] = 1 .. Len(todo[p])
            /\ DOMAIN t = 1 .. Len(todo[p]) - 1
            /\ \A i \in 1 .. Len(todo[p]) - 1 : t[i] = todo[p][i + 1]
        BY <2>1, <2>2, HeadTailProperties
      <3>2. Rest(p) = t
        BY <2>2 DEF Rest
      <3> HIDE DEF t
      <3>3. ASSUME at(p) PROVE b \in ToSet(t)
        <4>1. PICK i \in DOMAIN todo[p] : todo[p][i] = b /\ i # 1
          BY <2>2, <3>3
        <4>2. i - 1 \in DOMAIN t /\ t[i - 1] = b
          BY <3>1, <4>1
        <4>3. QED
          BY <4>2 DEF ToSet
      <3>4. ASSUME b \in ToSet(t) PROVE at(p)
        <4>1. PICK i \in DOMAIN t : t[i] = b
          BY <3>4 DEF ToSet
        <4>2. i + 1 \in DOMAIN todo[p] /\ todo[p][i + 1] = b /\ i + 1 # 1
          BY <3>1, <4>1
        <4>3. QED
          BY <4>2
      <3>5. QED
        BY <3>2, <3>3, <3>4
    <2>3. CASE add_pc[p] \notin {"mark", "threw"}
      BY <2>3 DEF Rest, ToSet
    <2>4. QED
      BY <2>2, <2>3
  <1>2. Pending(b) = Cardinality({p \in Producers : at(p)})
    BY DEF Pending
  <1> HIDE DEF at
  <1>3. CASE b \in Waiting
    <2>1. PICK p \in Producers : b \in ToSet(Rest(p))
      BY <1>3 DEF Waiting
    <2>2. \A r \in Producers : at(r) <=> r = p
      BY <1>1, <2>1, RestsApart
    <2>3. {r \in Producers : at(r)} = {p}
      BY <2>2
    <2>4. QED
      BY <1>2, <1>3, <2>3, FS_Singleton
  <1>4. CASE b \notin Waiting
    <2>1. {p \in Producers : at(p)} = {}
      BY <1>1, <1>4 DEF Waiting
    <2>2. QED
      BY <1>2, <1>4, <2>1, FS_EmptySet
  <1>5. QED
    BY <1>3, <1>4

\* Every batch that a task produced is in one place, whatever the adds, the
\* pulls, the put-backs of a concatenating cache, the downgrades and the
\* failing writes do: none is duplicated, none is mislaid.
THEOREM BatchesAreConserved == Spec => []BatchesConserved
  <1>1. ConservedInv => BatchesConserved
    <2> SUFFICES ASSUME ConservedInv, NEW b \in Batches
                 PROVE  Places(b) = IF \E p \in Producers : b \in Range(Input[p])
                                    THEN 1 ELSE 0
      BY DEF BatchesConserved
    <2> DEFINE q == BatchesOf(message_queue)
               c == BatchesOf(collected)
    <2>0. /\ FlowInv /\ TodoInv
          /\ IsInjective(q) /\ IsInjective(c) /\ IsInjective(taken)
          /\ Partition(Waiting, ToSet(q), ToSet(c), ToSet(taken), skipped,
                       lost, AllInput)
      BY DEF ConservedInv, PlaceInv
    <2>1. b \in AllInput <=> \E p \in Producers : b \in Range(Input[p])
      BY DEF AllInput, ToSet, Range
    <2>2. Places(b) =
            (IF b \in Waiting THEN 1 ELSE 0) + (IF b \in ToSet(q) THEN 1 ELSE 0)
            + (IF b \in ToSet(c) THEN 1 ELSE 0)
            + (IF b \in ToSet(taken) THEN 1 ELSE 0)
            + (IF b \in skipped THEN 1 ELSE 0) + (IF b \in lost THEN 1 ELSE 0)
      BY <2>0, PendingOnce, InSeqOnce DEF Places
    <2> HIDE DEF q, c
    <2>3. CASE b \in AllInput
      BY <2>0, <2>1, <2>2, <2>3 DEF Partition
    <2>4. CASE b \notin AllInput
      BY <2>0, <2>1, <2>2, <2>4 DEF Partition
    <2>5. QED
      BY <2>3, <2>4
  <1>2. QED
    BY <1>1, ConservedInit, ConservedStep, PTL DEF Spec

-----------------------------------------------------------------------------
(* What a concatenated table may weigh. *)

\* While ConcatenatingCacheMachine collects, what it has is within the bound
\* whenever it goes for one more; afterwards all but the last is.
CollectInv ==
    Concat = "bytes" =>
        /\ pull_pc \in {"next", "pop"} /\ collected # <<>> =>
               Bytes(collected) <= concat_cache_num_bytes
        /\ pull_pc \in {"size", "release"} /\ Len(collected) > 1 =>
               Total(Size, Front(BatchesOf(collected)))
                   <= concat_cache_num_bytes

BoundInv == FlowInv /\ CollectInv /\ ConcatPassedByLastOnly

\* The total of collected messages, of all of them and of all but the last.
LEMMA Weights ==
    ASSUME NEW s \in Seq(Messages)
    PROVE  /\ Bytes(s) \in Nat
           /\ s # <<>> => /\ Total(Size, Front(BatchesOf(s))) \in Nat
                          /\ Total(Size, Front(BatchesOf(s))) <= Bytes(s)
  <1>1. BatchesOf(s) \in Seq(Batches) /\ (s # <<>> => BatchesOf(s) # <<>>)
    BY BatchesOfType, BatchesTail
  <1>2. Bytes(s) \in Nat
    BY <1>1, CacheAssumption, TotalConcat DEF Bytes
  <1>3. s # <<>> => /\ Total(Size, Front(BatchesOf(s))) \in Nat
                    /\ Total(Size, Front(BatchesOf(s))) <= Bytes(s)
    BY <1>1, CacheAssumption, TotalFront DEF Bytes
  <1>4. QED
    BY <1>2, <1>3

\* All but the last after an append is what was there before.
LEMMA FrontOfAppend ==
    ASSUME NEW S, NEW s \in Seq(S), NEW x \in S
    PROVE  Front(Append(s, x)) = s
  <1> DEFINE a == Append(s, x)
  <1>1. /\ a \in Seq(S) /\ Len(a) = Len(s) + 1 /\ Len(s) \in Nat
        /\ \A i \in 1 .. Len(s) : a[i] = s[i]
    BY AppendProperties, LenProperties
  <1> HIDE DEF a
  <1>2. /\ 1 \in Nat /\ Len(s) \in Nat /\ 1 <= 1 /\ 1 <= Len(s) + 1
        /\ Len(s) <= Len(a)
    BY <1>1
  <1>3. /\ SubSeq(a, 1, Len(s)) \in Seq(S)
        /\ Len(SubSeq(a, 1, Len(s))) = Len(s) - 1 + 1
        /\ \A j \in 1 .. Len(s) - 1 + 1 : SubSeq(a, 1, Len(s))[j] = a[1 + j - 1]
    BY <1>1, <1>2, Piece
  <1>4. ASSUME NEW j \in 1 .. Len(s) PROVE SubSeq(a, 1, Len(s))[j] = s[j]
    <2>1. Len(s) - 1 + 1 = Len(s) /\ 1 + j - 1 = j
      BY <1>1
    <2>2. QED
      BY <1>1, <1>3, <2>1
  <1>5. SubSeq(a, 1, Len(s)) = s
    <2>1. Len(SubSeq(a, 1, Len(s))) = Len(s)
      BY <1>1, <1>3
    <2>2. QED
      BY <1>3, <1>4, <2>1, SeqEqual
  <1>6. Front(a) = SubSeq(a, 1, Len(s))
    <2>1. Len(a) - 1 = Len(s)
      BY <1>1
    <2>2. QED
      BY <2>1 DEF Front
  <1>7. QED
    BY <1>5, <1>6 DEF a

\* A shorter prefix weighs less, its last batch left out or not.
LEMMA PieceWeighs ==
    ASSUME NEW s \in Seq(Batches), NEW k \in 1 .. Len(s) - 1
    PROVE  /\ SubSeq(s, 1, k) \in Seq(Batches)
           /\ Total(Size, Front(SubSeq(s, 1, k))) \in Nat
           /\ Total(Size, Front(s)) \in Nat
           /\ Total(Size, Front(SubSeq(s, 1, k))) <= Total(Size, Front(s))
  <1> DEFINE f == Front(s)
             a == SubSeq(s, 1, k)
  <1>0. Len(s) \in Nat /\ s # <<>>
    BY LenProperties, EmptySeq
  <1>1. f \in Seq(Batches) /\ Len(f) = Len(s) - 1
    BY <1>0, FrontQueue
  <1>2. /\ 1 \in Nat /\ k \in Nat /\ Len(s) - 1 \in Nat
        /\ 1 <= 1 /\ 1 <= k + 1 /\ k <= Len(s)
        /\ 1 <= (Len(s) - 1) + 1 /\ Len(s) - 1 <= Len(s) /\ k - 1 + 1 = k
        /\ (Len(s) - 1) - 1 + 1 = Len(s) - 1
    BY <1>0
  <1>3. /\ a \in Seq(Batches) /\ Len(a) = k
        /\ \A j \in 1 .. k : a[j] = s[1 + j - 1]
    BY <1>2, Piece
  <1>4. \A j \in 1 .. Len(s) - 1 : f[j] = s[1 + j - 1]
    <2>1. f = SubSeq(s, 1, Len(s) - 1)
      BY DEF Front
    <2>2. \A j \in 1 .. (Len(s) - 1) - 1 + 1 :
              SubSeq(s, 1, Len(s) - 1)[j] = s[1 + j - 1]
      BY <1>2, Piece
    <2>3. QED
      BY <1>2, <2>1, <2>2
  <1> HIDE DEF f, a
  <1>5. /\ k <= Len(f) /\ k \in 0 .. Len(f)
    BY <1>0, <1>1
  <1>6. /\ SubSeq(f, 1, k) \in Seq(Batches) /\ Len(SubSeq(f, 1, k)) = k
        /\ \A j \in 1 .. k : SubSeq(f, 1, k)[j] = f[1 + j - 1]
    BY <1>1, <1>2, <1>5, Piece
  <1>7. ASSUME NEW j \in 1 .. k PROVE SubSeq(f, 1, k)[j] = a[j]
    <2>1. 1 + j - 1 = j /\ j \in 1 .. Len(s) - 1
      BY <1>0
    <2>2. QED
      BY <1>3, <1>4, <1>6, <2>1
  <1>8. a = SubSeq(f, 1, k)
    BY <1>3, <1>6, <1>7, SeqEqual
  <1>9. Total(Size, a) <= Total(Size, f)
    BY <1>1, <1>5, <1>8, CacheAssumption, TotalPrefix
  <1>10. a # <<>>
    BY <1>3, EmptySeq
  <1>11. /\ Total(Size, Front(a)) \in Nat /\ Total(Size, a) \in Nat
         /\ Total(Size, Front(a)) <= Total(Size, a)
    BY <1>3, <1>10, CacheAssumption, TotalFront
  <1>12. Total(Size, f) \in Nat
    BY <1>1, CacheAssumption, TotalConcat
  <1>13. QED
    BY <1>3, <1>9, <1>11, <1>12 DEF a, f

\* A step of the consumer keeps the bound.
LEMMA BoundConsume ==
    ASSUME BoundInv, Consume
    PROVE  CollectInv' /\ ConcatPassedByLastOnly'
  <1> USE DEF queueVars, pullVars
  <1> DEFINE L == concat_cache_num_bytes
             c == BatchesOf(collected)
             good(g) == Len(g) > 1 => Total(Size, Front(g)) <= L
  <1>0. /\ message_queue \in Seq(Messages) /\ collected \in Seq(Messages)
        /\ delivered \in Seq(Seq(Batches)) /\ setting \in Settings
        /\ ConsumerInv /\ CollectInv
        /\ Concat = "bytes" => \A g \in Range(delivered) : good(g)
    BY DEF BoundInv, FlowInv, TypeInv, TypeOK, ConcatPassedByLastOnly
  <1>1. setting' = setting /\ Concat' = Concat /\ L' = L
    BY DEF Consume, wait_for_next, pull_message, pull_null,
           pullUnorderedFromCache, wait_to_concat, has_next_now, collect,
           collect_null, size_check, release_null, release_all,
           release_some, put_back, consumerUnchanged, Concat,
           concat_cache_num_bytes
  <1>2. L \in Nat
    BY <1>0, CacheAssumption DEF concat_cache_num_bytes, SettingType
  <1>3. /\ c \in Seq(Batches) /\ Len(c) = Len(collected) /\ Len(c) \in Nat
        /\ Bytes(collected) \in Nat
        /\ collected # <<>> => /\ Total(Size, Front(c)) \in Nat
                               /\ Total(Size, Front(c)) <= Bytes(collected)
    BY <1>0, BatchesOfEach, Weights
  <1>4. SUFFICES ASSUME Concat = "bytes"
                 PROVE  /\ pull_pc' \in {"next", "pop"} /\ collected' # <<>> =>
                               Bytes(collected') <= L
                        /\ pull_pc' \in {"size", "release"}
                              /\ Len(collected') > 1 =>
                               Total(Size, Front(BatchesOf(collected'))) <= L
                        /\ \A g \in Range(delivered') : good(g)
    <2>1. Bytes(collected)' = Bytes(collected')
          /\ BatchesOf(collected)' = BatchesOf(collected')
      BY DEF Bytes, BatchesOf
    <2>2. QED
      BY <1>1, <1>4, <2>1 DEF CollectInv, ConcatPassedByLastOnly
  <1>5. ASSUME NEW g \in Seq(Batches), deliver(g), good(g)
        PROVE  \A h \in Range(delivered') : good(h)
    <2>1. delivered' = Append(delivered, g)
      BY <1>5 DEF deliver
    <2>2. ToSet(Append(delivered, g)) = ToSet(delivered) \cup {g}
      BY <1>0, AppendQueue
    <2>3. Range(delivered') = Range(delivered) \cup {g}
      BY <2>1, <2>2 DEF Range, ToSet
    <2> HIDE DEF good
    <2>4. QED
      BY <1>0, <1>4, <1>5, <2>3
  <1>6. CASE has_next_now \/ collect_null
    <2>1. /\ pull_pc \in {"next", "pop"} /\ pull_pc' \in {"release", "pop"}
          /\ collected' = collected /\ delivered' = delivered
      BY <1>6 DEF has_next_now, collect_null
    <2>2. collected # <<>> => Bytes(collected) <= L
      BY <1>0, <1>4, <2>1 DEF CollectInv
    <2>3. Len(collected) > 1 => collected # <<>>
      BY <1>0, EmptySeq
    <2>4. Len(collected) > 1 => Total(Size, Front(c)) <= L
      BY <1>2, <1>3, <2>2, <2>3
    <2>5. QED
      BY <1>0, <1>4, <2>1, <2>2, <2>4
  <1>7. CASE collect
    <2>1. /\ message_queue # <<>> /\ delivered' = delivered /\ pull_pc = "pop"
          /\ collected' = Append(collected, Head(message_queue))
          /\ pull_pc' = "size"
      BY <1>4, <1>7 DEF collect, pop
    <2>2. Head(message_queue) \in Messages
      BY <1>0, <2>1, HeadTailProperties
    <2>3. /\ BatchesOf(collected') = Append(c, Head(message_queue).batch)
          /\ Head(message_queue).batch \in Batches
      BY <1>0, <2>1, <2>2, BatchesAppend
    <2>4. Front(BatchesOf(collected')) = c
      BY <1>3, <2>3, FrontOfAppend
    <2>5. collected # <<>> => Total(Size, c) <= L
      BY <1>0, <1>4, <2>1 DEF CollectInv, Bytes
    <2>6. Len(collected') = Len(collected) + 1 /\ Len(collected) \in Nat
      BY <1>0, <2>1, <2>2, AppendProperties, LenProperties
    <2>7. Len(collected') > 1 => collected # <<>>
      BY <1>0, <2>6, EmptySeq
    <2> HIDE DEF c
    <2>8. QED
      BY <1>0, <1>4, <2>1, <2>4, <2>5, <2>7
  <1>8. CASE size_check
    <2>1. /\ pull_pc = "size" /\ pull_pc' = IF next_fits THEN "next" ELSE "release"
          /\ collected' = collected /\ delivered' = delivered
      BY <1>8 DEF size_check
    <2>2. get_next_size_in_bytes \in Nat
      <3>1. CASE message_queue = <<>>
        BY <3>1 DEF get_next_size_in_bytes
      <3>2. CASE message_queue # <<>>
        <4>1. Head(message_queue).batch \in Batches
          <5>1. Head(message_queue) \in Messages
            BY <1>0, <3>2, HeadTailProperties
          <5>2. QED
            BY <5>1 DEF Messages
        <4>2. QED
          BY <3>2, <4>1, CacheAssumption DEF get_next_size_in_bytes
      <3>3. QED
        BY <3>1, <3>2
    <2>3. next_fits => Bytes(collected) <= L
      BY <1>2, <1>3, <2>2 DEF next_fits
    <2>4. QED
      BY <1>0, <1>4, <2>1, <2>3 DEF CollectInv
  <1>9. CASE release_all
    <2>1. /\ deliver(c) /\ collected' = <<>> /\ pull_pc = "release"
          /\ pull_pc' \in {"pull", "wait"}
      BY <1>9 DEF release_all, NextPull
    <2>2. good(c)
      BY <1>0, <1>3, <1>4, <2>1 DEF CollectInv
    <2>3. \A h \in Range(delivered') : good(h)
      BY <1>3, <1>5, <2>1, <2>2
    <2> HIDE DEF good
    <2>4. QED
      BY <2>1, <2>3
  <1>10. CASE release_some
    <2>1. PICK i \in 2 .. Len(collected) :
              deliver(BatchesOf(SubSeq(collected, 1, i - 1)))
      BY <1>10 DEF release_some
    <2>2. pull_pc = "release" /\ pull_pc' = "put_back"
      BY <1>10 DEF release_some
    <2>3. /\ i - 1 \in 1 .. Len(c) - 1 /\ 1 \in Nat /\ i - 1 \in Nat
          /\ 1 <= 1 /\ 1 <= (i - 1) + 1 /\ i - 1 <= Len(collected)
          /\ Len(collected) > 1
      BY <1>3
    <2>4. BatchesOf(SubSeq(collected, 1, i - 1)) = SubSeq(c, 1, i - 1)
      BY <1>0, <2>3, BatchesPiece
    <2>5. /\ SubSeq(c, 1, i - 1) \in Seq(Batches)
          /\ Total(Size, Front(SubSeq(c, 1, i - 1))) \in Nat
          /\ Total(Size, Front(c)) \in Nat
          /\ Total(Size, Front(SubSeq(c, 1, i - 1))) <= Total(Size, Front(c))
      BY <1>3, <2>3, PieceWeighs
    <2>6. Total(Size, Front(c)) <= L
      BY <1>0, <1>4, <2>2, <2>3 DEF CollectInv
    <2>7. Total(Size, Front(SubSeq(c, 1, i - 1))) <= L
      BY <1>2, <2>5, <2>6
    <2>8. deliver(SubSeq(c, 1, i - 1)) /\ good(SubSeq(c, 1, i - 1))
      BY <2>1, <2>4, <2>7
    <2>9. \A h \in Range(delivered') : good(h)
      BY <1>5, <2>5, <2>8
    <2> HIDE DEF good
    <2>10. QED
      BY <2>2, <2>9
  <1>11. CASE wait_to_concat
    <2>1. /\ pull_pc = "pull" /\ pull_pc' = "next"
          /\ collected' = collected /\ delivered' = delivered
      BY <1>4, <1>11 DEF wait_to_concat
    <2>2. collected = <<>>
      BY <1>0, <2>1 DEF ConsumerInv
    <2>3. QED
      BY <1>0, <1>4, <2>1, <2>2
  <1>12. CASE wait_for_next \/ release_null \/ put_back
    <2>1. /\ pull_pc' \in {"ended", "pull", "wait", "put_back"}
          /\ delivered' = delivered
      BY <1>12 DEF wait_for_next, release_null, put_back, NextPull, AfterNull
    <2>2. QED
      BY <1>0, <1>4, <2>1
  <1>13. CASE pull_message \/ pull_null \/ pullUnorderedFromCache
    BY <1>4, <1>13 DEF pull_message, pull_null, pullUnorderedFromCache,
           PlainPull
  <1>14. QED
    BY <1>6, <1>7, <1>8, <1>9, <1>10, <1>11, <1>12, <1>13 DEF Consume

\* A table that ConcatenatingCacheMachine made of several batches passes
\* concat_cache_num_bytes by its last batch at most, for any sizes of the
\* batches and however the queue grows between the looks at it.
THEOREM ConcatKeepsItsBound == Spec => []ConcatPassedByLastOnly
  <1>1. Init => BoundInv
    <2> SUFFICES ASSUME Init PROVE BoundInv
      OBVIOUS
    <2>1. /\ collected = <<>> /\ delivered = <<>> /\ Len(<<>>) = 0
      BY DEF Init
    <2>2. CollectInv
      BY <2>1 DEF CollectInv
    <2>3. ConcatPassedByLastOnly
      BY <2>1 DEF ConcatPassedByLastOnly, Range
    <2>4. QED
      BY <2>2, <2>3, FlowInit DEF BoundInv
  <1>2. BoundInv /\ [Next]_vars => BoundInv'
    <2> SUFFICES ASSUME BoundInv, [Next]_vars PROVE BoundInv'
      OBVIOUS
    <2>1. FlowInv'
      BY FlowStep DEF BoundInv
    <2>2. CASE Consume
      BY <2>1, <2>2, BoundConsume DEF BoundInv
    <2>3. CASE ~Consume
      <3>1. UNCHANGED <<setting, pull_pc, collected, delivered>>
        BY <2>3 DEF vars, Next, Produce, add, add_put, add_to_disk,
               add_nowhere, add_mark, add_throws, write_orc_throws, write_orc,
               write_orc_fails, finish, finish_aborted, Downgrade,
               downgrade_begin, downgrade_to_host, downgrade_to_disk, downgrade_throws,
               downgrade_end, queueVars, addVars, fileVars, pullVars,
               monitorVars, endVars, monitorUnchanged
      <3>2. CollectInv'
        BY <3>1 DEF BoundInv, CollectInv, Concat, concat_cache_num_bytes,
               Bytes, BatchesOf
      <3>3. ConcatPassedByLastOnly'
        BY <3>1 DEF BoundInv, ConcatPassedByLastOnly, Concat,
               concat_cache_num_bytes
      <3>4. QED
        BY <2>1, <3>2, <3>3 DEF BoundInv
    <2>4. QED
      BY <2>2, <2>3
  <1>3. QED
    BY <1>1, <1>2, PTL DEF Spec, BoundInv

-----------------------------------------------------------------------------
(* What the end of the cache means. *)

\* The rows that were put and not lost: the consumer has them, collects them,
\* or will pull them.
RowsPut ==
    Total(Rows, taken) + Total(Rows, BatchesOf(collected))
    + Total(Rows, BatchesOf(message_queue))

\* The batches that num_rows_added counts and that were not put yet.
Counted == {Head(todo[p]) : p \in {r \in Producers :
                                      add_pc[r] \in {"place", "write"}}}

\* num_rows_added, each batch counted once: without those of adds that threw.
RowsOnce == num_rows_added - Total(Rows, recounted)

\* It counts what was put and what is about to be.
RowsInv ==
    NoLoss => \E s \in Seq(Batches) :
                  /\ IsInjective(s)
                  /\ ToSet(s) = Counted
                  /\ RowsOnce = RowsPut + Total(Rows, s)

\* Only tables without rows were skipped; the consumer has what was taken.
SkippedInv == \A b \in skipped : Rows[b] = 0
SeenInv ==
    \A b \in ToSet(taken) : \E g \in Range(delivered) : b \in Range(g)

\* `processed` counts what a kernel has taken and what it will take.
ProcessedInv ==
    NoLoss /\ Consumer = "kernel" =>
        processed = Len(taken) + Len(collected) + Len(message_queue)

\* From the end of one sequence to the beginning of the next.
LEMMA TotalMoves ==
    ASSUME NEW f \in [Batches -> Nat], NEW s \in Seq(Batches),
           NEW t \in Seq(Batches), t # <<>>
    PROVE  /\ Total(f, s) \in Nat /\ Total(f, t) \in Nat
           /\ Total(f, Append(s, Head(t))) \in Nat
           /\ Total(f, Tail(t)) \in Nat
           /\ Total(f, Append(s, Head(t))) + Total(f, Tail(t))
                 = Total(f, s) + Total(f, t)
  <1>1. Head(t) \in Batches /\ Tail(t) \in Seq(Batches)
    BY HeadTailProperties
  <1>2. /\ Total(f, s) \in Nat
        /\ Total(f, Append(s, Head(t))) = Total(f, s) + f[Head(t)]
    BY <1>1, TotalAppend
  <1>3. /\ Total(f, Tail(t)) \in Nat /\ f[Head(t)] \in Nat
        /\ Total(f, t) = f[Head(t)] + Total(f, Tail(t))
    BY TotalTail
  <1>4. QED
    BY <1>2, <1>3

\* The consumer's steps move rows and lose none.
LEMMA RowsMove ==
    ASSUME FlowInv, Consume
    PROVE  RowsPut' = RowsPut
  <1> USE DEF queueVars
  <1> DEFINE c == BatchesOf(collected)
             q == BatchesOf(message_queue)
  <1>0. /\ message_queue \in Seq(Messages) /\ collected \in Seq(Messages)
        /\ taken \in Seq(Batches) /\ setting \in Settings
    BY DEF FlowInv, TypeInv, TypeOK
  <1>1. Rows \in [Batches -> Nat]
    BY <1>0, SettingTypes
  <1>2. Rows' = Rows
    BY DEF Consume, wait_for_next, pull_message, pull_null,
           pullUnorderedFromCache, wait_to_concat, has_next_now, collect,
           collect_null, size_check, release_null, release_all,
           release_some, put_back, consumerUnchanged, Rows
  <1>3. c \in Seq(Batches) /\ q \in Seq(Batches)
    BY <1>0, BatchesOfType
  <1>4. /\ Total(Rows, taken) \in Nat /\ Total(Rows, c) \in Nat
        /\ Total(Rows, q) \in Nat
    BY <1>0, <1>1, <1>3, TotalConcat
  <1>5. SUFFICES Total(Rows, taken') + Total(Rows, BatchesOf(collected'))
                   + Total(Rows, BatchesOf(message_queue'))
                 = Total(Rows, taken) + Total(Rows, c) + Total(Rows, q)
    <2>1. /\ BatchesOf(collected)' = BatchesOf(collected')
          /\ BatchesOf(message_queue)' = BatchesOf(message_queue')
      BY DEF BatchesOf
    <2>2. QED
      BY <1>2, <1>5, <2>1 DEF RowsPut
  <1>6. CASE pull_message
    <2>1. /\ message_queue # <<>> /\ message_queue' = Tail(message_queue)
          /\ taken' = taken \o <<Head(message_queue).batch>>
          /\ collected' = collected
      BY <1>6 DEF pull_message, pop, deliver
    <2>2. /\ q # <<>> /\ Head(q) = Head(message_queue).batch
          /\ Tail(q) = BatchesOf(Tail(message_queue))
      BY <1>0, <2>1, BatchesTail
    <2>3. Head(q) \in Batches
      BY <1>3, <2>2, HeadTailProperties
    <2>4. taken' = Append(taken, Head(q))
      BY <1>0, <2>1, <2>2, <2>3, AppendIsConcat
    <2>5. BatchesOf(message_queue') = Tail(q) /\ BatchesOf(collected') = c
      BY <2>1, <2>2
    <2> HIDE DEF q, c
    <2>6. /\ Total(Rows, Append(taken, Head(q))) \in Nat
          /\ Total(Rows, Tail(q)) \in Nat
          /\ Total(Rows, Append(taken, Head(q))) + Total(Rows, Tail(q))
                = Total(Rows, taken) + Total(Rows, q)
      BY <1>0, <1>1, <1>3, <2>2, TotalMoves
    <2>7. Total(Rows, taken') = Total(Rows, Append(taken, Head(q)))
      BY <2>4
    <2>8. QED
      BY <1>4, <2>5, <2>6, <2>7
  <1>7. CASE pullUnorderedFromCache
    <2>1. CASE message_queue' = message_queue /\ taken' = taken
      BY <1>7, <2>1 DEF pullUnorderedFromCache
    <2>2. CASE ~(message_queue' = message_queue /\ taken' = taken)
      <3>1. PICK i \in DOMAIN message_queue :
                /\ taken' = taken \o <<message_queue[i].batch>>
                /\ message_queue' = RemoveAt(message_queue, i)
        BY <1>7, <2>2 DEF pullUnorderedFromCache, deliver
      <3>2. i \in 1 .. Len(message_queue) /\ collected' = collected
        BY <1>0, <1>7, LenProperties DEF pullUnorderedFromCache
      <3>3. /\ message_queue[i].batch = q[i]
            /\ BatchesOf(RemoveAt(message_queue, i)) = RemoveAt(q, i)
        BY <1>0, <3>2, BatchesRemoved
      <3>4. i \in 1 .. Len(q)
        BY <1>0, <3>2, BatchesOfEach
      <3>5. q[i] \in Batches
        BY <1>3, <3>4, ElementOfSeq
      <3>6. taken' = Append(taken, q[i])
        BY <1>0, <3>1, <3>3, <3>5, AppendIsConcat
      <3>7. BatchesOf(message_queue') = RemoveAt(q, i)
            /\ BatchesOf(collected') = c
        BY <3>1, <3>2, <3>3
      <3> HIDE DEF q, c
      <3>8. /\ Total(Rows, RemoveAt(q, i)) \in Nat /\ Rows[q[i]] \in Nat
            /\ Total(Rows, q) = Total(Rows, RemoveAt(q, i)) + Rows[q[i]]
        BY <1>1, <1>3, <3>4, TotalRemove
      <3>9. Total(Rows, taken') = Total(Rows, taken) + Rows[q[i]]
        BY <1>0, <1>1, <3>5, <3>6, TotalAppend
      <3>10. QED
        BY <1>4, <3>7, <3>8, <3>9
    <2>3. QED
      BY <2>1, <2>2
  <1>8. CASE collect
    <2>1. /\ message_queue # <<>> /\ message_queue' = Tail(message_queue)
          /\ collected' = Append(collected, Head(message_queue))
          /\ taken' = taken
      BY <1>8 DEF collect, pop
    <2>2. /\ q # <<>> /\ Head(q) = Head(message_queue).batch
          /\ Tail(q) = BatchesOf(Tail(message_queue))
      BY <1>0, <2>1, BatchesTail
    <2>3. Head(message_queue) \in Messages
      BY <1>0, <2>1, HeadTailProperties
    <2>4. BatchesOf(collected') = Append(c, Head(q))
      BY <1>0, <2>1, <2>2, <2>3, BatchesAppend
    <2>5. BatchesOf(message_queue') = Tail(q)
      BY <2>1, <2>2
    <2> HIDE DEF q, c
    <2>6. /\ Total(Rows, Append(c, Head(q))) \in Nat
          /\ Total(Rows, Tail(q)) \in Nat
          /\ Total(Rows, Append(c, Head(q))) + Total(Rows, Tail(q))
                = Total(Rows, c) + Total(Rows, q)
      BY <1>1, <1>3, <2>2, TotalMoves
    <2>7. /\ Total(Rows, BatchesOf(collected')) = Total(Rows, Append(c, Head(q)))
          /\ Total(Rows, BatchesOf(message_queue')) = Total(Rows, Tail(q))
          /\ Total(Rows, taken') = Total(Rows, taken)
      BY <2>1, <2>4, <2>5
    <2>8. QED
      BY <1>4, <2>6, <2>7
  <1>9. CASE release_all
    <2>1. taken' = taken \o c /\ collected' = <<>> /\ message_queue' = message_queue
      BY <1>9 DEF release_all, deliver
    <2>2. Total(Rows, taken') = Total(Rows, taken) + Total(Rows, c)
      <3> HIDE DEF c
      <3>1. QED
        BY <1>0, <1>1, <1>3, <2>1, TotalConcat
    <2>3. Total(Rows, BatchesOf(collected')) = 0
      <3>1. BatchesOf(<<>>) = <<>>
        BY DEF BatchesOf
      <3>2. QED
        BY <1>1, <2>1, <3>1, TotalEmpty
    <2>4. BatchesOf(message_queue') = q
      BY <2>1
    <2> HIDE DEF q, c
    <2>5. QED
      BY <1>4, <2>2, <2>3, <2>4
  <1>10. CASE release_some
    <2>1. PICK i \in 2 .. Len(collected) :
              /\ taken' = taken \o BatchesOf(SubSeq(collected, 1, i - 1))
              /\ collected' = [SubSeq(collected, i, Len(collected))
                                  EXCEPT ![1].tier = "GPU"]
      BY <1>10 DEF release_some, deliver
    <2> DEFINE n == Len(collected)
               k == i - 1
               r == SubSeq(collected, i, n)
    <2>2. /\ n \in Nat /\ Len(c) = n
      BY <1>0, BatchesOfEach
    <2>3. /\ i \in Nat /\ 1 \in Nat /\ i - 1 \in Nat /\ 1 <= 1 /\ 1 <= i
          /\ 1 <= i - 1 + 1 /\ i - 1 <= n /\ i <= n + 1 /\ n <= n
          /\ 1 <= n - i + 1 /\ k \in 0 .. n /\ k + 1 = i
      BY <2>2
    <2>4. BatchesOf(SubSeq(collected, 1, i - 1)) = SubSeq(c, 1, k)
      BY <1>0, <2>3, BatchesPiece
    <2>5. BatchesOf(r) = SubSeq(c, k + 1, n)
      <3>1. BatchesOf(r) = SubSeq(c, i, n)
        BY <1>0, <2>2, <2>3, BatchesPiece
      <3>2. QED
        BY <2>3, <3>1
    <2>6. r \in Seq(Messages) /\ Len(r) = n - i + 1
      BY <1>0, <2>2, <2>3, Piece
    <2> HIDE DEF r, n, k
    <2>7. 1 \in 1 .. Len(r)
      BY <2>2, <2>3, <2>6
    <2>8. BatchesOf(collected') = SubSeq(c, k + 1, n)
      BY <2>1, <2>5, <2>6, <2>7, BatchesMoved DEF r, n
    <2>9. message_queue' = message_queue
      BY <1>10 DEF release_some
    <2>10. BatchesOf(message_queue') = q
      BY <2>9
    <2> HIDE DEF q, c
    <2>11. /\ Total(Rows, SubSeq(c, 1, k)) \in Nat
           /\ Total(Rows, SubSeq(c, k + 1, n)) \in Nat
           /\ Total(Rows, c) = Total(Rows, SubSeq(c, 1, k))
                               + Total(Rows, SubSeq(c, k + 1, n))
           /\ SubSeq(c, 1, k) \in Seq(Batches)
      BY <1>1, <1>3, <2>2, <2>3, TotalPrefix, CutInTwo
    <2>12. Total(Rows, taken') = Total(Rows, taken) + Total(Rows, SubSeq(c, 1, k))
      BY <1>0, <1>1, <2>1, <2>4, <2>11, TotalConcat
    <2>13. QED
      BY <1>4, <2>8, <2>10, <2>11, <2>12
  <1>11. CASE put_back /\ collected # <<>>
    <2>1. /\ message_queue' = Append(message_queue, Head(collected))
          /\ collected' = Tail(collected) /\ taken' = taken
      BY <1>11 DEF put_back, put
    <2>2. /\ c # <<>> /\ Head(c) = Head(collected).batch
          /\ Tail(c) = BatchesOf(Tail(collected))
      BY <1>0, <1>11, BatchesTail
    <2>3. Head(collected) \in Messages
      BY <1>0, <1>11, HeadTailProperties
    <2>4. BatchesOf(message_queue') = Append(q, Head(c))
      BY <1>0, <2>1, <2>2, <2>3, BatchesAppend
    <2>5. BatchesOf(collected') = Tail(c)
      BY <2>1, <2>2
    <2> HIDE DEF q, c
    <2>6. /\ Total(Rows, Append(q, Head(c))) \in Nat
          /\ Total(Rows, Tail(c)) \in Nat
          /\ Total(Rows, Append(q, Head(c))) + Total(Rows, Tail(c))
                = Total(Rows, q) + Total(Rows, c)
      BY <1>1, <1>3, <2>2, TotalMoves
    <2>7. /\ Total(Rows, BatchesOf(message_queue')) = Total(Rows, Append(q, Head(c)))
          /\ Total(Rows, BatchesOf(collected')) = Total(Rows, Tail(c))
          /\ Total(Rows, taken') = Total(Rows, taken)
      BY <2>1, <2>4, <2>5
    <2>8. QED
      BY <1>4, <2>6, <2>7
  <1>12. CASE /\ ~pull_message /\ ~pullUnorderedFromCache /\ ~collect
              /\ ~release_all /\ ~release_some
              /\ ~(put_back /\ collected # <<>>)
    <2>1. UNCHANGED <<taken, collected, message_queue>>
      BY <1>12 DEF Consume, wait_for_next, pull_null, pop_null, wait_to_concat,
             has_next_now, collect_null, size_check, release_null, put_back
    <2>2. QED
      BY <2>1
  <1>13. QED
    BY <1>6, <1>7, <1>8, <1>9, <1>10, <1>11, <1>12

\* What is counted by producer p is not counted by another.
LEMMA CountedApart ==
    ASSUME FlowInv, TodoInv, NEW p \in Producers, todo[p] # <<>>,
           add_pc[p] \in {"ready", "place", "write"},
           NEW r \in Producers, r # p, add_pc[r] \in {"place", "write"}
    PROVE  Head(todo[r]) # Head(todo[p])
  <1>1. Rest(p) = todo[p] /\ Rest(r) = todo[r] /\ todo[r] # <<>>
    BY RestFacts DEF Rest
  <1>2. todo[p] \in Seq(Batches) /\ todo[r] \in Seq(Batches)
    BY RestFacts
  <1>3. Head(todo[p]) \in ToSet(Rest(p)) /\ Head(todo[r]) \in ToSet(Rest(r))
    BY <1>1, <1>2, TailQueue
  <1>4. QED
    BY <1>3, RestsApart

\* A producer's step counts the rows of the batch it has, or puts it.
LEMMA CountedStep ==
    ASSUME FlowInv, TodoInv, NEW p \in Producers
    PROVE  /\ add(p) /\ admits(p, Head(todo[p])) =>
                  /\ Head(todo[p]) \notin Counted
                  /\ Counted' = Counted \cup {Head(todo[p])}
           /\ \/ add(p) /\ ~admits(p, Head(todo[p]))
              \/ add_to_disk(p) \/ add_mark(p)
              => Counted' = Counted
           /\ add_put(p) \/ add_throws(p) =>
                  /\ Head(todo[p]) \in Counted
                  /\ Counted' = Counted \ {Head(todo[p])}
  <1> DEFINE h == Head(todo[p])
             in(r) == add_pc[r] \in {"place", "write"}
  <1>0. /\ todo \in [Producers -> Seq(Batches)]
        /\ add_pc \in [Producers -> AddPcs]
    BY DEF FlowInv, TypeInv, TypeOK
  <1>1. ASSUME NEW x
        PROVE  x \in Counted <=> \E r \in Producers : in(r) /\ x = Head(todo[r])
    BY DEF Counted
  <1>2. ASSUME NEW x
        PROVE  x \in Counted' <=>
                   \E r \in Producers : /\ add_pc'[r] \in {"place", "write"}
                                        /\ x = Head(todo'[r])
    BY DEF Counted
  <1>3. ASSUME add(p), admits(p, h)
        PROVE  h \notin Counted /\ Counted' = Counted \cup {h}
    <2>1. /\ add_pc[p] = "ready" /\ todo[p] # <<>> /\ todo' = todo
          /\ add_pc' = [add_pc EXCEPT ![p] = "place"]
      BY <1>3 DEF add
    <2>2. \A r \in Producers : in(r) => r # p /\ Head(todo[r]) # h
      BY <2>1, CountedApart
    <2>3. h \notin Counted
      BY <1>1, <2>2
    <2>4. \A r \in Producers : add_pc'[r] \in {"place", "write"} <=> in(r) \/ r = p
      BY <1>0, <2>1
    <2>5. \A x : x \in Counted' <=> x \in Counted \/ x = h
      BY <1>1, <1>2, <2>1, <2>4
    <2>6. QED
      BY <2>3, <2>5
  <1>4. ASSUME \/ add(p) /\ ~admits(p, h)
               \/ add_to_disk(p) \/ add_mark(p)
        PROVE  Counted' = Counted
    <2>1. \A r \in Producers :
              /\ add_pc'[r] \in {"place", "write"} <=> in(r)
              /\ in(r) => todo'[r] = todo[r]
      BY <1>0, <1>4 DEF add, add_to_disk, add_mark
    <2>2. \A x : x \in Counted' <=> x \in Counted
      BY <1>1, <1>2, <2>1
    <2>3. QED
      BY <2>2
  <1>5. ASSUME add_put(p) \/ add_throws(p)
        PROVE  h \in Counted /\ Counted' = Counted \ {h}
    <2>1. /\ add_pc[p] = "place" /\ todo' = todo
          /\ \E pc \in {"mark", "ready", "threw"} :
                 add_pc' = [add_pc EXCEPT ![p] = pc]
      BY <1>5 DEF add_put, add_throws
    <2>2. todo[p] # <<>>
      BY <2>1, RestFacts
    <2>3. \A r \in Producers : in(r) /\ r # p => Head(todo[r]) # h
      BY <2>1, <2>2, CountedApart
    <2>4. \A r \in Producers : add_pc'[r] \in {"place", "write"} <=> in(r) /\ r # p
      BY <1>0, <2>1
    <2>5. in(p)
      BY <2>1
    <2>6. h \in Counted
      BY <1>1, <2>5
    <2>7. \A x : x \in Counted' <=> x \in Counted /\ x # h
      BY <1>1, <1>2, <2>1, <2>3, <2>4
    <2>8. QED
      BY <2>6, <2>7
  <1>6. QED
    BY <1>3, <1>4, <1>5

\* Every step keeps the count of the rows.
LEMMA RowsStep ==
    ASSUME FlowInv, TodoInv, RowsInv, [Next]_vars
    PROVE  RowsInv'
  <1> USE DEF queueVars, addVars, fileVars, pullVars, monitorVars, endVars,
              consumerUnchanged, monitorUnchanged
  <1> DEFINE c == BatchesOf(collected)
             q == BatchesOf(message_queue)
  <1>0. /\ message_queue \in Seq(Messages) /\ collected \in Seq(Messages)
        /\ taken \in Seq(Batches) /\ setting \in Settings
        /\ num_rows_added \in Nat /\ recounted \in Seq(Batches)
        /\ todo \in [Producers -> Seq(Batches)]
    BY DEF FlowInv, TypeInv, TypeOK
  <1>1. Rows \in [Batches -> Nat]
    BY <1>0, SettingTypes
  <1>2. Rows' = Rows /\ (NoLoss' => NoLoss)
    BY DEF vars, Next, Produce, add, add_put, add_to_disk, add_nowhere,
           add_mark, add_throws, write_orc_throws, write_orc, write_orc_fails,
           finish, finish_aborted, Consume, wait_for_next, pull_message,
           pull_null, pullUnorderedFromCache, wait_to_concat, has_next_now, collect,
           collect_null, size_check, release_null, release_all,
           release_some, put_back, Downgrade, downgrade_begin,
           downgrade_to_host, downgrade_to_disk, downgrade_throws,
           downgrade_end, Rows, NoLoss
  <1>3. c \in Seq(Batches) /\ q \in Seq(Batches)
    BY <1>0, BatchesOfType
  <1>4. /\ Total(Rows, taken) \in Nat /\ Total(Rows, c) \in Nat
        /\ Total(Rows, q) \in Nat /\ RowsPut \in Nat
        /\ RowsPut = Total(Rows, taken) + Total(Rows, c) + Total(Rows, q)
    <2>1. /\ Total(Rows, taken) \in Nat /\ Total(Rows, c) \in Nat
          /\ Total(Rows, q) \in Nat
      BY <1>0, <1>1, <1>3, TotalConcat
    <2>2. RowsPut = Total(Rows, taken) + Total(Rows, c) + Total(Rows, q)
      BY DEF RowsPut
    <2> HIDE DEF c, q
    <2>3. QED
      BY <2>1, <2>2
  <1>5. SUFFICES ASSUME NoLoss', NoLoss
                 PROVE  \E s \in Seq(Batches) :
                            /\ IsInjective(s)
                            /\ ToSet(s) = Counted'
                            /\ RowsOnce' = RowsPut' + Total(Rows, s)
    BY <1>2 DEF RowsInv
  <1>6. PICK s \in Seq(Batches) : /\ IsInjective(s)
                                  /\ ToSet(s) = Counted
                                  /\ RowsOnce = RowsPut + Total(Rows, s)
    BY <1>5 DEF RowsInv
  <1>7. Total(Rows, s) \in Nat
    BY <1>1, TotalConcat
  <1>8. ASSUME UNCHANGED <<taken, collected>>,
               BatchesOf(message_queue') = q
        PROVE  RowsPut' = RowsPut
    <2>1. /\ BatchesOf(collected)' = BatchesOf(collected')
          /\ BatchesOf(message_queue)' = BatchesOf(message_queue')
      BY DEF BatchesOf
    <2>2. QED
      BY <1>2, <1>8, <2>1 DEF RowsPut
  <1>12. Total(Rows, recounted) \in Nat /\ RowsOnce \in Int
    <2>1. Total(Rows, recounted) \in Nat
      BY <1>0, <1>1, TotalConcat
    <2>2. QED
      BY <1>0, <2>1 DEF RowsOnce
  <1>13. ASSUME UNCHANGED <<num_rows_added, recounted>>
         PROVE  RowsOnce' = RowsOnce
    BY <1>2, <1>13 DEF RowsOnce
  <1>9. ASSUME NEW p \in Producers,
               Produce(p) \/ add_throws(p) \/ write_orc_throws(p)
        PROVE  \E t \in Seq(Batches) :
                   /\ IsInjective(t)
                   /\ ToSet(t) = Counted'
                   /\ RowsOnce' = RowsPut' + Total(Rows, t)
    <2> DEFINE h == Head(todo[p])
    <2>1. CASE add(p) /\ admits(p, h)
      <3>1. /\ UNCHANGED <<taken, collected, message_queue, recounted>>
            /\ num_rows_added' = num_rows_added + Rows[h] /\ todo[p] # <<>>
        BY <2>1 DEF add
      <3>2. RowsPut' = RowsPut
        BY <1>8, <3>1
      <3>3. h \in Batches
        BY <1>0, <3>1, HeadTailProperties
      <3>4. h \notin Counted /\ Counted' = Counted \cup {h}
        BY <2>1, CountedStep
      <3>5. /\ Append(s, h) \in Seq(Batches) /\ IsInjective(Append(s, h))
            /\ ToSet(Append(s, h)) = Counted'
        BY <1>6, <3>3, <3>4, AppendQueue
      <3>6. Total(Rows, Append(s, h)) = Total(Rows, s) + Rows[h]
        BY <1>1, <3>3, TotalAppend
      <3>7. Rows[h] \in Nat
        BY <1>1, <3>3
      <3> HIDE DEF h
      <3>8. RowsOnce' = RowsPut' + Total(Rows, Append(s, h))
        <4> DEFINE r == Total(Rows, s)
                   w == Rows[h]
                   o == RowsPut
        <4>1. r \in Nat /\ w \in Nat /\ o \in Nat
          BY <1>4, <1>7, <3>7
        <4>2. RowsOnce' = (o + r) + w
          <5>1. RowsOnce' = (num_rows_added + w) - Total(Rows, recounted)
            BY <1>2, <3>1 DEF RowsOnce
          <5>2. num_rows_added - Total(Rows, recounted) = o + r
            BY <1>6 DEF RowsOnce
          <5>3. QED
            BY <1>0, <1>12, <4>1, <5>1, <5>2
        <4>3. Total(Rows, Append(s, h)) = r + w /\ RowsPut' = o
          BY <3>2, <3>6
        <4> HIDE DEF r, w, o
        <4>4. (o + r) + w = o + (r + w)
          BY <4>1
        <4>5. QED
          BY <4>2, <4>3, <4>4
      <3>9. QED
        BY <3>5, <3>8
    <2>2. CASE \/ add(p) /\ ~admits(p, h)
               \/ add_to_disk(p) \/ add_mark(p)
      <3>1. UNCHANGED <<taken, collected, message_queue, num_rows_added,
                        recounted>>
        BY <2>2 DEF add, add_to_disk, add_mark
      <3>2. RowsPut' = RowsPut
        BY <1>8, <3>1
      <3>3. Counted' = Counted
        BY <2>2, CountedStep
      <3>4. RowsOnce' = RowsOnce
        BY <1>13, <3>1
      <3>5. QED
        BY <1>6, <3>2, <3>3, <3>4
    <2>3. CASE add_put(p)
      <3>1. PICK tier \in put_tiers(p) :
                message_queue' = Append(message_queue,
                                        [batch |-> h, tier |-> tier])
        BY <2>3 DEF add_put, put
      <3>2. /\ UNCHANGED <<taken, collected, num_rows_added, recounted>>
            /\ add_pc[p] = "place"
        BY <2>3 DEF add_put
      <3>3. todo[p] # <<>>
        BY <3>2, RestFacts
      <3>4. h \in Batches /\ h \in Counted /\ Counted' = Counted \ {h}
        BY <1>0, <2>3, <3>3, HeadTailProperties, CountedStep
      <3>5. put_tiers(p) \subseteq {"GPU", "CPU", "FILE"}
        <4>1. Entry[p] \in Entries
          BY <1>0, SettingTypes
        <4>2. QED
          BY <4>1 DEF put_tiers, Entries
      <3>6. [batch |-> h, tier |-> tier] \in Messages
        BY <3>4, <3>5 DEF Messages
      <3>7. BatchesOf(message_queue') = Append(q, h)
        BY <1>0, <3>1, <3>6, BatchesAppend
      <3>8. PICK i \in DOMAIN s : s[i] = h
        BY <1>6, <3>4 DEF ToSet
      <3>9. i \in 1 .. Len(s)
        BY LenProperties
      <3>10. /\ IsInjective(RemoveAt(s, i)) /\ ToSet(RemoveAt(s, i)) = Counted'
        BY <1>6, <3>4, <3>8, <3>9, RemoveQueue
      <3>11. RemoveAt(s, i) \in Seq(Batches)
        <4>1. /\ i - 1 \in 0 .. Len(s) /\ i \in 0 .. Len(s)
          BY <3>9, LenProperties
        <4>2. /\ SubSeq(s, 1, i - 1) \in Seq(Batches)
              /\ SubSeq(s, i + 1, Len(s)) \in Seq(Batches)
          BY <4>1, CutInTwo
        <4>3. QED
          BY <4>2, ConcatProperties DEF RemoveAt
      <3>12. /\ Total(Rows, RemoveAt(s, i)) \in Nat /\ Rows[h] \in Nat
             /\ Total(Rows, s) = Total(Rows, RemoveAt(s, i)) + Rows[h]
        BY <1>1, <3>8, <3>9, TotalRemove
      <3>13. Total(Rows, Append(q, h)) = Total(Rows, q) + Rows[h]
        BY <1>1, <1>3, <3>4, TotalAppend
      <3>14. RowsPut' = RowsPut + Rows[h]
        <4>1. /\ BatchesOf(collected)' = BatchesOf(collected')
              /\ BatchesOf(message_queue)' = BatchesOf(message_queue')
          BY DEF BatchesOf
        <4>2. /\ Total(Rows, taken)' = Total(Rows, taken)
              /\ Total(Rows, BatchesOf(collected))' = Total(Rows, c)
              /\ Total(Rows, BatchesOf(message_queue))' = Total(Rows, Append(q, h))
          BY <1>2, <3>2, <3>7, <4>1
        <4> HIDE DEF c, q, h
        <4>3. RowsPut' = Total(Rows, taken) + Total(Rows, c)
                         + Total(Rows, Append(q, h))
          BY <4>2 DEF RowsPut
        <4>4. QED
          BY <1>4, <3>12, <3>13, <4>3
      <3> HIDE DEF h
      <3>15. RowsOnce' = RowsPut' + Total(Rows, RemoveAt(s, i))
        <4> DEFINE r == Total(Rows, RemoveAt(s, i))
                   w == Rows[h]
                   o == RowsPut
        <4>1. r \in Nat /\ w \in Nat /\ o \in Nat
          BY <1>4, <3>12
        <4>2. RowsOnce' = o + Total(Rows, s) /\ Total(Rows, s) = r + w
          BY <1>6, <1>13, <3>2, <3>12
        <4>3. RowsPut' = o + w
          BY <3>14
        <4> HIDE DEF r, w, o
        <4>4. RowsOnce' = o + (r + w)
          BY <4>2
        <4>5. o + (r + w) = (o + w) + r
          BY <4>1
        <4>6. QED
          BY <4>3, <4>4, <4>5 DEF r
      <3>16. QED
        BY <3>10, <3>11, <3>15
    <2>4. CASE add_nowhere(p) \/ write_orc_throws(p)
      BY <1>5, <2>4 DEF add_nowhere, write_orc_throws, NoLoss
    <2>5. CASE add_throws(p)
      <3>1. /\ UNCHANGED <<taken, collected, message_queue, num_rows_added>>
            /\ recounted' = Append(recounted, h)
            /\ add_pc[p] = "place"
        BY <2>5 DEF add_throws
      <3>2. RowsPut' = RowsPut
        BY <1>8, <3>1
      <3>3. todo[p] # <<>>
        BY <3>1, RestFacts
      <3>4. h \in Batches /\ h \in Counted /\ Counted' = Counted \ {h}
        BY <1>0, <2>5, <3>3, HeadTailProperties, CountedStep
      <3>5. PICK i \in DOMAIN s : s[i] = h
        BY <1>6, <3>4 DEF ToSet
      <3>6. i \in 1 .. Len(s)
        BY LenProperties
      <3>7. /\ IsInjective(RemoveAt(s, i)) /\ ToSet(RemoveAt(s, i)) = Counted'
        BY <1>6, <3>4, <3>5, <3>6, RemoveQueue
      <3>8. RemoveAt(s, i) \in Seq(Batches)
        BY <3>6, RemoveAtType
      <3>9. /\ Total(Rows, RemoveAt(s, i)) \in Nat /\ Rows[h] \in Nat
            /\ Total(Rows, s) = Total(Rows, RemoveAt(s, i)) + Rows[h]
        BY <1>1, <3>5, <3>6, TotalRemove
      <3>10. Total(Rows, Append(recounted, h))
               = Total(Rows, recounted) + Rows[h]
        BY <1>0, <1>1, <3>4, TotalAppend
      <3> HIDE DEF h
      <3>11. RowsOnce' = RowsPut' + Total(Rows, RemoveAt(s, i))
        <4> DEFINE r == Total(Rows, RemoveAt(s, i))
                   w == Rows[h]
                   o == RowsPut
                   t == Total(Rows, recounted)
        <4>1. r \in Nat /\ w \in Nat /\ o \in Nat /\ t \in Nat
          BY <1>4, <1>12, <3>9
        <4>2. RowsOnce' = num_rows_added - (t + w)
          BY <1>2, <3>1, <3>10 DEF RowsOnce
        <4>3. num_rows_added - t = o + (r + w)
          BY <1>6, <3>9 DEF RowsOnce
        <4>4. RowsPut' = o
          BY <3>2
        <4> HIDE DEF r, w, o, t
        <4>5. num_rows_added - (t + w) = o + r
          BY <1>0, <4>1, <4>3
        <4>6. QED
          BY <4>2, <4>4, <4>5 DEF r
      <3>12. QED
        BY <3>7, <3>8, <3>11
    <2>6. QED
      BY <1>9, <2>1, <2>2, <2>3, <2>4, <2>5 DEF Produce
  <1>10. CASE ~(\E p \in Producers :
                    Produce(p) \/ add_throws(p) \/ write_orc_throws(p))
    <2>1. UNCHANGED <<todo, add_pc, num_rows_added, recounted>>
      BY <1>10 DEF vars, Next, write_orc, write_orc_fails, finish,
           finish_aborted, Consume, wait_for_next, pull_message, pull_null,
           pullUnorderedFromCache, wait_to_concat, has_next_now, collect,
           collect_null, size_check, release_null, release_all,
           release_some, put_back, Downgrade, downgrade_begin,
           downgrade_to_host, downgrade_to_disk, downgrade_throws,
           downgrade_end
    <2>2. Counted' = Counted
      BY <2>1 DEF Counted
    <2>3. RowsPut' = RowsPut
      <3>1. CASE Consume
        BY <3>1, RowsMove
      <3>2. CASE Downgrade
        <4>1. BatchesOf(message_queue') = q
          <5>1. CASE downgrade_throws
            <6>1. Range(q) = {} /\ message_queue' = <<>>
              BY <1>5, <5>1 DEF downgrade_throws, NoLoss
            <6>2. DOMAIN q = {}
              BY <6>1 DEF Range
            <6>3. Len(message_queue) = 0
              BY <1>0, <6>2, BatchesOfEach
            <6>4. QED
              BY <1>0, <6>1, <6>3, EmptySeq
          <5>2. CASE downgrade_to_host
            <6>1. PICK i \in DOMAIN message_queue :
                      message_queue' = [message_queue EXCEPT ![i].tier = "CPU"]
              BY <5>2 DEF downgrade_to_host
            <6>2. i \in 1 .. Len(message_queue)
              BY <1>0, LenProperties
            <6>3. QED
              BY <1>0, <6>1, <6>2, BatchesMoved
          <5>3. CASE ~downgrade_throws /\ ~downgrade_to_host
            <6>1. message_queue' = message_queue
              BY <3>2, <5>3 DEF Downgrade, downgrade_begin, downgrade_to_disk,
                                downgrade_end
            <6>2. QED
              BY <6>1
          <5>4. QED
            BY <5>1, <5>2, <5>3
        <4>2. UNCHANGED <<taken, collected>>
          BY <3>2 DEF Downgrade, downgrade_begin, downgrade_to_host,
                 downgrade_to_disk, downgrade_throws, downgrade_end
        <4>3. QED
          BY <1>8, <4>1, <4>2
      <3>3. CASE ~Consume /\ ~Downgrade
        <4>1. UNCHANGED <<taken, collected, message_queue>>
          BY <1>10, <3>3 DEF vars, Next, write_orc, write_orc_fails, finish,
                 finish_aborted
        <4>2. QED
          BY <1>8, <4>1
      <3>4. QED
        BY <3>1, <3>2, <3>3
    <2>4. RowsOnce' = RowsOnce
      BY <1>13, <2>1
    <2>5. QED
      BY <1>6, <2>2, <2>3, <2>4
  <1>11. QED
    BY <1>9, <1>10

\* Only a table without rows is skipped.
LEMMA SkippedStep ==
    ASSUME FlowInv, SkippedInv, [Next]_vars
    PROVE  SkippedInv'
  <1> USE DEF queueVars, addVars, fileVars, pullVars, monitorVars, endVars,
              consumerUnchanged, monitorUnchanged
  <1>0. setting \in Settings /\ todo \in [Producers -> Seq(Batches)]
    BY DEF FlowInv, TypeInv, TypeOK
  <1>1. Rows \in [Batches -> Nat]
    BY <1>0, SettingTypes
  <1>2. Rows' = Rows
    BY DEF vars, Next, Produce, add, add_put, add_to_disk, add_nowhere,
           add_mark, add_throws, write_orc_throws, write_orc, write_orc_fails,
           finish, finish_aborted, Consume, wait_for_next, pull_message,
           pull_null, pullUnorderedFromCache, wait_to_concat, has_next_now, collect,
           collect_null, size_check, release_null, release_all,
           release_some, put_back, Downgrade, downgrade_begin,
           downgrade_to_host, downgrade_to_disk, downgrade_throws,
           downgrade_end, Rows
  <1>3. \/ skipped' = skipped
        \/ \E p \in Producers : /\ todo[p] # <<>>
                                /\ ~admits(p, Head(todo[p]))
                                /\ skipped' = skipped \cup {Head(todo[p])}
    BY DEF vars, Next, Produce, add, add_put, add_to_disk, add_nowhere,
           add_mark, add_throws, write_orc_throws, write_orc, write_orc_fails,
           finish, finish_aborted, Consume, wait_for_next, pull_message,
           pull_null, pullUnorderedFromCache, wait_to_concat, has_next_now, collect,
           collect_null, size_check, release_null, release_all,
           release_some, put_back, Downgrade, downgrade_begin,
           downgrade_to_host, downgrade_to_disk, downgrade_throws,
           downgrade_end
  <1>4. CASE skipped' = skipped
    BY <1>2, <1>4 DEF SkippedInv
  <1>5. ASSUME NEW p \in Producers, todo[p] # <<>>,
               ~admits(p, Head(todo[p])),
               skipped' = skipped \cup {Head(todo[p])}
        PROVE  SkippedInv'
    <2>1. Head(todo[p]) \in Batches
      BY <1>0, <1>5, HeadTailProperties
    <2>2. ~(Rows[Head(todo[p])] > 0)
      BY <1>5 DEF admits
    <2>3. Rows[Head(todo[p])] = 0
      BY <1>1, <2>1, <2>2
    <2>4. QED
      BY <1>2, <1>5, <2>3 DEF SkippedInv
  <1>6. QED
    BY <1>3, <1>4, <1>5

\* What is taken is in some table.
LEMMA SeenStep ==
    ASSUME FlowInv, SeenInv, [Next]_vars
    PROVE  SeenInv'
  <1> USE DEF queueVars, addVars, fileVars, pullVars, monitorVars, endVars,
              consumerUnchanged, monitorUnchanged
  <1>0. /\ delivered \in Seq(Seq(Batches)) /\ taken \in Seq(Batches)
        /\ collected \in Seq(Messages) /\ message_queue \in Seq(Messages)
    BY DEF FlowInv, TypeInv, TypeOK
  <1>1. ASSUME NEW g \in Seq(Batches), deliver(g) PROVE SeenInv'
    <2>1. delivered' = Append(delivered, g) /\ taken' = taken \o g
      BY <1>1 DEF deliver
    <2>2. ToSet(Append(delivered, g)) = ToSet(delivered) \cup {g}
      BY <1>0, AppendQueue
    <2>3. Range(delivered') = Range(delivered) \cup {g}
      BY <2>1, <2>2 DEF Range, ToSet
    <2>4. ToSet(taken') = ToSet(taken) \cup ToSet(g)
      BY <1>0, <2>1, ConcatQueue
    <2>5. ToSet(g) = Range(g)
      BY DEF ToSet, Range
    <2>6. ASSUME NEW b \in ToSet(taken')
          PROVE  \E h \in Range(delivered') : b \in Range(h)
      <3>1. CASE b \in ToSet(taken)
        BY <2>3, <3>1 DEF SeenInv
      <3>2. CASE b \in ToSet(g)
        BY <2>3, <2>5, <3>2
      <3>3. QED
        BY <2>4, <3>1, <3>2
    <2>7. QED
      BY <2>6 DEF SeenInv
  <1>2. \/ UNCHANGED <<delivered, taken>>
        \/ \E g \in Seq(Batches) : deliver(g)
    <2>1. CASE pull_message
      <3>1. message_queue # <<>> /\ deliver(<<Head(message_queue).batch>>)
        BY <2>1 DEF pull_message, pop
      <3>2. Head(message_queue).batch \in Batches
        BY <1>0, <3>1, BatchesHead
      <3>3. <<Head(message_queue).batch>> \in Seq(Batches)
        BY <3>2
      <3>4. QED
        BY <3>1, <3>3
    <2>2. CASE pullUnorderedFromCache /\ ~UNCHANGED <<delivered, taken>>
      <3>1. PICK i \in DOMAIN message_queue :
                deliver(<<message_queue[i].batch>>)
        BY <2>2 DEF pullUnorderedFromCache
      <3>2. message_queue[i] \in Messages
        BY <1>0, ElementOfSeq, LenProperties
      <3>3. message_queue[i].batch \in Batches
        BY <3>2 DEF Messages
      <3>4. <<message_queue[i].batch>> \in Seq(Batches)
        BY <3>3
      <3>5. QED
        BY <3>1, <3>4
    <2>3. CASE release_all
      <3>1. deliver(BatchesOf(collected)) /\ BatchesOf(collected) \in Seq(Batches)
        BY <1>0, <2>3, BatchesOfType DEF release_all
      <3>2. QED
        BY <3>1
    <2>4. CASE release_some
      <3>1. PICK i \in 2 .. Len(collected) :
                deliver(BatchesOf(SubSeq(collected, 1, i - 1)))
        BY <2>4 DEF release_some
      <3>2. i - 1 \in 0 .. Len(collected)
        BY <1>0, LenProperties
      <3>3. SubSeq(collected, 1, i - 1) \in Seq(Messages)
        BY <1>0, <3>2, CutInTwo
      <3>4. BatchesOf(SubSeq(collected, 1, i - 1)) \in Seq(Batches)
        BY <3>3, BatchesOfType
      <3>5. QED
        BY <3>1, <3>4
    <2>5. CASE /\ ~pull_message /\ ~release_all /\ ~release_some
               /\ ~(pullUnorderedFromCache /\ ~UNCHANGED <<delivered, taken>>)
      BY <2>5 DEF vars, Next, Produce, add, add_put, add_to_disk, add_nowhere,
           add_mark, add_throws, write_orc_throws, write_orc, write_orc_fails,
           finish, finish_aborted, Consume, wait_for_next, pull_null,
           pullUnorderedFromCache, wait_to_concat, has_next_now, collect,
           collect_null, size_check, release_null, put_back,
           Downgrade, downgrade_begin, downgrade_to_host, downgrade_to_disk,
           downgrade_throws, downgrade_end
    <2>6. QED
      BY <2>1, <2>2, <2>3, <2>4, <2>5
  <1>3. CASE UNCHANGED <<delivered, taken>>
    BY <1>3 DEF SeenInv
  <1>4. QED
    BY <1>1, <1>2, <1>3

\* Every step keeps the count of a kernel's messages.
LEMMA ProcessedStep ==
    ASSUME FlowInv, KernelInv, ProcessedInv, [Next]_vars
    PROVE  ProcessedInv'
  <1> USE DEF queueVars, addVars, fileVars, pullVars, monitorVars, endVars,
              consumerUnchanged, monitorUnchanged
  <1>0. /\ message_queue \in Seq(Messages) /\ collected \in Seq(Messages)
        /\ taken \in Seq(Batches) /\ processed \in Nat
        /\ Len(message_queue) \in Nat /\ Len(collected) \in Nat
        /\ Len(taken) \in Nat
    BY LenProperties DEF FlowInv, TypeInv, TypeOK
  <1>1. Consumer' = Consumer /\ (NoLoss' => NoLoss)
    BY DEF vars, Next, Produce, add, add_put, add_to_disk, add_nowhere,
           add_mark, add_throws, write_orc_throws, write_orc, write_orc_fails,
           finish, finish_aborted, Consume, wait_for_next, pull_message,
           pull_null, pullUnorderedFromCache, wait_to_concat, has_next_now, collect,
           collect_null, size_check, release_null, release_all,
           release_some, put_back, Downgrade, downgrade_begin,
           downgrade_to_host, downgrade_to_disk, downgrade_throws,
           downgrade_end, Consumer, NoLoss
  <1>2. SUFFICES ASSUME NoLoss', Consumer = "kernel"
                 PROVE  processed' = Len(taken') + Len(collected')
                                     + Len(message_queue')
    BY <1>1 DEF ProcessedInv
  <1>3. processed = Len(taken) + Len(collected) + Len(message_queue)
    BY <1>1, <1>2 DEF ProcessedInv
  <1>4. message_queue # <<>> =>
            /\ Len(Tail(message_queue)) = Len(message_queue) - 1
            /\ Head(message_queue) \in Messages
            /\ Head(message_queue).batch \in Batches
            /\ Len(message_queue) > 0
    <2>1. message_queue # <<>> =>
              /\ Len(Tail(message_queue)) = Len(message_queue) - 1
              /\ Head(message_queue) \in Messages
      BY <1>0, HeadTailProperties
    <2>2. message_queue # <<>> => Head(message_queue).batch \in Batches
      BY <1>0, BatchesHead
    <2>3. message_queue # <<>> => Len(message_queue) > 0
      BY <1>0, EmptySeq
    <2>4. QED
      BY <2>1, <2>2, <2>3
  <1>5. ASSUME NEW p \in Producers, add_put(p)
        PROVE  processed' = Len(taken') + Len(collected') + Len(message_queue')
    <2>1. PICK m : /\ message_queue' = Append(message_queue, m)
                   /\ processed' = processed + 1
      BY <1>5 DEF add_put, put
    <2>2. UNCHANGED <<taken, collected>>
      BY <1>5 DEF add_put
    <2>3. Len(message_queue') = Len(message_queue) + 1
      BY <1>0, <2>1
    <2>4. QED
      BY <1>0, <1>3, <2>1, <2>2, <2>3
  <1>6. CASE pull_message
    <2>1. /\ message_queue # <<>> /\ message_queue' = Tail(message_queue)
          /\ taken' = taken \o <<Head(message_queue).batch>>
          /\ collected' = collected /\ processed' = processed
      BY <1>6 DEF pull_message, pop, deliver
    <2>2. Len(taken') = Len(taken) + 1
      BY <1>0, <1>4, <2>1
    <2>3. QED
      BY <1>0, <1>3, <1>4, <2>1, <2>2
  <1>7. CASE collect
    <2>1. /\ message_queue # <<>> /\ message_queue' = Tail(message_queue)
          /\ collected' = Append(collected, Head(message_queue))
          /\ taken' = taken /\ processed' = processed
      BY <1>7 DEF collect, pop
    <2>2. Len(collected') = Len(collected) + 1
      BY <1>0, <1>4, <2>1
    <2>3. QED
      BY <1>0, <1>3, <1>4, <2>1, <2>2
  <1>8. CASE release_all
    <2>1. /\ taken' = taken \o BatchesOf(collected) /\ collected' = <<>>
          /\ message_queue' = message_queue /\ processed' = processed
      BY <1>8 DEF release_all, deliver
    <2>2. /\ BatchesOf(collected) \in Seq(Batches)
          /\ Len(BatchesOf(collected)) = Len(collected)
      BY <1>0, BatchesOfEach
    <2>3. Len(taken') = Len(taken) + Len(collected)
      <3>1. Len(taken \o BatchesOf(collected))
              = Len(taken) + Len(BatchesOf(collected))
        BY <1>0, <2>2, ConcatProperties
      <3>2. QED
        BY <2>1, <2>2, <3>1
    <2>4. Len(collected') = 0
      BY <2>1
    <2>5. QED
      BY <1>0, <1>3, <2>1, <2>3, <2>4
  <1>9. CASE Downgrade
    <2>1. UNCHANGED <<taken, collected, processed>>
      BY <1>9 DEF Downgrade, downgrade_begin, downgrade_to_host,
             downgrade_to_disk, downgrade_throws, downgrade_end
    <2>2. Len(message_queue') = Len(message_queue)
      <3>1. CASE downgrade_throws
        <4>1. Range(BatchesOf(message_queue)) = {} /\ message_queue' = <<>>
          BY <1>2, <3>1 DEF downgrade_throws, NoLoss
        <4>2. DOMAIN BatchesOf(message_queue) = {}
          BY <4>1 DEF Range
        <4>3. Len(message_queue) = 0
          BY <1>0, <4>2, BatchesOfEach
        <4>4. QED
          BY <4>1, <4>3
      <3>2. CASE downgrade_to_host
        <4>1. PICK i \in DOMAIN message_queue :
                  message_queue' = [message_queue EXCEPT ![i].tier = "CPU"]
          BY <3>2 DEF downgrade_to_host
        <4>2. i \in 1 .. Len(message_queue)
          BY <1>0, LenProperties
        <4>3. QED
          BY <1>0, <4>1, <4>2, MoveType
      <3>3. CASE ~downgrade_throws /\ ~downgrade_to_host
        <4>1. message_queue' = message_queue
          BY <1>9, <3>3 DEF Downgrade, downgrade_begin, downgrade_to_disk,
                            downgrade_end
        <4>2. QED
          BY <4>1
      <3>4. QED
        BY <3>1, <3>2, <3>3
    <2>3. QED
      BY <1>0, <1>3, <2>1, <2>2
  <1>10. CASE /\ ~\E p \in Producers : add_put(p)
              /\ ~pull_message /\ ~collect /\ ~release_all /\ ~Downgrade
    <2>1. UNCHANGED <<taken, collected, processed, message_queue>>
      BY <1>2, <1>10 DEF KernelInv, vars, Next, Produce, add, add_to_disk,
           add_nowhere, add_mark, add_throws, write_orc_throws, write_orc,
           write_orc_fails, finish, finish_aborted, Consume, wait_for_next,
           pull_null, pop_null, pullUnorderedFromCache, wait_to_concat, has_next_now,
           collect_null, size_check, release_null, release_some, put_back
    <2>2. QED
      BY <1>3, <2>1
  <1>11. QED
    BY <1>5, <1>6, <1>7, <1>8, <1>9, <1>10

\* The invariant behind the end of the cache.
EndInv ==
    /\ FifoInv /\ ConservedInv
    /\ RowsInv /\ SkippedInv /\ SeenInv /\ ProcessedInv

\* A consumer that has come to the end of a cache from which nothing was lost,
\* and whose producing kernel did not abort (graph.cpp:66-75), got every batch
\* that has rows and all the rows that num_rows_added counts, those that a
\* retried add counted again apart, and `processed` is the number of batches
\* that a kernel got: for any number of producers, batches and rows, and for
\* every kind of cache and consumer.
THEOREM TheEndMeansEverything == Spec => []EndMeansEverything
  <1>1. Init => EndInv
    <2> SUFFICES ASSUME Init PROVE EndInv
      OBVIOUS
    <2>1. /\ setting \in Settings /\ message_queue = <<>> /\ collected = <<>>
          /\ taken = <<>> /\ skipped = {} /\ num_rows_added = 0
          /\ recounted = <<>> /\ processed = 0
          /\ add_pc = [p \in Producers |-> "ready"]
      BY DEF Init
    <2>2. Rows \in [Batches -> Nat]
      BY <2>1, SettingTypes
    <2>3. BatchesOf(<<>>) = <<>> /\ ToSet(<<>>) = {} /\ IsInjective(<<>>)
      BY DEF BatchesOf, ToSet, IsInjective
    <2>4. Total(Rows, <<>>) = 0
      BY <2>2, TotalEmpty
    <2>5. RowsPut = 0
      BY <2>1, <2>3, <2>4 DEF RowsPut
    <2>6. Counted = {}
      BY <2>1 DEF Counted
    <2>7. <<>> \in Seq(Batches) /\ RowsOnce = RowsPut + Total(Rows, <<>>)
      BY <2>1, <2>4, <2>5 DEF RowsOnce
    <2>8. RowsInv
      BY <2>3, <2>6, <2>7 DEF RowsInv
    <2>9. SkippedInv /\ SeenInv
      BY <2>1, <2>3 DEF SkippedInv, SeenInv
    <2>10. ProcessedInv
      BY <2>1 DEF ProcessedInv
    <2>11. QED
      BY <2>8, <2>9, <2>10, FifoInit, ConservedInit DEF EndInv
  <1>2. EndInv /\ [Next]_vars => EndInv'
    <2> SUFFICES ASSUME EndInv, [Next]_vars PROVE EndInv'
      OBVIOUS
    <2>1. FifoInv' /\ ConservedInv'
      BY FifoStep, ConservedStep DEF EndInv
    <2>2. FlowInv /\ TodoInv /\ KernelInv
      BY DEF EndInv, ConservedInv, FifoInv
    <2>3. RowsInv' /\ SkippedInv' /\ SeenInv' /\ ProcessedInv'
      BY <2>2, RowsStep, SkippedStep, SeenStep, ProcessedStep DEF EndInv
    <2>4. QED
      BY <2>1, <2>3 DEF EndInv
  <1>3. EndInv => EndMeansEverything
    <2> SUFFICES ASSUME EndInv, pull_pc = "ended", NoLoss
                 PROVE  /\ EveryBatchArrived
                        /\ num_rows_added = DeliveredRows
                                            + Total(Rows, recounted)
                        /\ ProcessedIsTaken
      BY DEF EndMeansEverything
    <2>1. FlowInv /\ TodoInv /\ PlaceInv
      BY DEF EndInv, ConservedInv
    <2>2. /\ collected = <<>> /\ message_queue = <<>> /\ AllAdded
      BY <2>1 DEF FlowInv, ConsumerInv, ProducersInv, NoLoss
    <2>3. /\ setting \in Settings /\ taken \in Seq(Batches)
          /\ recounted \in Seq(Batches) /\ num_rows_added \in Nat
      BY <2>1 DEF FlowInv, TypeInv, TypeOK
    <2>4. Rows \in [Batches -> Nat]
      BY <2>3, SettingTypes
    <2>5. BatchesOf(<<>>) = <<>> /\ ToSet(<<>>) = {} /\ Len(<<>>) = 0
      BY DEF BatchesOf, ToSet
    <2>6. num_rows_added = DeliveredRows + Total(Rows, recounted)
      <3>1. Counted = {}
        BY <2>2 DEF Counted, AllAdded
      <3>2. PICK s \in Seq(Batches) :
                ToSet(s) = {} /\ RowsOnce = RowsPut + Total(Rows, s)
        BY <3>1 DEF EndInv, RowsInv
      <3>3. s = <<>>
        <4>1. DOMAIN s = {}
          BY <3>2 DEF ToSet
        <4>2. Len(s) = 0
          BY <4>1, LenProperties
        <4>3. QED
          BY <4>2, EmptySeq
      <3>4. /\ Total(Rows, <<>>) = 0 /\ Total(Rows, taken) \in Nat
            /\ Total(Rows, recounted) \in Nat
        BY <2>3, <2>4, TotalEmpty, TotalConcat
      <3>5. RowsPut = Total(Rows, taken) + 0 + 0
        BY <2>2, <2>5, <3>4 DEF RowsPut
      <3>6. num_rows_added - Total(Rows, recounted) = RowsPut + 0
        BY <3>2, <3>3, <3>4 DEF RowsOnce
      <3>7. QED
        BY <2>3, <3>4, <3>5, <3>6 DEF DeliveredRows
    <2>7. ProcessedIsTaken
      <3>1. Len(taken) \in Nat
        BY <2>3, LenProperties
      <3>2. QED
        BY <2>2, <2>5, <3>1 DEF EndInv, ProcessedInv, ProcessedIsTaken
    <2>8. EveryBatchArrived
      <3> SUFFICES ASSUME NEW p \in Producers, NEW b \in Range(Input[p]),
                          Rows[b] > 0
                   PROVE  \E g \in Range(delivered) : b \in Range(g)
        BY DEF EveryBatchArrived
      <3>1. b \in AllInput
        BY DEF AllInput, ToSet, Range
      <3>2. Waiting = {}
        <4>1. \A r \in Producers : Rest(r) = <<>>
          BY <2>2 DEF AllAdded, Rest
        <4>2. QED
          BY <2>5, <4>1 DEF Waiting
      <3>3. Partition(Waiting, {}, {}, ToSet(taken), skipped, lost, AllInput)
        BY <2>1, <2>2, <2>5 DEF PlaceInv
      <3>4. b \in ToSet(taken) \cup skipped
        BY <3>1, <3>2, <3>3 DEF Partition, NoLoss
      <3>5. b \notin skipped
        BY DEF EndInv, SkippedInv
      <3>6. QED
        BY <3>4, <3>5 DEF EndInv, SeenInv
    <2>9. QED
      BY <2>6, <2>7, <2>8
  <1>4. QED
    BY <1>1, <1>2, <1>3, PTL DEF Spec
=============================================================================
