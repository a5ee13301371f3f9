------------------------ MODULE MessageTransportProofs ------------------------
(***************************************************************************)
(* Machine-checked proofs about MessageTransport, for every set of nodes   *)
(* and messages, every number of destinations and as many buffers as a     *)
(* frame id can number, any size of the pools and of a connection's        *)
(* buffer, and any number of failures.                                     *)
(*                                                                         *)
(* SendInv counts what a sending task has asked for and not yet heard of.  *)
(* TcpOf says that the bytes in a connection go on where its reader        *)
(* stands.  UcxOf says that the frames of a message that were received are *)
(* the ones confirmed and the ones being confirmed, which is why the last  *)
(* thread to confirm finds the table whole and its receiver registered.    *)
(***************************************************************************)
EXTENDS MessageTransport, QueueTheorems, FiniteSetTheorems

D(m) == Len(Destinations[m])
N(m) == NumBuffers[m]
Frame(c, k) == <<c[1], c[2], k>>

-----------------------------------------------------------------------------
(* Types. *)

TaskRecords ==
    [pc : {"waiting", "connect", "begin", "started", "frames", "done",
           "failed"},
     dest : Nat, frame : Nat]
SocketRecords == [state : {"none", "open", "closed"}, data : Seq(Nat)]
ReaderRecords ==
    [pc : {"none", "queued", "begin", "frames", "spin", "done", "closed"},
     next : Nat]
Tables == UNION {[Frames(m) -> 0 .. N(m)] : m \in Messages}

\* The variables of the sending tasks.
SenderTypes ==
    /\ traffic \in Traffic
    /\ task \in [Messages -> TaskRecords]
    /\ begun \in [Messages -> Nat]
    /\ transmitted \in [Messages -> Nat]
    /\ sends \subseteq Requests
    /\ IsFiniteSet(sends)

\* The connections.
SocketTypes ==
    /\ socket \in [Channels -> SocketRecords]
    /\ \A c \in Channels : socket[c].data \in Seq(0 .. N(c[1]))

\* The receiving tasks, what they have received and what they delivered.
ReaderOK ==
    /\ reader \in [Channels -> ReaderRecords]
    /\ \A c \in Channels : reader[c].next \in 1 .. N(c[1]) + 1
BufferOK ==
    /\ buffers \in [Channels -> Tables]
    /\ \A c \in Channels : buffers[c] \in [Frames(c[1]) -> 0 .. N(c[1])]
DeliveredOK == delivered \in [Channels -> Seq(Tables)]
QueueOK == queue \in [Nodes -> Seq(Channels)]

ReaderTypes == ReaderOK /\ BufferOK /\ DeliveredOK /\ QueueOK

\* The variables of the UCX receiving side, and the failures.
UcxTypes ==
    /\ wire \subseteq Requests
    /\ recvs \subseteq Requests
    /\ told \subseteq {"poll", "progress"} \X Channels
    /\ confirming \subseteq {"pool", "progress"} \X Channels
                            \X {"count", "finish", "check"}
    /\ registered \subseteq Channels
    /\ counter \in [Channels -> Nat]
    /\ down \subseteq Nodes
    /\ faults \in 0 .. MaxFaults

\* A cluster uses one protocol, and nothing of the other is ever touched.
ModeInv ==
    /\ protocol = "tcp" =>
        /\ wire = {} /\ sends = {} /\ recvs = {} /\ told = {}
        /\ confirming = {} /\ registered = {}
        /\ \A c \in Channels : counter[c] = 0
    /\ protocol = "ucx" =>
        /\ \A m \in Messages : task[m].pc # "connect" /\ task[m].dest = 1
        /\ \A c \in Channels :
            /\ socket[c] = [state |-> "none", data |-> <<>>]
            /\ reader[c].pc \notin {"begin", "spin", "closed"}

-----------------------------------------------------------------------------
(* The sending tasks. *)

\* The requests of m that are under way: its metadata and its buffers.
Metadata(m) == {r \in sends : r[1] = m /\ r[3] = 0}
Pending(m) == {r \in sends : r[1] = m /\ r[3] > 0}

\* How many times the sending task has handed over a buffer.
Asked(m) == (task[m].frame - 1) * D(m) + (task[m].dest - 1)

SendOf(m) ==
    /\ task[m].dest \in 1 .. D(m)
    /\ task[m].frame \in 1 .. N(m) + 1
    /\ task[m].pc \in {"waiting", "begin", "started"} => task[m].dest = 1
    /\ task[m].pc \in {"waiting", "connect", "begin", "started"} =>
           task[m].frame = 1 /\ transmitted[m] = 0 /\ Pending(m) = {}
    /\ task[m].pc \in {"waiting", "connect", "begin"} =>
           begun[m] = 0 /\ Metadata(m) = {}
    /\ task[m].pc \in {"frames", "done"} =>
           /\ task[m].frame > N(m) => task[m].dest = 1
           /\ begun[m] >= D(m)
    /\ task[m].pc = "done" => task[m].frame > N(m) /\ Pending(m) = {}
    /\ IF task[m].pc = "failed"
       THEN begun[m] <= D(m) /\ transmitted[m] <= N(m) * D(m)
       ELSE /\ begun[m] + Cardinality(Metadata(m)) <= D(m)
            /\ task[m].pc # "connect" =>
                   transmitted[m] + Cardinality(Pending(m)) <= Asked(m)

SendInv == \A m \in Messages : SendOf(m)

-----------------------------------------------------------------------------
(* The connections and their readers. *)

\* Whose turn channel c is in the list of its message's destinations.
Turn(c) == CHOOSE i \in 1 .. D(c[1]) : Destinations[c[1]][i] = c[2]

\* The last frame the sending task wrote to c; -1 before the metadata.
Written(c) ==
    IF begun[c[1]] < Turn(c) THEN -1
    ELSE IF Turn(c) < task[c[1]].dest THEN task[c[1]].frame
                                      ELSE task[c[1]].frame - 1

\* The frame that the reader of c will take from the connection.
Wanted(c) ==
    IF reader[c].pc \in {"none", "queued", "begin"} THEN 0 ELSE reader[c].next

\* The frames in a connection are numbered from a to b.
Consecutive(s, a, b) ==
    Len(s) = b + 1 - a /\ \A i \in 1 .. Len(s) : s[i] = a + i - 1

TcpOf(c) ==
    LET m == c[1] IN
    /\ task[m].pc = "waiting" => reader[c].pc = "none"
    /\ task[m].pc = "connect" /\ Turn(c) >= task[m].dest =>
           reader[c].pc = "none"
    /\ task[m].pc \in {"started", "frames", "done"} => begun[m] >= D(m)
    /\ socket[c].state = "closed" => task[m].pc \in {"done", "failed"}
    /\ reader[c].pc \in {"none", "queued", "begin"} => reader[c].next = 1
    /\ reader[c].pc = "spin" => task[m].pc = "failed"
    /\ reader[c].pc \notin {"spin", "closed"} =>
           Consecutive(socket[c].data, Wanted(c), Written(c))
    /\ \A k \in Frames(m) : k < reader[c].next => buffers[c][k] = k

TcpInv == protocol = "tcp" => \A c \in Channels : TcpOf(c)

\* What is in a pool's queue waits there, once.
QueueInv ==
    \A n \in Nodes :
        /\ IsInjective(queue[n])
        /\ \A c \in ToSet(queue[n]) : c[2] = n /\ reader[c].pc = "queued"

WholeInv ==
    \A c \in Channels : delivered[c] \in {<<>>, <<Whole(c[1])>>}

-----------------------------------------------------------------------------
(* The frames of a UCX message. *)

\* The buffers that were received, and the threads that have yet to count
\* one.
Filled(c) == {k \in Frames(c[1]) : buffers[c][k] # 0}
At(thread, c, stage) == <<thread, c, stage>> \in confirming
Counting(c) ==
    (IF At("pool", c, "count") THEN 1 ELSE 0)
    + (IF At("progress", c, "count") THEN 1 ELSE 0)
Somebody(c, stage) == At("pool", c, stage) \/ At("progress", c, stage)

\* Until the metadata are read the receiving task has done nothing.
UcxStart(c) ==
    /\ Frame(c, 0) \in wire => reader[c].pc = "none"
    /\ task[c[1]].pc \in {"waiting", "begin"} =>
           reader[c].pc = "none" /\ Frame(c, 0) \notin wire
    /\ reader[c].pc \in {"none", "queued"} =>
           reader[c].next = 1 /\ delivered[c] = <<>>

\* A frame whose receive was posted is received or its receive is pending.
UcxFrame(c, k) ==
    /\ Frame(c, k) \in recvs => k < reader[c].next /\ buffers[c][k] = 0
    /\ k < reader[c].next => Frame(c, k) \in recvs \/ buffers[c][k] = k
    /\ k >= reader[c].next => buffers[c][k] = 0
UcxFrames(c) == \A k \in Frames(c[1]) : UcxFrame(c, k)

\* _buffer_counter counts the received frames but those being confirmed.
UcxCount(c) ==
    /\ Cardinality(Filled(c)) = counter[c] + Counting(c)
    /\ Somebody(c, "finish") => counter[c] = N(c[1]) /\ N(c[1]) > 0
    /\ delivered[c] # <<>> => counter[c] = N(c[1])
    /\ counter[c] = N(c[1]) /\ N(c[1]) > 0 /\ delivered[c] = <<>> =>
           Somebody(c, "finish")

\* The receiver is registered from its start until it is finished.
UcxKept(c) ==
    /\ reader[c].pc = "done" => reader[c].next = N(c[1]) + 1
    /\ c \in registered => reader[c].pc \in {"frames", "done"}
    /\ reader[c].pc \in {"frames", "done"} /\ delivered[c] = <<>> =>
           c \in registered
    /\ c \in registered /\ delivered[c] # <<>> => Somebody(c, "check")
    /\ N(c[1]) = 0 /\ reader[c].pc = "done" => c \notin registered

UcxOf(c) == UcxStart(c) /\ UcxFrames(c) /\ UcxCount(c) /\ UcxKept(c)

UcxInv == protocol = "ucx" => \A c \in Channels : UcxOf(c)

-----------------------------------------------------------------------------
(* Messages, destinations, channels and requests. *)

\* What the constants give for a message.
LEMMA MessageFacts ==
    ASSUME NEW m \in Messages
    PROVE  /\ D(m) \in Nat \ {0}
           /\ N(m) \in Nat
           /\ Frames(m) = 1 .. N(m)
           /\ DOMAIN Destinations[m] = 1 .. D(m)
           /\ \A i \in 1 .. D(m) : Destinations[m][i] \in Nodes
           /\ \A i, j \in 1 .. D(m) :
                  Destinations[m][i] = Destinations[m][j] => i = j
           /\ Origin[m] \in Nodes
  <1>1. /\ Destinations[m] \in Seq(Nodes)
        /\ Destinations[m] # <<>>
        /\ IsInjective(Destinations[m])
        /\ NumBuffers[m] \in Nat
        /\ Origin[m] \in Nodes
    <2>1. NumBuffers[m] \in 0 .. MaxFrameId
      BY TransportAssumption
    <2>2. NumBuffers[m] \in Nat
      BY <2>1
    <2>3. QED
      BY <2>2, TransportAssumption
  <1>2. /\ D(m) \in Nat \ {0}
        /\ DOMAIN Destinations[m] = 1 .. D(m)
        /\ \A i \in 1 .. D(m) : Destinations[m][i] \in Nodes
    BY <1>1 DEF D
  <1>3. QED
    BY <1>1, <1>2 DEF IsInjective, N, Frames

\* A channel is a message and one of its destinations.
LEMMA ChannelFacts ==
    ASSUME NEW c \in Channels
    PROVE  /\ c[1] \in Messages /\ c[2] \in Nodes /\ c = <<c[1], c[2]>>
           /\ Turn(c) \in 1 .. D(c[1])
           /\ Destinations[c[1]][Turn(c)] = c[2]
  <1>1. c \in Messages \X Nodes /\ c[2] \in Range(Destinations[c[1]])
    BY DEF Channels
  <1>2. c[1] \in Messages /\ c[2] \in Nodes /\ c = <<c[1], c[2]>>
    BY <1>1
  <1>3. \E i \in 1 .. D(c[1]) : Destinations[c[1]][i] = c[2]
    <2>1. DOMAIN Destinations[c[1]] = 1 .. D(c[1])
      BY <1>2, MessageFacts
    <2>2. QED
      BY <1>1, <2>1 DEF Range
  <1>4. QED
    BY <1>2, <1>3 DEF Turn

\* The channel to the i-th destination.
LEMMA TurnFacts ==
    ASSUME NEW m \in Messages, NEW i \in 1 .. D(m)
    PROVE  /\ <<m, Destinations[m][i]>> \in Channels
           /\ Turn(<<m, Destinations[m][i]>>) = i
           /\ \A c \in Channels : c[1] = m /\ Turn(c) = i =>
                  c = <<m, Destinations[m][i]>>
  <1> DEFINE c == <<m, Destinations[m][i]>>
  <1>1. c \in Channels
    <2>1. Destinations[m][i] \in Nodes /\ i \in DOMAIN Destinations[m]
      BY MessageFacts
    <2>2. Destinations[m][i] \in Range(Destinations[m])
      BY <2>1 DEF Range
    <2>3. QED
      BY <2>1, <2>2 DEF Channels
  <1>2. Turn(c) = i
    <2>1. /\ Turn(c) \in 1 .. D(m)
          /\ Destinations[m][Turn(c)] = Destinations[m][i]
      BY <1>1, ChannelFacts
    <2>2. QED
      BY <2>1, MessageFacts
  <1>3. ASSUME NEW e \in Channels, e[1] = m, Turn(e) = i PROVE e = c
    BY <1>3, ChannelFacts
  <1>4. QED
    BY <1>1, <1>2, <1>3

\* A request is a frame of a channel.
LEMMA RequestFacts ==
    ASSUME NEW r \in Requests
    PROVE  /\ Chan(r) \in Channels
           /\ r[1] \in Messages /\ r[2] \in Nodes
           /\ r[3] \in 0 .. N(r[1])
           /\ r = Frame(Chan(r), r[3])
           /\ Chan(r)[1] = r[1] /\ Chan(r)[2] = r[2]
  <1>1. PICK c \in Channels :
            r \in {<<c[1], c[2], k>> : k \in 0 .. NumBuffers[c[1]]}
    BY DEF Requests
  <1>2. PICK k \in 0 .. NumBuffers[c[1]] : r = <<c[1], c[2], k>>
    BY <1>1
  <1>3. r[1] = c[1] /\ r[2] = c[2] /\ r[3] = k
    BY <1>2
  <1>4. Chan(r) = c
    BY <1>3, ChannelFacts DEF Chan
  <1>5. QED
    BY <1>2, <1>3, <1>4, ChannelFacts DEF N, Frame

\* A frame of a channel is a request.
LEMMA FrameFacts ==
    ASSUME NEW c \in Channels, NEW k \in 0 .. N(c[1])
    PROVE  /\ Frame(c, k) \in Requests
           /\ Frame(c, k)[1] = c[1]
           /\ Frame(c, k)[2] = c[2]
           /\ Frame(c, k)[3] = k
           /\ Chan(Frame(c, k)) = c
  <1>1. Frame(c, k) \in {<<c[1], c[2], j>> : j \in 0 .. NumBuffers[c[1]]}
    BY DEF Frame, N
  <1>2. Frame(c, k) \in Requests
    BY <1>1 DEF Requests
  <1>3. QED
    BY <1>2, ChannelFacts DEF Frame, Chan

\* The protocol never changes, and there are two.
LEMMA Protocols ==
    ASSUME traffic \in Traffic
    PROVE  protocol \in {"tcp", "ucx"} /\ traffic.messages \subseteq Messages
  BY TransportAssumption DEF protocol

-----------------------------------------------------------------------------
(* What a sending task has asked for. *)

\* Products of the numbers of frames and destinations.
LEMMA Products ==
    ASSUME NEW a \in Nat, NEW b \in Nat, NEW d \in Nat, a <= b
    PROVE  /\ a * d \in Nat
           /\ a * d <= b * d
           /\ (a + 1) * d = a * d + d
  <1>1. PICK e \in Nat : b = a + e
    <2>1. b - a \in Nat /\ b = a + (b - a)
      OBVIOUS
    <2>2. QED
      BY <2>1
  <1>2. b * d = a * d + e * d /\ a * d \in Nat /\ e * d \in Nat
    BY <1>1
  <1>3. QED
    BY <1>2

\* A task that stands at buffer f and destination d has handed over a
\* number of buffers between 0 and all of them.
LEMMA AskedFacts ==
    ASSUME NEW m \in Messages, task[m].dest \in 1 .. D(m),
           task[m].frame \in 1 .. N(m) + 1
    PROVE  /\ Asked(m) \in Nat
           /\ N(m) * D(m) \in Nat
           /\ task[m].frame = 1 => Asked(m) = task[m].dest - 1
           /\ task[m].frame <= N(m) => Asked(m) < N(m) * D(m)
           /\ task[m].frame > N(m) /\ task[m].dest = 1 =>
                  Asked(m) = N(m) * D(m)
  <1> DEFINE f == task[m].frame - 1
             a == f * D(m)
             b == (f + 1) * D(m)
             z == N(m) * D(m)
  <1>1. D(m) \in Nat \ {0} /\ N(m) \in Nat /\ f \in Nat /\ f <= N(m)
    BY MessageFacts
  <1>2. a \in Nat /\ a <= z /\ b = a + D(m) /\ z \in Nat
    <2>1. a \in Nat /\ a <= z /\ b = a + D(m)
      BY <1>1, Products
    <2>2. z \in Nat
      BY <1>1, Products
    <2>3. QED
      BY <2>1, <2>2
  <1>3. Asked(m) = a + (task[m].dest - 1)
    BY DEF Asked
  <1>4. f = 0 => a = 0
    BY <1>1
  <1>5. f + 1 <= N(m) => b <= z
    BY <1>1, Products
  <1>6. f = N(m) => a = z
    OBVIOUS
  <1>7. /\ task[m].frame = 1 => f = 0
        /\ task[m].frame <= N(m) => f + 1 <= N(m)
        /\ task[m].frame > N(m) => f = N(m)
    BY <1>1
  <1> HIDE DEF f, a, b, z
  <1>8. Asked(m) \in Nat
    BY <1>1, <1>2, <1>3
  <1>9. task[m].frame = 1 => Asked(m) = task[m].dest - 1
    BY <1>3, <1>4, <1>7
  <1>10. task[m].frame <= N(m) => Asked(m) < z
    BY <1>1, <1>2, <1>3, <1>5, <1>7
  <1>11. task[m].frame > N(m) /\ task[m].dest = 1 => Asked(m) = z
    BY <1>1, <1>2, <1>3, <1>6, <1>7
  <1>12. QED
    BY <1>2, <1>8, <1>9, <1>10, <1>11 DEF z

\* The requests of a message are finitely many.
LEMMA PendingFinite ==
    ASSUME IsFiniteSet(sends), NEW m
    PROVE  /\ IsFiniteSet(Metadata(m)) /\ IsFiniteSet(Pending(m))
           /\ Cardinality(Metadata(m)) \in Nat
           /\ Cardinality(Pending(m)) \in Nat
           /\ Cardinality(Metadata(m)) = 0 <=> Metadata(m) = {}
           /\ Cardinality(Pending(m)) = 0 <=> Pending(m) = {}
  <1>1. Metadata(m) \in SUBSET sends /\ Pending(m) \in SUBSET sends
    BY DEF Metadata, Pending
  <1>2. IsFiniteSet(Metadata(m)) /\ IsFiniteSet(Pending(m))
    BY <1>1, FS_Subset
  <1>3. QED
    BY <1>2, FS_EmptySet, FS_CardinalityType

\* Nothing happens to the sending task of x.
LEMMA SendSame ==
    ASSUME NEW x, SendOf(x), task'[x] = task[x], begun'[x] = begun[x],
           transmitted'[x] = transmitted[x],
           \A r : r[1] = x => (r \in sends' <=> r \in sends)
    PROVE  SendOf(x)'
  <1>1. Metadata(x)' = Metadata(x) /\ Pending(x)' = Pending(x)
    BY DEF Metadata, Pending
  <1>2. Asked(x)' = Asked(x)
    BY DEF Asked
  <1>3. QED
    BY <1>1, <1>2 DEF SendOf

\* Nothing happens to any sending task.
LEMMA SenderFrame ==
    ASSUME SenderTypes, SendInv,
           UNCHANGED <<traffic, task, begun, transmitted, sends>>
    PROVE  SenderTypes' /\ SendInv'
  <1>1. SenderTypes'
    BY DEF SenderTypes
  <1>2. SendInv'
    BY SendSame DEF SendInv
  <1>3. QED
    BY <1>1, <1>2

\* A step of the sending task of m leaves the others alone.
LEMMA SendStep ==
    ASSUME SendInv, NEW m \in Messages,
           \A x \in Messages \ {m} : /\ task'[x] = task[x]
                                     /\ begun'[x] = begun[x]
                                     /\ transmitted'[x] = transmitted[x],
           \A r : r[1] # m => (r \in sends' <=> r \in sends),
           SendOf(m)'
    PROVE  SendInv'
  BY SendSame DEF SendInv

\* StartSend and WaitForBeginTransmission only move the task.
LEMMA SendPc ==
    ASSUME SenderTypes, SendInv, NEW m \in Messages, NEW to,
           \/ task[m].pc = "waiting" /\ to \in {"connect", "begin"}
           \/ task[m].pc = "started" /\ to = "frames" /\ begun[m] >= D(m),
           task' = [task EXCEPT ![m].pc = to],
           UNCHANGED <<traffic, begun, transmitted, sends>>
    PROVE  SenderTypes' /\ SendInv'
  <1>1. SenderTypes'
    BY DEF SenderTypes, TaskRecords
  <1>2. /\ task'[m].pc = to
        /\ task'[m].dest = task[m].dest
        /\ task'[m].frame = task[m].frame
        /\ \A x \in Messages \ {m} : task'[x] = task[x]
    BY DEF SenderTypes, TaskRecords
  <1>3. Metadata(m)' = Metadata(m) /\ Pending(m)' = Pending(m)
    BY DEF Metadata, Pending
  <1>4. SendOf(m)
    BY DEF SendInv
  <1>5. /\ task[m].dest \in 1 .. D(m) /\ task[m].frame \in 1 .. N(m) + 1
        /\ task'[m].dest \in 1 .. D(m) /\ task'[m].frame \in 1 .. N(m) + 1
    BY <1>2, <1>4 DEF SendOf
  <1>6. /\ D(m) \in Nat \ {0} /\ N(m) \in Nat
        /\ Cardinality(Metadata(m)) \in Nat /\ Cardinality(Pending(m)) \in Nat
        /\ begun[m] \in Nat /\ transmitted[m] \in Nat
        /\ N(m) * D(m) \in Nat /\ Asked(m) \in Nat
    BY <1>5, MessageFacts, PendingFinite, AskedFacts DEF SenderTypes
  <1>7. Asked(m)' = Asked(m)
    BY <1>2 DEF Asked
  <1>8. SendOf(m)'
    <2>1. CASE task[m].pc = "waiting" /\ to \in {"connect", "begin"}
      BY <1>2, <1>3, <1>4, <1>6, <1>7, <2>1 DEF SendOf
    <2>2. CASE task[m].pc = "started" /\ to = "frames" /\ begun[m] >= D(m)
      BY <1>2, <1>3, <1>4, <1>6, <1>7, <2>2 DEF SendOf
    <2>3. QED
      BY <2>1, <2>2
  <1>9. SendInv'
    BY <1>2, <1>8, SendStep
  <1>10. QED
    BY <1>1, <1>9

\* What the invariant says about the numbers of a message's task.
LEMMA SendNumbers ==
    ASSUME SenderTypes, NEW m \in Messages, SendOf(m)
    PROVE  /\ D(m) \in Nat \ {0} /\ N(m) \in Nat
           /\ Cardinality(Metadata(m)) \in Nat
           /\ Cardinality(Pending(m)) \in Nat
           /\ begun[m] \in Nat /\ transmitted[m] \in Nat
           /\ N(m) * D(m) \in Nat /\ Asked(m) \in Nat
  <1>1. task[m].dest \in 1 .. D(m) /\ task[m].frame \in 1 .. N(m) + 1
    BY DEF SendOf
  <1>2. QED
    BY <1>1, MessageFacts, PendingFinite, AskedFacts DEF SenderTypes

\* A task has heard of no more than there was to send.
LEMMA SendBounds ==
    ASSUME SenderTypes, NEW m \in Messages, SendOf(m)
    PROVE  begun[m] <= D(m) /\ transmitted[m] <= N(m) * D(m)
  <1>1. CASE task[m].pc = "failed"
    BY <1>1 DEF SendOf
  <1>2. SUFFICES ASSUME task[m].pc # "failed"
                 PROVE  begun[m] <= D(m) /\ transmitted[m] <= N(m) * D(m)
    BY <1>1
  <1>3. task[m].dest \in 1 .. D(m) /\ task[m].frame \in 1 .. N(m) + 1
    BY DEF SendOf
  <1>4. begun[m] <= D(m)
    <2>1. begun[m] + Cardinality(Metadata(m)) <= D(m)
      BY <1>2 DEF SendOf
    <2>2. QED
      BY <2>1, SendNumbers
  <1>5. transmitted[m] <= N(m) * D(m)
    <2>1. Asked(m) <= N(m) * D(m) \/ transmitted[m] = 0
      <3>1. CASE task[m].pc \in {"frames", "done"}
        <4>1. task[m].frame > N(m) => task[m].dest = 1
          BY <3>1 DEF SendOf
        <4>2. task[m].frame <= N(m) \/ task[m].frame > N(m)
          BY <1>3, MessageFacts
        <4>3. Asked(m) \in Nat /\ N(m) * D(m) \in Nat
          BY <1>3, AskedFacts
        <4>4. /\ task[m].frame <= N(m) => Asked(m) < N(m) * D(m)
              /\ task[m].frame > N(m) /\ task[m].dest = 1 =>
                     Asked(m) = N(m) * D(m)
          BY <1>3, AskedFacts
        <4>5. QED
          BY <4>1, <4>2, <4>3, <4>4
      <3>2. CASE task[m].pc \in {"waiting", "connect", "begin", "started"}
        BY <3>2 DEF SendOf
      <3>3. QED
        BY <1>2, <3>1, <3>2 DEF SenderTypes, TaskRecords
    <2>2. task[m].pc # "connect" =>
              transmitted[m] + Cardinality(Pending(m)) <= Asked(m)
      BY <1>2 DEF SendOf
    <2>3. task[m].pc = "connect" => transmitted[m] = 0
      BY DEF SendOf
    <2>4. QED
      BY <2>1, <2>2, <2>3, SendNumbers
  <1>6. QED
    BY <1>4, <1>5

\* A task ends with an exception.
LEMMA SendFails ==
    ASSUME SenderTypes, SendInv, NEW m \in Messages,
           task[m].pc # "failed",
           task' = [task EXCEPT ![m].pc = "failed"],
           UNCHANGED transmitted,
           begun' = begun \/ \E j \in 0 .. D(m) - 1 :
                                begun' = [begun EXCEPT ![m] = j],
           \A r : r[1] # m => (r \in sends' <=> r \in sends)
    PROVE  /\ task' \in [Messages -> TaskRecords]
           /\ begun' \in [Messages -> Nat]
           /\ SendInv'
  <1>1. /\ task'[m].pc = "failed"
        /\ task'[m].dest = task[m].dest
        /\ task'[m].frame = task[m].frame
        /\ \A x \in Messages \ {m} : task'[x] = task[x]
        /\ task' \in [Messages -> TaskRecords]
    BY DEF SenderTypes, TaskRecords
  <1>2. SendOf(m)
    BY DEF SendInv
  <1>3. task[m].dest \in 1 .. D(m) /\ task[m].frame \in 1 .. N(m) + 1
    BY <1>2 DEF SendOf
  <1>4. begun[m] <= D(m) /\ transmitted[m] <= N(m) * D(m)
    BY <1>2, SendBounds
  <1>5. /\ begun' \in [Messages -> Nat] /\ begun'[m] <= D(m)
        /\ \A x \in Messages \ {m} : begun'[x] = begun[x]
    <2>1. CASE begun' = begun
      BY <1>4, <2>1 DEF SenderTypes
    <2>2. CASE \E j \in 0 .. D(m) - 1 : begun' = [begun EXCEPT ![m] = j]
      BY <2>2, MessageFacts DEF SenderTypes
    <2>3. QED
      BY <2>1, <2>2
  <1>6. SendOf(m)'
    BY <1>1, <1>3, <1>4, <1>5 DEF SendOf
  <1>7. QED
    BY <1>1, <1>5, <1>6, SendStep

\* wait_until_complete returns when every request has been heard of.
LEMMA SendCompletes ==
    ASSUME SenderTypes, SendInv, NEW m \in Messages,
           WaitUntilComplete(m)
    PROVE  SenderTypes' /\ SendInv'
  <1>1. /\ task[m].pc = "frames" /\ task[m].frame > N(m)
        /\ transmitted[m] >= N(m) * D(m)
        /\ task' = [task EXCEPT ![m].pc = "done"]
        /\ UNCHANGED <<traffic, begun, transmitted, sends>>
    BY DEF WaitUntilComplete, AllTransmitted, N, D, ucxVars
  <1>2. /\ task'[m].pc = "done"
        /\ task'[m].dest = task[m].dest
        /\ task'[m].frame = task[m].frame
        /\ \A x \in Messages \ {m} : task'[x] = task[x]
    BY <1>1 DEF SenderTypes, TaskRecords
  <1>3. SenderTypes'
    BY <1>1 DEF SenderTypes, TaskRecords
  <1>4. SendOf(m)
    BY DEF SendInv
  <1>5. /\ task[m].dest = 1 /\ task[m].frame \in 1 .. N(m) + 1
        /\ 1 \in 1 .. D(m) /\ begun[m] >= D(m)
        /\ begun[m] + Cardinality(Metadata(m)) <= D(m)
        /\ transmitted[m] + Cardinality(Pending(m)) <= Asked(m)
    BY <1>1, <1>4 DEF SendOf
  <1>6. Asked(m) = N(m) * D(m)
    BY <1>1, <1>5, AskedFacts
  <1>7. Cardinality(Pending(m)) = 0
    BY <1>1, <1>4, <1>5, <1>6, SendNumbers
  <1>8. Pending(m) = {}
    BY <1>7, PendingFinite DEF SenderTypes
  <1>9. Pending(m)' = Pending(m) /\ Metadata(m)' = Metadata(m)
    BY <1>1 DEF Pending, Metadata
  <1>10. Asked(m)' = Asked(m)
    BY <1>2 DEF Asked
  <1>11. SendOf(m)'
    BY <1>1, <1>2, <1>5, <1>8, <1>9, <1>10 DEF SendOf
  <1>12. SendInv'
    BY <1>1, <1>2, <1>11, SendStep
  <1>13. QED
    BY <1>3, <1>12

\* A sending task after two assignments to its record.
LEMMA TaskMoves ==
    ASSUME SenderTypes, NEW m \in Messages, NEW p \in {"begin", "connect"},
           NEW d \in Nat, NEW f \in Nat
    PROVE  /\ [task EXCEPT ![m].pc = p, ![m].dest = d]
                  \in [Messages -> TaskRecords]
           /\ [task EXCEPT ![m].dest = d, ![m].frame = f]
                  \in [Messages -> TaskRecords]
  <1>1. task \in [Messages -> TaskRecords]
    BY DEF SenderTypes
  <1>2. /\ [task[m] EXCEPT !.pc = p] \in TaskRecords
        /\ [task[m] EXCEPT !.dest = d] \in TaskRecords
    BY <1>1 DEF TaskRecords
  <1>3. /\ [[task[m] EXCEPT !.pc = p] EXCEPT !.dest = d] \in TaskRecords
        /\ [[task[m] EXCEPT !.dest = d] EXCEPT !.frame = f] \in TaskRecords
    BY <1>2 DEF TaskRecords
  <1>4. QED
    BY <1>1, <1>3

\* The constructor of tcp_buffer_transport: one more connection.
LEMMA SendConnects ==
    ASSUME SenderTypes, SendInv, NEW m \in Messages,
           task[m].pc = "connect",
           task' = [task EXCEPT
                       ![m].pc = IF LastDest(m) THEN "begin" ELSE @,
                       ![m].dest = IF LastDest(m) THEN 1 ELSE @ + 1],
           UNCHANGED <<traffic, begun, transmitted, sends>>
    PROVE  SenderTypes' /\ SendInv'
  <1>1. /\ task'[m].pc = IF LastDest(m) THEN "begin" ELSE "connect"
        /\ task'[m].dest = IF LastDest(m) THEN 1 ELSE task[m].dest + 1
        /\ task'[m].frame = task[m].frame
        /\ \A x \in Messages \ {m} : task'[x] = task[x]
    BY DEF SenderTypes, TaskRecords
  <1>2. SenderTypes'
    <2>1. task[m].dest + 1 \in Nat
      BY DEF SenderTypes, TaskRecords
    <2>2. task' \in [Messages -> TaskRecords]
      <3>1. PICK p \in {"begin", "connect"}, d \in Nat :
                /\ p = IF LastDest(m) THEN "begin" ELSE task[m].pc
                /\ d = IF LastDest(m) THEN 1 ELSE task[m].dest + 1
        BY <2>1
      <3>2. task' = [task EXCEPT ![m].pc = p, ![m].dest = d]
        BY <3>1
      <3>3. [task EXCEPT ![m].pc = p, ![m].dest = d]
                \in [Messages -> TaskRecords]
        BY ONLY SenderTypes, TaskMoves, m \in Messages, d \in Nat,
                p \in {"begin", "connect"}
      <3>4. QED
        BY <3>2, <3>3
    <2>3. QED
      BY <2>2 DEF SenderTypes
  <1>3. SendOf(m)
    BY DEF SendInv
  <1>4. /\ task[m].dest \in 1 .. D(m) /\ task[m].frame = 1
        /\ 1 \in 1 .. N(m) + 1
        /\ transmitted[m] = 0 /\ Pending(m) = {}
        /\ begun[m] = 0 /\ Metadata(m) = {}
        /\ begun[m] + Cardinality(Metadata(m)) <= D(m)
    BY <1>3 DEF SendOf
  <1>5. task'[m].dest \in 1 .. D(m)
    BY <1>1, <1>4, MessageFacts DEF LastDest, D
  <1>6. Pending(m)' = Pending(m) /\ Metadata(m)' = Metadata(m)
    BY DEF Pending, Metadata
  <1>7. task'[m].pc = "begin" =>
            (transmitted[m] + Cardinality(Pending(m)) <= Asked(m))'
    <2>1. SUFFICES ASSUME task'[m].pc = "begin"
                   PROVE  (transmitted[m] + Cardinality(Pending(m))
                               <= Asked(m))'
      OBVIOUS
    <2>2. task'[m].dest = 1 /\ task'[m].frame = 1
      BY <1>1, <1>4, <2>1
    <2>3. Asked(m)' = 0
      <3>1. Asked(m)' = 0 * D(m) + 0
        BY <2>2 DEF Asked
      <3>2. 0 * D(m) = 0
        BY MessageFacts
      <3>3. QED
        BY <3>1, <3>2
    <2>4. Cardinality(Pending(m)) = 0
      BY <1>4, FS_EmptySet
    <2>5. QED
      BY <1>4, <1>6, <2>3, <2>4
  <1>8. SendOf(m)'
    <2>1. CASE LastDest(m)
      BY <1>1, <1>4, <1>5, <1>6, <1>7, <2>1 DEF SendOf
    <2>2. CASE ~LastDest(m)
      BY <1>1, <1>4, <1>5, <1>6, <2>2 DEF SendOf
    <2>3. QED
      BY <2>1, <2>2
  <1>9. SendInv'
    BY <1>1, <1>8, SendStep
  <1>10. QED
    BY <1>2, <1>9

\* send_begin_transmission of TCP counts all the destinations at once.
LEMMA SendBeginsTcp ==
    ASSUME SenderTypes, SendInv, NEW m \in Messages, TcpSendBegin(m)
    PROVE  SenderTypes' /\ SendInv'
  <1>1. /\ task[m].pc = "begin"
        /\ begun' = [begun EXCEPT ![m] = D(m)]
        /\ task' = [task EXCEPT ![m].pc = "started"]
        /\ UNCHANGED <<traffic, transmitted, sends>>
    BY DEF TcpSendBegin, D, ucxVars
  <1>2. /\ task'[m].pc = "started"
        /\ task'[m].dest = task[m].dest
        /\ task'[m].frame = task[m].frame
        /\ begun'[m] = D(m)
        /\ \A x \in Messages \ {m} :
               task'[x] = task[x] /\ begun'[x] = begun[x]
    BY <1>1 DEF SenderTypes, TaskRecords
  <1>3. SenderTypes'
    BY <1>1, MessageFacts DEF SenderTypes, TaskRecords
  <1>4. SendOf(m)
    BY DEF SendInv
  <1>5. /\ task[m].dest = 1 /\ task[m].frame = 1
        /\ 1 \in 1 .. D(m) /\ 1 \in 1 .. N(m) + 1
        /\ transmitted[m] = 0 /\ Pending(m) = {} /\ Metadata(m) = {}
        /\ transmitted[m] + Cardinality(Pending(m)) <= Asked(m)
    BY <1>1, <1>4 DEF SendOf
  <1>6. Pending(m)' = Pending(m) /\ Metadata(m)' = Metadata(m)
    BY <1>1 DEF Pending, Metadata
  <1>7. Asked(m)' = Asked(m)
    BY <1>2 DEF Asked
  <1>8. (begun[m] + Cardinality(Metadata(m)) <= D(m))'
    BY <1>2, <1>5, <1>6, FS_EmptySet, MessageFacts
  <1>9. SendOf(m)'
    BY <1>1, <1>2, <1>5, <1>6, <1>7, <1>8 DEF SendOf
  <1>10. SendInv'
    BY <1>1, <1>2, <1>9, SendStep
  <1>11. QED
    BY <1>3, <1>10

\* A buffer was written to one more socket.
LEMMA SendAdvances ==
    ASSUME SenderTypes, SendInv, NEW m \in Messages,
           task[m].pc = "frames", task[m].frame <= N(m), Advance(m),
           UNCHANGED <<traffic, begun, sends>>
    PROVE  SenderTypes' /\ SendInv'
  <1>1. /\ task'[m].pc = "frames"
        /\ task'[m].dest = IF LastDest(m) THEN 1 ELSE task[m].dest + 1
        /\ task'[m].frame = IF LastDest(m) THEN task[m].frame + 1
                                           ELSE task[m].frame
        /\ transmitted'[m] = transmitted[m] + 1
        /\ \A x \in Messages \ {m} :
               task'[x] = task[x] /\ transmitted'[x] = transmitted[x]
    BY DEF SenderTypes, TaskRecords, Advance
  <1>2. SenderTypes'
    <2>1. /\ task[m].dest + 1 \in Nat /\ task[m].frame + 1 \in Nat
          /\ transmitted[m] + 1 \in Nat
      BY DEF SenderTypes, TaskRecords
    <2>2. task' \in [Messages -> TaskRecords]
      <3>1. PICK d \in Nat, f \in Nat :
                /\ d = IF LastDest(m) THEN 1 ELSE task[m].dest + 1
                /\ f = IF LastDest(m) THEN task[m].frame + 1
                                      ELSE task[m].frame
        BY <2>1 DEF SenderTypes, TaskRecords
      <3>2. task' = [task EXCEPT ![m].dest = d, ![m].frame = f]
        BY <3>1 DEF Advance
      <3>3. QED
        BY <3>2, TaskMoves
    <2>3. QED
      BY <2>1, <2>2 DEF SenderTypes, Advance
  <1>3. SendOf(m)
    BY DEF SendInv
  <1>4. /\ task[m].dest \in 1 .. D(m) /\ task[m].frame \in 1 .. N(m) + 1
        /\ begun[m] >= D(m)
        /\ begun[m] + Cardinality(Metadata(m)) <= D(m)
        /\ transmitted[m] + Cardinality(Pending(m)) <= Asked(m)
    BY <1>3 DEF SendOf
  <1>5. /\ task'[m].dest \in 1 .. D(m) /\ task'[m].frame \in 1 .. N(m) + 1
        /\ task'[m].frame > N(m) => task'[m].dest = 1
    BY <1>1, <1>4, MessageFacts DEF LastDest, D
  <1>6. Pending(m)' = Pending(m) /\ Metadata(m)' = Metadata(m)
    BY DEF Pending, Metadata
  <1>7. Asked(m)' = Asked(m) + 1
    <2> DEFINE f == task[m].frame - 1
               a == f * D(m)
               b == (f + 1) * D(m)
    <2>1. f \in Nat /\ D(m) \in Nat
      BY <1>4, MessageFacts
    <2>2. a \in Nat /\ b = a + D(m)
      BY <2>1, Products
    <2>3. Asked(m) = a + (task[m].dest - 1)
      BY DEF Asked
    <2>4. CASE LastDest(m)
      <3>1. task'[m].frame - 1 = f + 1 /\ task'[m].dest - 1 = 0
        BY <1>1, <1>4, <2>4, MessageFacts
      <3>2. Asked(m)' = b + 0
        BY <3>1 DEF Asked
      <3>3. task[m].dest = D(m)
        BY <2>4 DEF LastDest, D
      <3> HIDE DEF f, a, b
      <3>4. QED
        BY <2>1, <2>2, <2>3, <3>2, <3>3
    <2>5. CASE ~LastDest(m)
      <3>1. task'[m].frame - 1 = f /\ task'[m].dest - 1 = task[m].dest
        BY <1>1, <1>4, <2>5, MessageFacts
      <3>2. Asked(m)' = a + task[m].dest
        BY <3>1 DEF Asked
      <3> HIDE DEF f, a, b
      <3>3. QED
        BY <1>4, <2>1, <2>2, <2>3, <3>2
    <2>6. QED
      BY <2>4, <2>5
  <1>8. transmitted'[m] + Cardinality(Pending(m)) <= Asked(m) + 1
    BY <1>1, <1>3, <1>4, SendNumbers
  <1>9. SendOf(m)'
    BY <1>1, <1>4, <1>5, <1>6, <1>7, <1>8 DEF SendOf
  <1>10. SendInv'
    BY <1>1, <1>9, SendStep
  <1>11. QED
    BY <1>2, <1>10

\* The requests that posting frame k to the first j destinations makes.
Posted(m, k, j) == {<<m, Destinations[m][i], k>> : i \in 1 .. j}

\* They are at most j.
LEMMA PostedFacts ==
    ASSUME NEW m \in Messages, NEW k \in 0 .. N(m), NEW j \in 0 .. D(m)
    PROVE  /\ Posted(m, k, j) \subseteq Requests
           /\ \A r \in Posted(m, k, j) : r[1] = m /\ r[3] = k
           /\ IsFiniteSet(Posted(m, k, j))
           /\ Cardinality(Posted(m, k, j)) \in Nat
           /\ Cardinality(Posted(m, k, j)) <= j
  <1> DEFINE P == Posted(m, k, j)
             f == [i \in 1 .. j |-> <<m, Destinations[m][i], k>>]
  <1>1. j \in Nat /\ D(m) \in Nat /\ 1 .. j \subseteq 1 .. D(m)
    BY MessageFacts
  <1>2. P \subseteq Requests
    <2>1. ASSUME NEW i \in 1 .. j
          PROVE  <<m, Destinations[m][i], k>> \in Requests
      <3>1. <<m, Destinations[m][i]>> \in Channels
        BY <1>1, TurnFacts
      <3>2. Frame(<<m, Destinations[m][i]>>, k) \in Requests
        BY <3>1, FrameFacts
      <3>3. QED
        BY <3>2 DEF Frame
    <2>2. QED
      BY <2>1 DEF Posted
  <1>3. \A r \in P : r[1] = m /\ r[3] = k
    BY DEF Posted
  <1>4. f \in Surjection(1 .. j, P)
    BY DEF Surjection, Posted
  <1>5. IsFiniteSet(1 .. j)
    BY <1>1, FS_Interval
  <1>6. IsFiniteSet(P)
    BY <1>4, <1>5, FS_Surjection
  <1>7. Cardinality(P) <= j
    <2>1. ExistsSurjection(1 .. j, P)
      BY <1>4 DEF ExistsSurjection
    <2>2. QED
      BY <1>1, <2>1, FS_SurjCardinalityBound
  <1>8. QED
    BY <1>2, <1>3, <1>6, <1>7, FS_CardinalityType

\* What posting does to the requests under way.
LEMMA PostSends ==
    ASSUME SenderTypes, NEW m \in Messages, NEW k \in 0 .. N(m),
           NEW j \in 0 .. D(m), Post(m, k, j)
    PROVE  /\ sends' \subseteq Requests /\ IsFiniteSet(sends')
           /\ \A r : r[1] # m => (r \in sends' <=> r \in sends)
           /\ k = 0 => /\ Pending(m)' = Pending(m)
                       /\ Metadata(m) = {} =>
                              /\ Cardinality(Metadata(m))' \in Nat
                              /\ Cardinality(Metadata(m))' <= j
           /\ k > 0 => /\ Metadata(m)' = Metadata(m)
                       /\ Cardinality(Pending(m))' \in Nat
                       /\ Cardinality(Pending(m))'
                              <= Cardinality(Pending(m)) + j
  <1> DEFINE P == Posted(m, k, j)
  <1>1. sends' = sends \cup P
    BY DEF Post, Posted
  <1>2. /\ P \subseteq Requests
        /\ \A r \in P : r[1] = m /\ r[3] = k
        /\ IsFiniteSet(P) /\ Cardinality(P) \in Nat /\ Cardinality(P) <= j
    BY PostedFacts
  <1>3. sends \subseteq Requests /\ IsFiniteSet(sends)
    BY DEF SenderTypes
  <1> HIDE DEF P
  <1>4. sends' \subseteq Requests /\ IsFiniteSet(sends')
    BY <1>1, <1>2, <1>3, FS_Union
  <1>5. \A r : r[1] # m => (r \in sends' <=> r \in sends)
    BY <1>1, <1>2
  <1>6. ASSUME k = 0
        PROVE  Pending(m)' = Pending(m) /\ Metadata(m)' = Metadata(m) \cup P
    BY <1>1, <1>2, <1>6 DEF Pending, Metadata
  <1>7. ASSUME k > 0
        PROVE  Metadata(m)' = Metadata(m) /\ Pending(m)' = Pending(m) \cup P
    <2>1. k # 0
      BY <1>7
    <2>2. Metadata(m)' = Metadata(m)
      BY <1>1, <1>2, <2>1 DEF Metadata
    <2>3. Pending(m)' = Pending(m) \cup P
      BY <1>1, <1>2, <1>7 DEF Pending
    <2>4. QED
      BY <2>2, <2>3
  <1>8. ASSUME k = 0, Metadata(m) = {}
        PROVE  Cardinality(Metadata(m))' \in Nat /\ Cardinality(Metadata(m))' <= j
    <2>1. Metadata(m)' = P
      BY <1>6, <1>8
    <2>2. QED
      BY <1>2, <2>1
  <1>9. ASSUME k > 0
        PROVE  /\ Cardinality(Pending(m))' \in Nat
               /\ Cardinality(Pending(m))' <= Cardinality(Pending(m)) + j
    <2> DEFINE Q == Pending(m)
    <2>1. IsFiniteSet(Q) /\ Cardinality(Q) \in Nat
      BY <1>3, PendingFinite
    <2>2. Cardinality(Q \cap P) \in Nat
      BY <2>1, FS_Intersection, FS_CardinalityType
    <2>3. /\ IsFiniteSet(Q \cup P)
          /\ Cardinality(Q \cup P)
                 = Cardinality(Q) + Cardinality(P) - Cardinality(Q \cap P)
      BY <1>2, <2>1, FS_Union
    <2>4. Cardinality(Q \cup P) \in Nat
      BY <2>3, FS_CardinalityType
    <2>5. Q' = Q \cup P
      BY <1>7, <1>9
    <2> HIDE DEF Q
    <2>6. Cardinality(Q)' = Cardinality(Q \cup P)
      BY <2>5
    <2>7. Cardinality(Q)' \in Nat /\ Cardinality(Q)' <= Cardinality(Q) + j
      BY <1>2, <2>1, <2>2, <2>3, <2>4, <2>6
    <2>8. QED
      BY <2>7 DEF Q
  <1>10. QED
    BY <1>4, <1>5, <1>6, <1>7, <1>8, <1>9

\* send_begin_transmission of UCX posts the metadata.
LEMMA SendBeginsUcx ==
    ASSUME SenderTypes, SendInv, NEW m \in Messages, UcxSendBegin(m)
    PROVE  SenderTypes' /\ SendInv'
  <1>1. /\ task[m].pc = "begin"
        /\ Post(m, 0, D(m))
        /\ task' = [task EXCEPT ![m].pc = "started"]
        /\ UNCHANGED <<traffic, begun, transmitted>>
    BY DEF UcxSendBegin, D
  <1>2. /\ task'[m].pc = "started"
        /\ task'[m].dest = task[m].dest
        /\ task'[m].frame = task[m].frame
        /\ \A x \in Messages \ {m} : task'[x] = task[x]
        /\ task' \in [Messages -> TaskRecords]
    BY <1>1 DEF SenderTypes, TaskRecords
  <1>3. SendOf(m)
    BY DEF SendInv
  <1>4. /\ task[m].dest = 1 /\ task[m].frame = 1
        /\ 1 \in 1 .. D(m) /\ 1 \in 1 .. N(m) + 1
        /\ transmitted[m] = 0 /\ Pending(m) = {}
        /\ begun[m] = 0 /\ Metadata(m) = {}
        /\ transmitted[m] + Cardinality(Pending(m)) <= Asked(m)
    BY <1>1, <1>3 DEF SendOf
  <1>5. 0 \in 0 .. N(m) /\ D(m) \in 0 .. D(m) /\ D(m) \in Nat
    BY MessageFacts
  <1>6. /\ sends' \subseteq Requests /\ IsFiniteSet(sends')
        /\ \A r : r[1] # m => (r \in sends' <=> r \in sends)
        /\ Pending(m)' = Pending(m)
        /\ Cardinality(Metadata(m))' \in Nat
        /\ Cardinality(Metadata(m))' <= D(m)
    BY <1>1, <1>4, <1>5, PostSends
  <1>7. SenderTypes'
    BY <1>1, <1>2, <1>6 DEF SenderTypes
  <1>8. Asked(m)' = Asked(m)
    BY <1>2 DEF Asked
  <1>9. (begun[m] + Cardinality(Metadata(m)) <= D(m))'
    BY <1>1, <1>4, <1>5, <1>6
  <1>10. SendOf(m)'
    BY <1>1, <1>2, <1>4, <1>6, <1>8, <1>9 DEF SendOf
  <1>11. SendInv'
    BY <1>1, <1>2, <1>6, <1>10, SendStep
  <1>12. QED
    BY <1>7, <1>11

\* send of UCX posts one buffer to all the destinations.
LEMMA SendPosts ==
    ASSUME SenderTypes, SendInv, ModeInv, NEW m \in Messages, UcxSend(m)
    PROVE  SenderTypes' /\ SendInv'
  <1>1. /\ task[m].pc = "frames" /\ task[m].frame <= N(m)
        /\ Post(m, task[m].frame, D(m))
        /\ task' = [task EXCEPT ![m].frame = @ + 1]
        /\ UNCHANGED <<traffic, begun, transmitted>>
        /\ task[m].dest = 1
    BY DEF UcxSend, ModeInv, D, N
  <1>2. /\ task'[m].pc = "frames"
        /\ task'[m].dest = task[m].dest
        /\ task'[m].frame = task[m].frame + 1
        /\ \A x \in Messages \ {m} : task'[x] = task[x]
    BY <1>1 DEF SenderTypes, TaskRecords
  <1>3. task' \in [Messages -> TaskRecords]
    <2>1. task[m].frame + 1 \in Nat
      BY DEF SenderTypes, TaskRecords
    <2>2. QED
      BY <1>1, <2>1 DEF SenderTypes, TaskRecords
  <1>4. SendOf(m)
    BY DEF SendInv
  <1>5. /\ 1 \in 1 .. D(m) /\ task[m].frame \in 1 .. N(m) + 1
        /\ begun[m] >= D(m)
        /\ begun[m] + Cardinality(Metadata(m)) <= D(m)
        /\ transmitted[m] + Cardinality(Pending(m)) <= Asked(m)
    BY <1>1, <1>4 DEF SendOf
  <1>6. /\ task[m].frame \in 0 .. N(m) /\ task[m].frame > 0
        /\ D(m) \in 0 .. D(m) /\ D(m) \in Nat
        /\ task'[m].frame \in 1 .. N(m) + 1
    BY <1>1, <1>2, <1>5, MessageFacts
  <1>7. /\ sends' \subseteq Requests /\ IsFiniteSet(sends')
        /\ \A r : r[1] # m => (r \in sends' <=> r \in sends)
        /\ Metadata(m)' = Metadata(m)
        /\ Cardinality(Pending(m))' \in Nat
        /\ Cardinality(Pending(m))' <= Cardinality(Pending(m)) + D(m)
    BY <1>1, <1>6, PostSends
  <1>8. SenderTypes'
    BY <1>1, <1>3, <1>7 DEF SenderTypes
  <1>9. Asked(m)' = Asked(m) + D(m)
    <2> DEFINE f == task[m].frame - 1
               a == f * D(m)
               b == (f + 1) * D(m)
    <2>1. f \in Nat /\ D(m) \in Nat
      BY <1>6
    <2>2. a \in Nat /\ b = a + D(m)
      BY <2>1, Products
    <2>3. Asked(m) = a + (1 - 1)
      BY <1>1 DEF Asked
    <2>4. task'[m].frame - 1 = f + 1
      BY <1>2, <1>6
    <2>5. Asked(m)' = b + (1 - 1)
      BY <1>1, <1>2, <2>4 DEF Asked
    <2> HIDE DEF f, a, b
    <2>6. QED
      BY <2>1, <2>2, <2>3, <2>5
  <1>10. (transmitted[m] + Cardinality(Pending(m)) <= Asked(m))'
    <2>1. /\ Cardinality(Pending(m)) \in Nat /\ transmitted[m] \in Nat
          /\ Asked(m) \in Nat
      BY <1>4, SendNumbers
    <2>2. QED
      BY <1>1, <1>5, <1>6, <1>7, <1>9, <2>1
  <1>11. SendOf(m)'
    BY <1>1, <1>2, <1>5, <1>6, <1>7, <1>10 DEF SendOf
  <1>12. SendInv'
    BY <1>1, <1>2, <1>7, <1>11, SendStep
  <1>13. QED
    BY <1>8, <1>12

\* The progress thread hears of a request.
LEMMA SendHeard ==
    ASSUME SenderTypes, SendInv, NEW r \in sends, CompleteSend(r)
    PROVE  SenderTypes' /\ SendInv'
  <1> DEFINE m == r[1]
  <1>1. /\ r \in Requests /\ m \in Messages /\ r[3] \in Nat
    BY RequestFacts, MessageFacts DEF SenderTypes
  <1>2. /\ sends' = sends \ {r}
        /\ UNCHANGED <<traffic, task>>
        /\ \A x \in Messages \ {m} :
               begun'[x] = begun[x] /\ transmitted'[x] = transmitted[x]
        /\ IF task[m].pc = "failed" THEN UNCHANGED <<begun, transmitted>>
           ELSE IF r[3] = 0
           THEN begun' = [begun EXCEPT ![m] = @ + 1] /\ UNCHANGED transmitted
           ELSE /\ transmitted' = [transmitted EXCEPT ![m] = @ + 1]
                /\ UNCHANGED begun
    BY DEF CompleteSend, EraseRequest, SenderTypes
  <1>3. SenderTypes'
    <2>1. sends' \subseteq Requests /\ IsFiniteSet(sends')
      BY <1>2, FS_RemoveElement DEF SenderTypes
    <2>2. begun[m] + 1 \in Nat /\ transmitted[m] + 1 \in Nat
      BY <1>1 DEF SenderTypes
    <2>3. /\ begun' \in [Messages -> Nat]
          /\ transmitted' \in [Messages -> Nat]
      BY <1>1, <1>2, <2>2 DEF SenderTypes
    <2>4. QED
      BY <1>2, <2>1, <2>3 DEF SenderTypes
  <1>4. \A q : q[1] # m => (q \in sends' <=> q \in sends)
    BY <1>2
  <1>5. SendOf(m)
    BY <1>1 DEF SendInv
  <1>6. /\ Metadata(m)' = Metadata(m) \ {r}
        /\ Pending(m)' = Pending(m) \ {r}
    BY <1>2 DEF Metadata, Pending
  <1>7. /\ r[3] = 0 => r \in Metadata(m) /\ Pending(m)' = Pending(m)
        /\ r[3] # 0 => r \in Pending(m) /\ Metadata(m)' = Metadata(m)
    BY <1>1, <1>2 DEF Metadata, Pending
  <1>8. Asked(m)' = Asked(m)
    BY <1>2 DEF Asked
  <1>9. /\ IsFiniteSet(Metadata(m)) /\ IsFiniteSet(Pending(m))
        /\ Cardinality(Metadata(m)) \in Nat
        /\ Cardinality(Pending(m)) \in Nat
        /\ begun[m] \in Nat /\ transmitted[m] \in Nat
        /\ D(m) \in Nat /\ Asked(m) \in Nat
    BY <1>1, <1>5, PendingFinite, SendNumbers DEF SenderTypes
  <1>10. /\ r \in Metadata(m) =>
                Cardinality(Metadata(m) \ {r}) = Cardinality(Metadata(m)) - 1
         /\ r \in Pending(m) =>
                Cardinality(Pending(m) \ {r}) = Cardinality(Pending(m)) - 1
    BY <1>9, FS_RemoveElement
  <1>11. SendOf(m)'
    <2>1. CASE task[m].pc = "failed"
      BY <1>2, <1>5, <2>1 DEF SendOf
    <2>2. CASE task[m].pc # "failed" /\ r[3] = 0
      <3>1. /\ begun'[m] = begun[m] + 1 /\ transmitted'[m] = transmitted[m]
            /\ Cardinality(Metadata(m))' = Cardinality(Metadata(m)) - 1
        <4>1. Cardinality(Metadata(m))' = Cardinality(Metadata(m) \ {r})
          BY <1>6
        <4>2. QED
          BY <1>1, <1>2, <1>7, <1>10, <2>2, <4>1 DEF SenderTypes
      <3>2. Metadata(m) # {}
        BY <1>7, <2>2
      <3>3. /\ (begun[m] + Cardinality(Metadata(m)) <= D(m))'
            /\ begun[m] >= D(m) => begun'[m] >= D(m)
        <4>1. begun[m] + Cardinality(Metadata(m)) <= D(m)
          BY <1>5, <2>2 DEF SendOf
        <4>2. QED
          BY <1>9, <3>1, <4>1
      <3>4. Pending(m)' = Pending(m)
        BY <1>7, <2>2
      <3>5. QED
        BY <1>2, <1>5, <1>8, <2>2, <3>1, <3>2, <3>3, <3>4 DEF SendOf
    <2>3. CASE task[m].pc # "failed" /\ r[3] # 0
      <3>1. /\ begun'[m] = begun[m] /\ transmitted'[m] = transmitted[m] + 1
            /\ Cardinality(Pending(m))' = Cardinality(Pending(m)) - 1
        <4>1. Cardinality(Pending(m))' = Cardinality(Pending(m) \ {r})
          BY <1>6
        <4>2. QED
          BY <1>1, <1>2, <1>7, <1>10, <2>3, <4>1 DEF SenderTypes
      <3>2. Pending(m) # {}
        BY <1>7, <2>3
      <3>3. task[m].pc # "connect" =>
                (transmitted[m] + Cardinality(Pending(m)) <= Asked(m))'
        <4>1. SUFFICES ASSUME task[m].pc # "connect"
                       PROVE  transmitted'[m] + Cardinality(Pending(m))'
                                  <= Asked(m)
          BY <1>8
        <4>2. transmitted[m] + Cardinality(Pending(m)) <= Asked(m)
          BY <1>5, <2>3, <4>1 DEF SendOf
        <4>3. QED
          BY <1>9, <3>1, <4>2
      <3>4. Metadata(m)' = Metadata(m)
        BY <1>7, <2>3
      <3>5. QED
        BY <1>2, <1>5, <2>3, <3>1, <3>2, <3>3, <3>4 DEF SendOf
    <2>4. QED
      BY <2>1, <2>2, <2>3
  <1>12. SendInv'
    BY <1>1, <1>2, <1>4, <1>11, SendStep
  <1>13. QED
    BY <1>3, <1>12

-----------------------------------------------------------------------------
(* The steps of each protocol. *)

TcpSender(m) ==
    \/ StartSend(m) \/ WaitForBeginTransmission(m) \/ WaitUntilComplete(m)
    \/ Connect(m) \/ TcpSendBegin(m) \/ TcpSend(m) \/ TcpSendToClosed(m)
    \/ ConnectThrows(m) \/ TcpSendThrows(m)

TcpReader(c) ==
    \/ TcpReadBegin(c) \/ TcpReadFrame(c) \/ TcpReadEnd(c) \/ TcpFinish(c)
    \/ TcpReceiveThrows(c)

TcpNext ==
    \/ \E m \in Messages : TcpSender(m)
    \/ \E n \in Nodes : StartReceive(n)
    \/ \E c \in Channels : TcpReader(c)

UcxSender(m) ==
    \/ StartSend(m) \/ WaitForBeginTransmission(m) \/ WaitUntilComplete(m)
    \/ UcxSendBegin(m) \/ UcxSend(m) \/ UcxSendThrows(m)

UcxReader(c) ==
    \/ UcxPostReceive(c) \/ UcxReceiveEnds(c) \/ UcxReceiveThrows(c)
    \/ \E thread \in {"pool", "progress"} :
        \/ ConfirmTransmission(thread, c)
        \/ Finish(thread, c)
        \/ EndCallback(thread, c)

UcxNext ==
    \/ \E m \in Messages : UcxSender(m)
    \/ \E n \in Nodes : StartReceive(n)
    \/ \E c \in Channels : UcxReader(c)
    \/ \E r \in sends \cup recvs \cup wire : RequestNext(r)

\* A cluster with TCP only takes the steps of TCP.
LEMMA OnlyTcp ==
    ASSUME ModeInv, protocol = "tcp", Next
    PROVE  TcpNext
  <1>1. ~\E r \in sends \cup recvs \cup wire : RequestNext(r)
    BY DEF ModeInv
  <1>2. ASSUME NEW m \in Messages, SenderNext(m) PROVE TcpSender(m)
    BY <1>2 DEF SenderNext, TcpSender, UcxSendBegin, UcxSend
  <1>3. ASSUME NEW c \in Channels, ReaderNext(c) PROVE TcpReader(c)
    <2>1. ASSUME NEW thread \in {"pool", "progress"}
          PROVE  ~( \/ ConfirmTransmission(thread, c)
                    \/ Finish(thread, c)
                    \/ EndCallback(thread, c) )
      BY DEF ModeInv, ConfirmTransmission, Finish, EndCallback
    <2>2. ~UcxPostReceive(c) /\ ~UcxReceiveEnds(c)
      BY DEF UcxPostReceive, UcxReceiveEnds
    <2>3. QED
      BY <1>3, <2>1, <2>2 DEF ReaderNext, TcpReader
  <1>4. ASSUME Fault PROVE TcpNext
    <2>1. \A m \in Messages : ~UcxSendThrows(m)
      BY DEF UcxSendThrows
    <2>2. \A c \in Channels : ~UcxReceiveThrows(c)
      BY DEF UcxReceiveThrows
    <2>3. QED
      BY <1>4, <2>1, <2>2 DEF Fault, TcpNext, TcpSender, TcpReader
  <1>5. QED
    BY <1>1, <1>2, <1>3, <1>4 DEF Next, Progress, TcpNext

\* A cluster with UCX only takes the steps of UCX.
LEMMA OnlyUcx ==
    ASSUME ModeInv, protocol = "ucx", Next
    PROVE  UcxNext
  <1>1. \A m \in Messages :
            ~Connect(m) /\ ~ConnectThrows(m) /\ ~TcpSendThrows(m)
    BY DEF ModeInv, Connect, ConnectThrows, TcpSendThrows
  <1>2. ASSUME NEW m \in Messages, SenderNext(m) PROVE UcxSender(m)
    <2>1. ~TcpSendBegin(m) /\ ~TcpSend(m) /\ ~TcpSendToClosed(m)
      BY DEF TcpSendBegin, TcpSend, TcpSendToClosed
    <2>2. QED
      BY <1>1, <1>2, <2>1 DEF SenderNext, UcxSender
  <1>3. ASSUME NEW c \in Channels, ReaderNext(c) PROVE UcxReader(c)
    <2>1. ~TcpReadBegin(c)
      BY DEF TcpReadBegin, ModeInv
    <2>2. ~TcpReadEnd(c)
      <3>1. socket[c] = [state |-> "none", data |-> <<>>]
        BY DEF ModeInv
      <3>2. socket[c].state = "none"
        BY <3>1
      <3>3. QED
        BY <3>2 DEF TcpReadEnd
    <2>3. ~TcpReadFrame(c) /\ ~TcpFinish(c)
      BY DEF TcpReadFrame, TcpFinish
    <2>4. QED
      BY <1>3, <2>1, <2>2, <2>3 DEF ReaderNext, UcxReader
  <1>4. ASSUME Fault PROVE UcxNext
    <2>1. \A c \in Channels : ~TcpReceiveThrows(c)
      BY DEF TcpReceiveThrows
    <2>2. QED
      BY <1>1, <1>4, <2>1 DEF Fault, UcxNext, UcxSender, UcxReader
  <1>5. QED
    BY <1>2, <1>3, <1>4 DEF Next, Progress, UcxNext

\* The steps of TCP leave the variables of UCX alone.
LEMMA TcpLeavesUcx ==
    ASSUME protocol = "tcp", TcpNext
    PROVE  UNCHANGED ucxVars /\ UNCHANGED traffic /\ UNCHANGED down
  <1>1. ASSUME NEW m \in Messages, TcpSender(m)
        PROVE  UNCHANGED ucxVars /\ UNCHANGED traffic /\ UNCHANGED down
    BY <1>1 DEF TcpSender, StartSend, WaitForBeginTransmission,
                WaitUntilComplete, Connect, TcpSendBegin, TcpSend,
                TcpSendToClosed, ConnectThrows, TcpSendThrows
  <1>2. ASSUME NEW n \in Nodes, StartReceive(n)
        PROVE  UNCHANGED ucxVars /\ UNCHANGED traffic /\ UNCHANGED down
    BY <1>2 DEF StartReceive, ucxVars
  <1>3. ASSUME NEW c \in Channels, TcpReader(c)
        PROVE  UNCHANGED ucxVars /\ UNCHANGED traffic /\ UNCHANGED down
    BY <1>3 DEF TcpReader, TcpReadBegin, TcpReadFrame, TcpReadEnd,
                TcpFinish, TcpReceiveThrows
  <1>4. QED
    BY <1>1, <1>2, <1>3 DEF TcpNext

\* The steps of UCX open no connection.
LEMMA UcxLeavesTcp ==
    ASSUME SocketTypes, ModeInv, protocol = "ucx", UcxNext
    PROVE  UNCHANGED socket /\ UNCHANGED traffic
  <1>1. ASSUME NEW m \in Messages, UcxSender(m)
        PROVE  UNCHANGED socket /\ UNCHANGED traffic
    <2>1. CASE WaitUntilComplete(m)
      <3>1. \A c \in Channels : socket[c].state # "open"
        <4>1. \A c \in Channels :
                  socket[c] = [state |-> "none", data |-> <<>>]
          BY DEF ModeInv
        <4>2. QED
          BY <4>1
      <3>2. CloseSockets(m) = [c \in Channels |-> socket[c]]
        BY <3>1 DEF CloseSockets
      <3>3. socket = [c \in Channels |-> socket[c]]
        BY DEF SocketTypes
      <3>4. QED
        BY <2>1, <3>2, <3>3 DEF WaitUntilComplete
    <2>2. CASE \/ StartSend(m) \/ WaitForBeginTransmission(m)
               \/ UcxSendBegin(m) \/ UcxSend(m) \/ UcxSendThrows(m)
      BY <2>2 DEF StartSend, WaitForBeginTransmission, UcxSendBegin,
                  UcxSend, UcxSendThrows, tcpVars
    <2>3. QED
      BY <1>1, <2>1, <2>2 DEF UcxSender
  <1>2. ASSUME NEW n \in Nodes, StartReceive(n)
        PROVE  UNCHANGED socket /\ UNCHANGED traffic
    BY <1>2 DEF StartReceive, tcpVars
  <1>3. ASSUME NEW c \in Channels, UcxReader(c)
        PROVE  UNCHANGED socket /\ UNCHANGED traffic
    BY <1>3 DEF UcxReader, UcxPostReceive, UcxReceiveEnds,
                UcxReceiveThrows, ConfirmTransmission, Finish, EndCallback,
                tcpVars
  <1>4. ASSUME NEW r, RequestNext(r)
        PROVE  UNCHANGED socket /\ UNCHANGED traffic
    BY <1>4 DEF RequestNext, CompleteSend, SendStatusThrows,
                PollBeginMessageTag, CompleteRecv, tcpVars
  <1>5. QED
    BY <1>1, <1>2, <1>3, <1>4 DEF UcxNext

\* The sending tasks with TCP.
LEMMA TcpSends ==
    ASSUME SenderTypes, SendInv, protocol = "tcp", TcpNext
    PROVE  SenderTypes' /\ SendInv'
  <1>1. UNCHANGED <<traffic, sends>>
    BY TcpLeavesUcx DEF ucxVars
  <1>2. ASSUME NEW m \in Messages, TcpSender(m)
        PROVE  SenderTypes' /\ SendInv'
    <2>1. CASE StartSend(m)
      <3>1. /\ task[m].pc = "waiting"
            /\ task' = [task EXCEPT ![m].pc = "connect"]
            /\ UNCHANGED <<begun, transmitted>>
        BY <2>1 DEF StartSend
      <3>2. QED
        BY <1>1, <3>1, SendPc
    <2>2. CASE WaitForBeginTransmission(m)
      <3>1. /\ task[m].pc = "started" /\ begun[m] >= D(m)
            /\ task' = [task EXCEPT ![m].pc = "frames"]
            /\ UNCHANGED <<begun, transmitted>>
        BY <2>2 DEF WaitForBeginTransmission, BeginTransmitted, D
      <3>2. QED
        BY <1>1, <3>1, SendPc
    <2>3. CASE WaitUntilComplete(m)
      BY <2>3, SendCompletes
    <2>4. CASE Connect(m)
      BY <1>1, <2>4, SendConnects DEF Connect
    <2>5. CASE TcpSendBegin(m)
      BY <2>5, SendBeginsTcp
    <2>6. CASE TcpSend(m)
      BY <1>1, <2>6, SendAdvances DEF TcpSend, N
    <2>7. CASE TcpSendToClosed(m)
      <3>1. task[m].pc = "frames" /\ task[m].frame <= N(m) /\ UNCHANGED begun
        BY <2>7 DEF TcpSendToClosed, N
      <3>2. CASE Advance(m)
        BY <1>1, <3>1, <3>2, SendAdvances
      <3>3. CASE /\ task' = [task EXCEPT ![m].pc = "failed"]
                 /\ UNCHANGED transmitted
        <4>1. task' \in [Messages -> TaskRecords] /\ SendInv'
          BY <1>1, <3>1, <3>3, SendFails
        <4>2. SenderTypes'
          BY <1>1, <3>1, <3>3, <4>1 DEF SenderTypes
        <4>3. QED
          BY <4>1, <4>2
      <3>4. QED
        BY <2>7, <3>2, <3>3 DEF TcpSendToClosed
    <2>8. CASE ConnectThrows(m)
      <3>1. /\ task[m].pc = "connect"
            /\ task' = [task EXCEPT ![m].pc = "failed"]
            /\ UNCHANGED <<begun, transmitted>>
        BY <2>8 DEF ConnectThrows
      <3>2. task' \in [Messages -> TaskRecords] /\ SendInv'
        BY <1>1, <3>1, SendFails
      <3>3. SenderTypes'
        BY <1>1, <3>1, <3>2 DEF SenderTypes
      <3>4. QED
        BY <3>2, <3>3
    <2>9. CASE TcpSendThrows(m)
      <3>1. /\ task[m].pc # "failed"
            /\ task' = [task EXCEPT ![m].pc = "failed"]
            /\ UNCHANGED transmitted
            /\ \/ begun' = begun
               \/ \E j \in 0 .. D(m) - 1 :
                      begun' = [begun EXCEPT ![m] = j]
        BY <2>9 DEF TcpSendThrows, D
      <3>2. /\ task' \in [Messages -> TaskRecords]
            /\ begun' \in [Messages -> Nat] /\ SendInv'
        BY <1>1, <3>1, SendFails
      <3>3. SenderTypes'
        BY <1>1, <3>1, <3>2 DEF SenderTypes
      <3>4. QED
        BY <3>2, <3>3
    <2>10. QED
      BY <1>2, <2>1, <2>2, <2>3, <2>4, <2>5, <2>6, <2>7, <2>8, <2>9
      DEF TcpSender
  <1>3. ASSUME NEW n \in Nodes, StartReceive(n)
        PROVE  SenderTypes' /\ SendInv'
    BY <1>1, <1>3, SenderFrame DEF StartReceive, senderVars
  <1>4. ASSUME NEW c \in Channels, TcpReader(c)
        PROVE  SenderTypes' /\ SendInv'
    <2>1. UNCHANGED <<task, begun, transmitted>>
      BY <1>4 DEF TcpReader, TcpReadBegin, TcpReadFrame, TcpReadEnd,
                  TcpFinish, TcpReceiveThrows, senderVars
    <2>2. QED
      BY <1>1, <2>1, SenderFrame
  <1>5. QED
    BY <1>2, <1>3, <1>4 DEF TcpNext

\* The sending tasks with UCX.
LEMMA UcxSends ==
    ASSUME SenderTypes, SendInv, SocketTypes, ModeInv, protocol = "ucx",
           UcxNext
    PROVE  SenderTypes' /\ SendInv'
  <1>1. UNCHANGED traffic
    BY UcxLeavesTcp
  <1>2. ASSUME NEW m \in Messages, UcxSender(m)
        PROVE  SenderTypes' /\ SendInv'
    <2>1. CASE StartSend(m)
      <3>1. /\ task[m].pc = "waiting"
            /\ task' = [task EXCEPT ![m].pc = "begin"]
            /\ UNCHANGED <<begun, transmitted, sends>>
        BY <2>1 DEF StartSend, ucxVars
      <3>2. QED
        BY <1>1, <3>1, SendPc
    <2>2. CASE WaitForBeginTransmission(m)
      <3>1. /\ task[m].pc = "started" /\ begun[m] >= D(m)
            /\ task' = [task EXCEPT ![m].pc = "frames"]
            /\ UNCHANGED <<begun, transmitted, sends>>
        BY <2>2 DEF WaitForBeginTransmission, BeginTransmitted, D, ucxVars
      <3>2. QED
        BY <1>1, <3>1, SendPc
    <2>3. CASE WaitUntilComplete(m)
      BY <2>3, SendCompletes
    <2>4. CASE UcxSendBegin(m)
      BY <2>4, SendBeginsUcx
    <2>5. CASE UcxSend(m)
      BY <2>5, SendPosts
    <2>6. CASE UcxSendThrows(m)
      <3>1. /\ task' = [task EXCEPT ![m].pc = "failed"]
            /\ UNCHANGED <<begun, transmitted>>
        BY <2>6 DEF UcxSendThrows
      <3>2. PICK j \in 0 .. D(m) - 1 :
                \/ task[m].pc = "begin" /\ Post(m, 0, j)
                \/ /\ task[m].pc = "frames"
                   /\ task[m].frame <= N(m)
                   /\ Post(m, task[m].frame, j)
        BY <2>6 DEF UcxSendThrows, D, N
      <3>3. /\ j \in 0 .. D(m) /\ 0 \in 0 .. N(m)
            /\ task[m].frame <= N(m) => task[m].frame \in 0 .. N(m)
        BY <3>2, MessageFacts DEF SenderTypes, TaskRecords
      <3>4. /\ sends' \subseteq Requests /\ IsFiniteSet(sends')
            /\ \A r : r[1] # m => (r \in sends' <=> r \in sends)
            /\ task[m].pc # "failed"
        <4>1. CASE task[m].pc = "begin" /\ Post(m, 0, j)
          BY <3>3, <4>1, PostSends
        <4>2. CASE /\ task[m].pc = "frames"
                   /\ task[m].frame <= N(m)
                   /\ Post(m, task[m].frame, j)
          BY <3>3, <4>2, PostSends
        <4>3. QED
          BY <3>2, <4>1, <4>2
      <3>5. task' \in [Messages -> TaskRecords] /\ SendInv'
        BY <3>1, <3>4, SendFails
      <3>6. SenderTypes'
        BY <1>1, <3>1, <3>4, <3>5 DEF SenderTypes
      <3>7. QED
        BY <3>5, <3>6
    <2>7. QED
      BY <1>2, <2>1, <2>2, <2>3, <2>4, <2>5, <2>6 DEF UcxSender
  <1>3. ASSUME NEW n \in Nodes, StartReceive(n)
        PROVE  SenderTypes' /\ SendInv'
    BY <1>1, <1>3, SenderFrame DEF StartReceive, senderVars
  <1>4. ASSUME NEW c \in Channels, UcxReader(c)
        PROVE  SenderTypes' /\ SendInv'
    <2>1. UNCHANGED <<task, begun, transmitted, sends>>
      BY <1>4 DEF UcxReader, UcxPostReceive, UcxReceiveEnds,
                  UcxReceiveThrows, ConfirmTransmission, Finish,
                  EndCallback, senderVars, ucxVars
    <2>2. QED
      BY <1>1, <2>1, SenderFrame
  <1>5. ASSUME NEW r, RequestNext(r)
        PROVE  SenderTypes' /\ SendInv'
    <2>1. CASE CompleteSend(r)
      <3>1. r \in sends
        BY <2>1 DEF CompleteSend
      <3>2. QED
        BY <2>1, <3>1, SendHeard
    <2>2. CASE \/ SendStatusThrows(r) \/ PollBeginMessageTag(r)
               \/ CompleteRecv(r)
      <3>1. UNCHANGED <<task, begun, transmitted, sends>>
        BY <2>2 DEF SendStatusThrows, PollBeginMessageTag, CompleteRecv,
                    senderVars, ucxVars
      <3>2. QED
        BY <1>1, <3>1, SenderFrame
    <2>3. QED
      BY <1>5, <2>1, <2>2 DEF RequestNext
  <1>6. QED
    BY <1>2, <1>3, <1>4, <1>5 DEF UcxNext

-----------------------------------------------------------------------------
(* The receiving tasks, for both protocols. *)

\* A receiving task goes somewhere else.
LEMMA ReaderPc ==
    ASSUME ReaderOK, NEW c \in Channels,
           NEW p \in {"none", "queued", "begin", "frames", "spin", "done",
                      "closed"},
           reader' = [reader EXCEPT ![c].pc = p]
    PROVE  /\ ReaderOK'
           /\ reader'[c].pc = p /\ reader'[c].next = reader[c].next
           /\ \A x \in Channels \ {c} : reader'[x] = reader[x]
  <1>1. /\ reader' \in [Channels -> ReaderRecords]
        /\ reader'[c].pc = p /\ reader'[c].next = reader[c].next
        /\ \A x \in Channels \ {c} : reader'[x] = reader[x]
    BY DEF ReaderOK, ReaderRecords
  <1>2. \A x \in Channels : reader'[x].next = reader[x].next
    BY <1>1
  <1>3. QED
    BY <1>1, <1>2 DEF ReaderOK

\* A receiving task goes on to its next buffer.
LEMMA ReaderAdvances ==
    ASSUME ReaderOK, NEW c \in Channels, ~AllRead(c),
           reader' = [reader EXCEPT ![c].next = @ + 1]
    PROVE  /\ ReaderOK'
           /\ reader[c].next \in Frames(c[1])
           /\ reader'[c].pc = reader[c].pc
           /\ reader'[c].next = reader[c].next + 1
           /\ \A x \in Channels \ {c} : reader'[x] = reader[x]
  <1>1. reader[c].next \in 1 .. N(c[1]) + 1 /\ N(c[1]) \in Nat
    BY ChannelFacts, MessageFacts DEF ReaderOK
  <1>2. /\ reader[c].next \in 1 .. N(c[1])
        /\ reader[c].next + 1 \in Nat
        /\ reader[c].next + 1 \in 1 .. N(c[1]) + 1
    BY <1>1 DEF AllRead, N
  <1>3. /\ reader' \in [Channels -> ReaderRecords]
        /\ reader'[c].pc = reader[c].pc
        /\ reader'[c].next = reader[c].next + 1
        /\ \A x \in Channels \ {c} : reader'[x] = reader[x]
    BY <1>2 DEF ReaderOK, ReaderRecords
  <1>4. \A x \in Channels : reader'[x].next \in 1 .. N(x[1]) + 1
    BY <1>2, <1>3 DEF ReaderOK
  <1>5. QED
    BY <1>2, <1>3, <1>4 DEF ReaderOK, Frames, N

\* One buffer of a message is received.
LEMMA BufferFilled ==
    ASSUME BufferOK, NEW c \in Channels, NEW k \in Frames(c[1]),
           NEW v \in 0 .. N(c[1]),
           buffers' = [buffers EXCEPT ![c][k] = v]
    PROVE  /\ BufferOK'
           /\ buffers'[c][k] = v
           /\ \A j \in Frames(c[1]) \ {k} : buffers'[c][j] = buffers[c][j]
           /\ \A x \in Channels \ {c} : buffers'[x] = buffers[x]
  <1>1. /\ buffers[c] \in [Frames(c[1]) -> 0 .. N(c[1])]
        /\ DOMAIN buffers = Channels
    BY DEF BufferOK
  <1>2. buffers'[c] = [buffers[c] EXCEPT ![k] = v]
    BY <1>1
  <1>3. /\ buffers'[c][k] = v
        /\ \A j \in Frames(c[1]) \ {k} : buffers'[c][j] = buffers[c][j]
        /\ buffers'[c] \in [Frames(c[1]) -> 0 .. N(c[1])]
    BY <1>1, <1>2
  <1>4. \A x \in Channels \ {c} : buffers'[x] = buffers[x]
    BY <1>1
  <1>5. \A x \in Channels : buffers'[x] \in [Frames(x[1]) -> 0 .. N(x[1])]
    BY <1>3, <1>4 DEF BufferOK
  <1>6. buffers' \in [Channels -> Tables]
    <2>1. \A x \in Channels : buffers'[x] \in Tables
      BY <1>5, ChannelFacts DEF Tables
    <2>2. DOMAIN buffers' = Channels /\ buffers' = [x \in Channels |-> buffers'[x]]
      BY <1>1
    <2>3. QED
      BY <2>1, <2>2
  <1>7. QED
    BY <1>3, <1>4, <1>5, <1>6 DEF BufferOK

\* finish() delivers the table the first time it is called.
LEMMA Delivers ==
    ASSUME BufferOK, DeliveredOK, NEW c \in Channels, Deliver(c)
    PROVE  /\ DeliveredOK'
           /\ delivered'[c] # <<>>
           /\ delivered'[c] = IF delivered[c] = <<>> THEN <<buffers[c]>>
                                                    ELSE delivered[c]
           /\ \A x \in Channels \ {c} : delivered'[x] = delivered[x]
  <1>1. /\ delivered[c] \in Seq(Tables) /\ DOMAIN delivered = Channels
        /\ buffers[c] \in Tables
    BY DEF DeliveredOK, BufferOK
  <1>2. /\ delivered'[c] = IF delivered[c] = <<>> THEN <<buffers[c]>>
                                                  ELSE delivered[c]
        /\ \A x \in Channels \ {c} : delivered'[x] = delivered[x]
    <2>1. /\ delivered'[c] = IF delivered[c] = <<>>
                              THEN Append(delivered[c], buffers[c])
                              ELSE delivered[c]
          /\ \A x \in Channels \ {c} : delivered'[x] = delivered[x]
      BY <1>1 DEF Deliver
    <2>2. Append(<<>>, buffers[c]) = <<buffers[c]>>
      OBVIOUS
    <2>3. CASE delivered[c] = <<>>
      BY <2>1, <2>2, <2>3
    <2>4. CASE delivered[c] # <<>>
      BY <2>1, <2>4
    <2>5. QED
      BY <2>3, <2>4
  <1>3. delivered'[c] \in Seq(Tables) /\ delivered'[c] # <<>>
    BY <1>1, <1>2
  <1>4. DeliveredOK'
    <2>1. delivered' = [delivered EXCEPT ![c] = delivered'[c]]
      BY <1>1 DEF Deliver
    <2>2. QED
      BY <1>3, <2>1 DEF DeliveredOK
  <1>5. QED
    BY <1>2, <1>3, <1>4

\* Nothing happens to the queues.
LEMMA QueueSame ==
    ASSUME QueueInv, QueueOK, queue' = queue,
           \A c \in Channels :
               reader[c].pc = "queued" => reader'[c].pc = "queued"
    PROVE  QueueInv' /\ QueueOK'
  <1>1. QueueOK'
    BY DEF QueueOK
  <1>2. ASSUME NEW n \in Nodes
        PROVE  /\ IsInjective(queue'[n])
               /\ \A c \in ToSet(queue'[n]) :
                      c[2] = n /\ reader'[c].pc = "queued"
    <2>1. /\ IsInjective(queue[n])
          /\ \A c \in ToSet(queue[n]) : c[2] = n /\ reader[c].pc = "queued"
      BY DEF QueueInv
    <2>2. ToSet(queue[n]) \subseteq Channels
      <3>1. queue[n] \in Seq(Channels)
        BY DEF QueueOK
      <3>2. QED
        BY <3>1, MessagesTyped
    <2>3. QED
      BY <2>1, <2>2
  <1>3. QED
    BY <1>1, <1>2 DEF QueueInv

\* A message that nobody has told the pool of comes to its queue.
LEMMA QueueTold ==
    ASSUME QueueInv, QueueOK, ReaderOK, NEW c \in Channels,
           reader[c].pc = "none",
           queue' = [queue EXCEPT ![c[2]] = Append(@, c)],
           reader' = [reader EXCEPT ![c].pc = "queued"]
    PROVE  QueueInv' /\ QueueOK'
  <1> DEFINE d == c[2]
  <1>1. d \in Nodes /\ queue[d] \in Seq(Channels)
    BY ChannelFacts DEF QueueOK
  <1>2. /\ queue'[d] = Append(queue[d], c)
        /\ \A n \in Nodes \ {d} : queue'[n] = queue[n]
    BY <1>1 DEF QueueOK
  <1>3. /\ Append(queue[d], c) \in Seq(Channels)
        /\ ToSet(Append(queue[d], c)) = ToSet(queue[d]) \cup {c}
        /\ IsInjective(queue[d]) /\ c \notin ToSet(queue[d]) =>
               IsInjective(Append(queue[d], c))
    BY <1>1, AppendQueue
  <1>4. QueueOK'
    BY <1>1, <1>3 DEF QueueOK
  <1>5. /\ reader'[c].pc = "queued"
        /\ \A x \in Channels \ {c} : reader'[x] = reader[x]
    BY ReaderPc
  <1>6. ASSUME NEW n \in Nodes
        PROVE  /\ IsInjective(queue'[n])
               /\ \A x \in ToSet(queue'[n]) :
                      x[2] = n /\ reader'[x].pc = "queued"
    <2>1. /\ IsInjective(queue[n])
          /\ \A x \in ToSet(queue[n]) : x[2] = n /\ reader[x].pc = "queued"
      BY DEF QueueInv
    <2>2. ToSet(queue[n]) \subseteq Channels
      <3>1. queue[n] \in Seq(Channels)
        BY DEF QueueOK
      <3>2. QED
        BY <3>1, MessagesTyped
    <2>3. \A x \in ToSet(queue[n]) : x[2] = n /\ reader'[x].pc = "queued"
      BY <1>5, <2>1, <2>2
    <2>4. c \notin ToSet(queue[n])
      BY <2>1
    <2>5. CASE n = d
      BY <1>2, <1>3, <1>5, <2>1, <2>3, <2>4, <2>5
    <2>6. CASE n # d
      BY <1>2, <2>1, <2>3, <2>6
    <2>7. QED
      BY <2>5, <2>6
  <1>7. QED
    BY <1>4, <1>6 DEF QueueInv

\* The pool takes the first message of its queue.
LEMMA QueueTaken ==
    ASSUME QueueInv, QueueOK, ReaderOK, NEW n \in Nodes, queue[n] # <<>>,
           NEW p \in {"begin", "frames"},
           queue' = [queue EXCEPT ![n] = Tail(@)],
           reader' = [reader EXCEPT ![Head(queue[n])].pc = p]
    PROVE  /\ QueueInv' /\ QueueOK'
           /\ Head(queue[n]) \in Channels
           /\ Head(queue[n])[2] = n
           /\ reader[Head(queue[n])].pc = "queued"
  <1> DEFINE c == Head(queue[n])
  <1>1. queue[n] \in Seq(Channels)
    BY DEF QueueOK
  <1>2. /\ c \in Channels /\ c \in ToSet(queue[n])
        /\ Tail(queue[n]) \in Seq(Channels)
        /\ ToSet(queue[n]) = ToSet(Tail(queue[n])) \cup {c}
        /\ IsInjective(queue[n]) => /\ IsInjective(Tail(queue[n]))
                                    /\ c \notin ToSet(Tail(queue[n]))
    BY <1>1, TailQueue
  <1>3. /\ queue'[n] = Tail(queue[n])
        /\ \A o \in Nodes \ {n} : queue'[o] = queue[o]
        /\ QueueOK'
    BY <1>2 DEF QueueOK
  <1>4. /\ IsInjective(queue[n])
        /\ \A x \in ToSet(queue[n]) : x[2] = n /\ reader[x].pc = "queued"
    BY DEF QueueInv
  <1>5. \A x \in Channels \ {c} : reader'[x] = reader[x]
    BY <1>2, ReaderPc
  <1>6. ASSUME NEW o \in Nodes
        PROVE  /\ IsInjective(queue'[o])
               /\ \A x \in ToSet(queue'[o]) :
                      x[2] = o /\ reader'[x].pc = "queued"
    <2>1. /\ IsInjective(queue[o])
          /\ \A x \in ToSet(queue[o]) : x[2] = o /\ reader[x].pc = "queued"
      BY DEF QueueInv
    <2>2. ToSet(queue[o]) \subseteq Channels
      <3>1. queue[o] \in Seq(Channels)
        BY DEF QueueOK
      <3>2. QED
        BY <3>1, MessagesTyped
    <2>3. CASE o = n
      <3>1. /\ IsInjective(queue'[o])
            /\ ToSet(queue'[o]) \subseteq ToSet(queue[o]) \ {c}
        BY <1>2, <1>3, <1>4, <2>3
      <3>2. QED
        BY <1>5, <2>1, <2>2, <3>1
    <2>4. CASE o # n
      <3>1. c \notin ToSet(queue[o])
        BY <1>2, <1>4, <2>1, <2>4
      <3>2. QED
        BY <1>3, <1>5, <2>1, <2>2, <2>4, <3>1
    <2>5. QED
      BY <2>3, <2>4
  <1>7. QED
    BY <1>2, <1>3, <1>4, <1>6 DEF QueueInv

-----------------------------------------------------------------------------
(* The connections. *)

\* One more frame is written behind consecutive ones.
LEMMA ConsecutiveAppend ==
    ASSUME NEW S, NEW s \in Seq(S), NEW a \in Nat, NEW b \in Int,
           Consecutive(s, a, b), NEW v, v = b + 1
    PROVE  Consecutive(Append(s, v), a, v)
  <1>1. /\ Len(s) \in Nat /\ Len(s) = b + 1 - a
        /\ \A i \in 1 .. Len(s) : s[i] = a + i - 1
    BY DEF Consecutive
  <1>2. /\ Len(Append(s, v)) = Len(s) + 1
        /\ \A i \in 1 .. Len(s) : Append(s, v)[i] = s[i]
        /\ Append(s, v)[Len(s) + 1] = v
    OBVIOUS
  <1>3. Len(Append(s, v)) = v + 1 - a
    BY <1>1, <1>2
  <1>4. ASSUME NEW i \in 1 .. Len(s) + 1
        PROVE  Append(s, v)[i] = a + i - 1
    <2>1. CASE i \in 1 .. Len(s)
      BY <1>1, <1>2, <2>1
    <2>2. CASE i = Len(s) + 1
      BY <1>1, <1>2, <2>2
    <2>3. QED
      BY <1>1, <2>1, <2>2
  <1>5. QED
    BY <1>2, <1>3, <1>4 DEF Consecutive

\* The first of the consecutive frames is read.
LEMMA ConsecutiveTail ==
    ASSUME NEW S, NEW s \in Seq(S), NEW a \in Nat, NEW b \in Int,
           Consecutive(s, a, b), s # <<>>
    PROVE  /\ Head(s) = a /\ Consecutive(Tail(s), a + 1, b)
           /\ Head(s) \in S /\ Tail(s) \in Seq(S)
  <1>1. /\ Len(s) \in Nat \ {0} /\ Len(s) = b + 1 - a
        /\ \A i \in 1 .. Len(s) : s[i] = a + i - 1
    BY DEF Consecutive
  <1>2. /\ Len(Tail(s)) = Len(s) - 1
        /\ \A i \in 1 .. Len(s) - 1 : Tail(s)[i] = s[i + 1]
        /\ Head(s) = s[1]
        /\ Head(s) \in S /\ Tail(s) \in Seq(S)
    BY <1>1
  <1>3. Head(s) = a
    BY <1>1, <1>2
  <1>4. Len(Tail(s)) = b + 1 - (a + 1)
    BY <1>1, <1>2
  <1>5. ASSUME NEW i \in 1 .. Len(s) - 1
        PROVE  Tail(s)[i] = (a + 1) + i - 1
    <2>1. i + 1 \in 1 .. Len(s)
      BY <1>1
    <2>2. QED
      BY <1>1, <1>2, <2>1
  <1>6. QED
    BY <1>2, <1>3, <1>4, <1>5 DEF Consecutive

\* No frames at all.
LEMMA ConsecutiveEmpty ==
    ASSUME NEW a \in Nat, NEW b \in Int, Consecutive(<<>>, a, b)
    PROVE  a = b + 1
  BY DEF Consecutive

\* How far the sending task has come with a connection.
LEMMA WrittenFacts ==
    ASSUME SenderTypes, SendInv, NEW c \in Channels
    PROVE  /\ Written(c) \in Int
           /\ begun[c[1]] = 0 => Written(c) = -1
           /\ begun[c[1]] >= D(c[1]) /\ task[c[1]].pc = "done" =>
                  Written(c) = N(c[1])
           /\ begun[c[1]] >= D(c[1]) /\ task[c[1]].pc = "started" =>
                  Written(c) = 0
           /\ task[c[1]].frame \in 1 .. N(c[1]) + 1
           /\ task[c[1]].dest \in 1 .. D(c[1])
           /\ begun[c[1]] \in Nat
  <1> DEFINE m == c[1]
  <1>1. m \in Messages /\ Turn(c) \in 1 .. D(m) /\ D(m) \in Nat
        /\ N(m) \in Nat /\ begun[m] \in Nat
    BY ChannelFacts, MessageFacts DEF SenderTypes
  <1>2. SendOf(m)
    BY <1>1 DEF SendInv
  <1>3. /\ task[m].frame \in 1 .. N(m) + 1
        /\ task[m].dest \in 1 .. D(m)
    BY <1>2 DEF SendOf
  <1>4. begun[m] < Turn(c) => Written(c) = -1
    BY DEF Written
  <1>5. ~(begun[m] < Turn(c)) =>
            Written(c) = IF Turn(c) < task[m].dest THEN task[m].frame
                                                   ELSE task[m].frame - 1
    BY DEF Written
  <1>6. /\ task[m].pc = "done" => task[m].frame > N(m) /\ task[m].dest = 1
        /\ task[m].pc = "started" => task[m].frame = 1 /\ task[m].dest = 1
    BY <1>2 DEF SendOf
  <1>7. Written(c) \in Int
    BY <1>1, <1>3, <1>4, <1>5
  <1>8. begun[m] >= D(m) /\ task[m].pc = "done" => Written(c) = N(m)
    BY <1>1, <1>3, <1>5, <1>6
  <1>9. begun[m] >= D(m) /\ task[m].pc = "started" => Written(c) = 0
    BY <1>1, <1>3, <1>5, <1>6
  <1>10. QED
    BY <1>1, <1>3, <1>4, <1>7, <1>8, <1>9

\* What a receiving task waits for is a number.
LEMMA WantedFacts ==
    ASSUME ReaderOK, NEW c \in Channels
    PROVE  Wanted(c) \in Nat
  BY DEF Wanted, ReaderOK, ReaderRecords

\* Nothing happens to a connection or its two ends.
LEMMA TcpAlone ==
    ASSUME NEW x \in Channels, TcpOf(x),
           task'[x[1]] = task[x[1]], begun'[x[1]] = begun[x[1]],
           socket'[x] = socket[x], reader'[x] = reader[x],
           buffers'[x] = buffers[x]
    PROVE  TcpOf(x)'
  <1>1. Written(x)' = Written(x)
    BY DEF Written
  <1>2. Wanted(x)' = Wanted(x)
    BY DEF Wanted
  <1>3. QED
    BY <1>1, <1>2 DEF TcpOf

\* A step of the sending task that reader and frames do not see.
LEMMA TcpTaskMoves ==
    ASSUME NEW x \in Channels, TcpOf(x),
           reader'[x] = reader[x], buffers'[x] = buffers[x],
           socket'[x].data = socket[x].data,
           Written(x)' = Written(x) \/ reader[x].pc \in {"spin", "closed"},
           task'[x[1]].pc = "waiting" => reader[x].pc = "none",
           task'[x[1]].pc = "connect" /\ Turn(x) >= task'[x[1]].dest =>
               reader[x].pc = "none",
           task'[x[1]].pc \in {"started", "frames", "done"} =>
               begun'[x[1]] >= D(x[1]),
           socket'[x].state = "closed" =>
               task'[x[1]].pc \in {"done", "failed"},
           task[x[1]].pc = "failed" => task'[x[1]].pc = "failed"
    PROVE  TcpOf(x)'
  <1>1. Wanted(x)' = Wanted(x)
    BY DEF Wanted
  <1>2. Turn(x)' = Turn(x)
    BY DEF Turn
  <1>3. reader'[x].pc \notin {"spin", "closed"} =>
            Consecutive(socket[x].data, Wanted(x), Written(x))'
    BY <1>1 DEF TcpOf
  <1>4. QED
    BY <1>1, <1>2, <1>3 DEF TcpOf

\* A step of the receiving task that the sending task does not see.
LEMMA TcpReaderMoves ==
    ASSUME NEW x \in Channels, TcpOf(x),
           task'[x[1]] = task[x[1]], begun'[x[1]] = begun[x[1]],
           socket'[x].state = socket[x].state, reader[x].pc # "none",
           reader'[x].pc \in {"none", "queued", "begin"} =>
               reader'[x].next = 1,
           reader'[x].pc = "spin" => task[x[1]].pc = "failed",
           reader'[x].pc \notin {"spin", "closed"} =>
               Consecutive(socket'[x].data, Wanted(x)', Written(x)),
           \A k \in Frames(x[1]) : k < reader'[x].next => buffers'[x][k] = k
    PROVE  TcpOf(x)'
  <1>1. Written(x)' = Written(x)
    BY DEF Written
  <1>2. reader'[x].pc \notin {"spin", "closed"} =>
            Consecutive(socket[x].data, Wanted(x), Written(x))'
    BY <1>1 DEF Consecutive
  <1>3. QED
    BY <1>2 DEF TcpOf

\* What holds of the connections and of the receiving tasks.
TcpAll == \A c \in Channels : TcpOf(c)
Receiving == ReaderTypes /\ QueueInv /\ WholeInv

\* Nothing happens to the receiving tasks.
LEMMA ReceivingSame ==
    ASSUME Receiving, UNCHANGED <<queue, reader, buffers, delivered>>
    PROVE  Receiving'
  <1>1. QueueInv' /\ QueueOK'
    BY QueueSame DEF Receiving, ReaderTypes
  <1>2. ReaderOK' /\ BufferOK' /\ DeliveredOK' /\ WholeInv'
    BY DEF Receiving, ReaderTypes, ReaderOK, BufferOK, DeliveredOK, WholeInv
  <1>3. QED
    BY <1>1, <1>2 DEF Receiving, ReaderTypes

\* The task is pushed to the pool, waits for the metadata to be sent, or
\* fails to connect.
LEMMA TcpTaskPc ==
    ASSUME SenderTypes, SendInv, SocketTypes, TcpAll, NEW m \in Messages,
           NEW to,
           \/ task[m].pc = "waiting" /\ to = "connect"
           \/ task[m].pc = "started" /\ to = "frames"
           \/ task[m].pc = "connect" /\ to = "failed",
           task' = [task EXCEPT ![m].pc = to],
           UNCHANGED <<begun, socket, reader, buffers>>
    PROVE  SocketTypes' /\ TcpAll'
  <1>1. SocketTypes'
    BY DEF SocketTypes
  <1>2. /\ task'[m].pc = to /\ task'[m].dest = task[m].dest
        /\ task'[m].frame = task[m].frame
        /\ \A x \in Messages \ {m} : task'[x] = task[x]
    BY DEF SenderTypes, TaskRecords
  <1>3. ASSUME NEW x \in Channels PROVE TcpOf(x)'
    <2>1. x[1] \in Messages /\ TcpOf(x)
      BY ChannelFacts DEF TcpAll
    <2>2. CASE x[1] # m
      BY <1>2, <2>1, <2>2, TcpAlone
    <2>3. CASE x[1] = m
      <3>1. Written(x)' = Written(x)
        BY <1>2, <2>3 DEF Written
      <3>2. /\ task[m].pc = "waiting" => reader[x].pc = "none"
            /\ task[m].pc = "started" => begun[m] >= D(m)
            /\ socket[x].state = "closed" =>
                   task[m].pc \in {"done", "failed"}
        BY <2>1, <2>3 DEF TcpOf
      <3>3. QED
        BY <1>2, <2>1, <2>3, <3>1, <3>2, TcpTaskMoves
    <2>4. QED
      BY <2>2, <2>3
  <1>4. QED
    BY <1>1, <1>3 DEF TcpAll

\* What closing the sockets of a message does.
LEMMA ClosedSockets ==
    ASSUME SocketTypes, NEW m, socket' = CloseSockets(m)
    PROVE  /\ SocketTypes'
           /\ \A x \in Channels : socket'[x].data = socket[x].data
           /\ \A x \in Channels : x[1] # m => socket'[x] = socket[x]
  <1>1. \A x \in Channels :
            socket'[x] = IF x[1] = m /\ socket[x].state = "open"
                         THEN [socket[x] EXCEPT !.state = "closed"]
                         ELSE socket[x]
    BY DEF CloseSockets
  <1>2. \A x \in Channels : socket[x] \in SocketRecords
    BY DEF SocketTypes
  <1>3. ASSUME NEW x \in Channels
        PROVE  /\ socket'[x] \in SocketRecords
               /\ socket'[x].data = socket[x].data
    BY <1>1, <1>2 DEF SocketRecords
  <1>4. socket' \in [Channels -> SocketRecords]
    BY <1>3 DEF CloseSockets
  <1>5. QED
    BY <1>1, <1>3, <1>4 DEF SocketTypes

\* The destructor of the transport closes the sockets.
LEMMA TcpCloses ==
    ASSUME SenderTypes, SendInv, SocketTypes, TcpAll, NEW m \in Messages,
           task[m].pc = "frames", NEW to \in {"done", "failed"},
           task' = [task EXCEPT ![m].pc = to],
           socket' = CloseSockets(m),
           UNCHANGED <<begun, reader, buffers>>
    PROVE  SocketTypes' /\ TcpAll'
  <1>1. /\ SocketTypes'
        /\ \A x \in Channels : socket'[x].data = socket[x].data
        /\ \A x \in Channels : x[1] # m => socket'[x] = socket[x]
    BY ClosedSockets
  <1>2. /\ task'[m].pc = to /\ task'[m].dest = task[m].dest
        /\ task'[m].frame = task[m].frame
        /\ \A x \in Messages \ {m} : task'[x] = task[x]
    BY DEF SenderTypes, TaskRecords
  <1>3. ASSUME NEW x \in Channels PROVE TcpOf(x)'
    <2>1. x[1] \in Messages /\ TcpOf(x)
      BY ChannelFacts DEF TcpAll
    <2>2. CASE x[1] # m
      BY <1>1, <1>2, <2>1, <2>2, TcpAlone
    <2>3. CASE x[1] = m
      <3>1. Written(x)' = Written(x)
        BY <1>2, <2>3 DEF Written
      <3>2. begun[m] >= D(m)
        BY <2>1, <2>3 DEF TcpOf
      <3>3. QED
        BY <1>1, <1>2, <2>1, <2>3, <3>1, <3>2, TcpTaskMoves
    <2>4. QED
      BY <2>2, <2>3
  <1>4. QED
    BY <1>1, <1>3 DEF TcpAll

\* The connection to the next destination.
LEMMA TcpConnects ==
    ASSUME SenderTypes, SendInv, SocketTypes, TcpAll, Receiving,
           NEW m \in Messages, Connect(m)
    PROVE  SocketTypes' /\ TcpAll' /\ Receiving'
  <1> DEFINE c == Here(m)
             d == task[m].dest
  <1>1. /\ task[m].pc = "connect"
        /\ socket' = [socket EXCEPT ![c].state = "open"]
        /\ queue' = [queue EXCEPT ![c[2]] = Append(@, c)]
        /\ reader' = [reader EXCEPT ![c].pc = "queued"]
        /\ UNCHANGED <<begun, buffers, delivered>>
    BY DEF Connect
  <1>2. /\ task'[m].pc = IF LastDest(m) THEN "begin" ELSE "connect"
        /\ task'[m].dest = IF LastDest(m) THEN 1 ELSE d + 1
        /\ \A x \in Messages \ {m} : task'[x] = task[x]
    BY DEF Connect, SenderTypes, TaskRecords
  <1>3. /\ d \in 1 .. D(m) /\ begun[m] = 0
    <2>1. SendOf(m)
      BY DEF SendInv
    <2>2. QED
      BY <1>1, <2>1 DEF SendOf
  <1>4. c \in Channels /\ Turn(c) = d /\ c[1] = m
    BY <1>3, TurnFacts DEF Here
  <1> HIDE DEF c
  <1>5. reader[c].pc = "none" /\ reader[c].next = 1
    <2>1. TcpOf(c)
      BY <1>4 DEF TcpAll
    <2>2. d >= d
      BY <1>3
    <2>3. QED
      BY <1>1, <1>4, <2>1, <2>2 DEF TcpOf
  <1>6. /\ ReaderOK'
        /\ reader'[c].pc = "queued" /\ reader'[c].next = reader[c].next
        /\ \A x \in Channels \ {c} : reader'[x] = reader[x]
    BY <1>1, <1>4, ReaderPc DEF Receiving, ReaderTypes
  <1>7. QueueInv' /\ QueueOK'
    BY <1>1, <1>4, <1>5, QueueTold DEF Receiving, ReaderTypes
  <1>8. Receiving'
    <2>1. BufferOK' /\ DeliveredOK' /\ WholeInv'
      BY <1>1 DEF Receiving, ReaderTypes, BufferOK, DeliveredOK, WholeInv
    <2>2. QED
      BY <1>6, <1>7, <2>1 DEF Receiving, ReaderTypes
  <1>9. /\ socket'[c].state = "open" /\ socket'[c].data = socket[c].data
        /\ \A x \in Channels \ {c} : socket'[x] = socket[x]
        /\ socket' \in [Channels -> SocketRecords]
    BY <1>1, <1>4 DEF SocketTypes, SocketRecords
  <1>10. SocketTypes'
    BY <1>9 DEF SocketTypes
  <1>11. ASSUME NEW x \in Channels PROVE TcpOf(x)'
    <2>1. x[1] \in Messages /\ TcpOf(x)
      BY ChannelFacts DEF TcpAll
    <2>2. CASE x[1] # m
      BY <1>1, <1>2, <1>4, <1>6, <1>9, <2>1, <2>2, TcpAlone
    <2>3. CASE x[1] = m /\ x # c
      <3>1. Written(x)' = Written(x)
        BY <1>1, <1>3, <2>3, ChannelFacts DEF Written
      <3>2. /\ task'[m].pc = "connect" /\ Turn(x) >= task'[m].dest =>
                   reader[x].pc = "none"
            /\ socket[x].state # "closed"
        <4>1. /\ task[m].pc = "connect" /\ Turn(x) >= d =>
                     reader[x].pc = "none"
              /\ socket[x].state = "closed" =>
                     task[m].pc \in {"done", "failed"}
          BY <2>1, <2>3 DEF TcpOf
        <4>2. Turn(x) \in 1 .. D(m) /\ D(m) \in Nat
          BY <2>3, ChannelFacts, MessageFacts
        <4>3. QED
          BY <1>1, <1>2, <1>3, <4>1, <4>2
      <3>3. task'[m].pc \in {"begin", "connect"}
        BY <1>2
      <3>4. /\ reader'[x] = reader[x] /\ socket'[x] = socket[x]
            /\ buffers'[x] = buffers[x]
        BY <1>1, <1>6, <1>9, <2>3
      <3>5. QED
        BY <1>1, <2>1, <2>3, <3>1, <3>2, <3>3, <3>4, TcpTaskMoves
    <2>4. CASE x = c
      <3>1. Written(x)' = Written(x)
        BY <1>1, <1>3, <1>4, <2>4 DEF Written
      <3>2. Wanted(x)' = Wanted(x)
        BY <1>5, <1>6, <2>4 DEF Wanted
      <3>3. (Consecutive(socket[x].data, Wanted(x), Written(x)))'
        <4>1. Consecutive(socket[x].data, Wanted(x), Written(x))
          BY <1>5, <2>1, <2>4 DEF TcpOf
        <4>2. QED
          BY <1>9, <2>4, <3>1, <3>2, <4>1
      <3>4. ~(task'[m].pc = "connect" /\ Turn(x) >= task'[m].dest)
        BY <1>2, <1>3, <1>4, <2>4
      <3>5. Turn(x)' = Turn(x)
        BY DEF Turn
      <3>6. task'[m].pc \in {"begin", "connect"}
        BY <1>2
      <3>7. \A k \in Frames(m) : k < reader'[x].next => buffers'[x][k] = k
        BY <1>1, <1>4, <1>6, <2>1, <2>4 DEF TcpOf
      <3>8. QED
        BY <1>4, <1>5, <1>6, <1>9, <2>4, <3>3, <3>4, <3>5, <3>6, <3>7
        DEF TcpOf
    <2>5. QED
      BY <2>2, <2>3, <2>4
  <1>12. QED
    BY <1>8, <1>10, <1>11 DEF TcpAll

\* The destinations that have the metadata are the first ones.
LEMMA BegunTo ==
    ASSUME NEW m \in Messages, NEW j \in Nat, j <= D(m), NEW x \in Channels
    PROVE  x \in BeginTo(m, j) <=> x[1] = m /\ Turn(x) <= j
  <1>1. /\ D(m) \in Nat
        /\ \A a, b \in 1 .. D(m) :
               Destinations[m][a] = Destinations[m][b] => a = b
    BY MessageFacts
  <1>2. x[1] = m =>
            Turn(x) \in 1 .. D(m) /\ Destinations[m][Turn(x)] = x[2]
    BY ChannelFacts
  <1>3. ASSUME x[1] = m, NEW i \in 1 .. j, x[2] = Destinations[m][i]
        PROVE  Turn(x) <= j
    BY <1>1, <1>2, <1>3
  <1>4. ASSUME x[1] = m, Turn(x) <= j
        PROVE  \E i \in 1 .. j : x[2] = Destinations[m][i]
    BY <1>1, <1>2, <1>4
  <1>5. QED
    BY <1>3, <1>4 DEF BeginTo

\* Before the metadata are sent a connection is empty and nothing is read.
LEMMA NothingBegun ==
    ASSUME SenderTypes, SendInv, SocketTypes, ReaderOK, TcpAll,
           NEW x \in Channels, task[x[1]].pc = "begin"
    PROVE  /\ Written(x) = -1
           /\ reader[x].pc \notin {"spin", "closed"} =>
                  Wanted(x) = 0 /\ Consecutive(socket[x].data, 0, -1)
  <1>1. x[1] \in Messages /\ TcpOf(x)
    BY ChannelFacts DEF TcpAll
  <1>2. begun[x[1]] = 0
    BY <1>1 DEF SendInv, SendOf
  <1>3. Written(x) = -1
    BY <1>2, WrittenFacts
  <1>4. ASSUME reader[x].pc \notin {"spin", "closed"}
        PROVE  Wanted(x) = 0 /\ Consecutive(socket[x].data, 0, -1)
    <2>1. Consecutive(socket[x].data, Wanted(x), -1)
      BY <1>1, <1>3, <1>4 DEF TcpOf
    <2>2. Wanted(x) \in Nat /\ Len(socket[x].data) \in Nat
      BY WantedFacts DEF SocketTypes
    <2>3. Len(socket[x].data) = -1 + 1 - Wanted(x)
      BY <2>1 DEF Consecutive
    <2>4. Wanted(x) = 0
      BY <2>2, <2>3
    <2>5. QED
      BY <2>1, <2>4
  <1>5. QED
    BY <1>3, <1>4

\* The metadata are the first bytes in each connection.
LEMMA TcpBegins ==
    ASSUME SenderTypes, SendInv, SocketTypes, ReaderOK, TcpAll,
           NEW m \in Messages, TcpSendBegin(m), SenderTypes', SendInv'
    PROVE  SocketTypes' /\ TcpAll'
  <1>1. /\ task[m].pc = "begin"
        /\ begun' = [begun EXCEPT ![m] = D(m)]
        /\ UNCHANGED <<reader, buffers>>
        /\ \A x \in Channels :
               socket'[x] = IF x[1] = m
                            THEN [socket[x] EXCEPT !.data = <<0>>]
                            ELSE socket[x]
    <2>1. D(m) \in Nat /\ D(m) <= D(m)
      BY MessageFacts
    <2>2. \A x \in Channels : x \in BeginTo(m, D(m)) <=> x[1] = m
      BY <2>1, BegunTo, ChannelFacts
    <2>3. QED
      BY <2>2 DEF TcpSendBegin, D, readerVars
  <1>2. /\ task'[m].pc = "started" /\ begun'[m] = D(m)
        /\ \A x \in Messages \ {m} :
               task'[x] = task[x] /\ begun'[x] = begun[x]
    BY <1>1 DEF TcpSendBegin, SenderTypes, TaskRecords
  <1>4. ASSUME NEW x \in Channels
        PROVE  /\ socket'[x] \in SocketRecords
               /\ socket'[x].data \in Seq(0 .. N(x[1]))
               /\ socket'[x].state = socket[x].state
               /\ x[1] = m => socket'[x].data = <<0>>
               /\ x[1] # m => socket'[x] = socket[x]
    <2>1. socket[x] \in SocketRecords /\ socket[x].data \in Seq(0 .. N(x[1]))
      BY DEF SocketTypes
    <2>2. <<0>> \in Seq(0 .. N(x[1])) /\ <<0>> \in Seq(Nat)
      BY ChannelFacts, MessageFacts
    <2>3. CASE x[1] = m
      BY <1>1, <2>1, <2>2, <2>3 DEF SocketRecords
    <2>4. CASE x[1] # m
      BY <1>1, <2>1, <2>4
    <2>5. QED
      BY <2>3, <2>4
  <1>5. SocketTypes'
    <2>1. socket' \in [Channels -> SocketRecords]
      BY <1>4 DEF TcpSendBegin
    <2>2. QED
      BY <1>4, <2>1 DEF SocketTypes
  <1>6. ASSUME NEW x \in Channels PROVE TcpOf(x)'
    <2>1. x[1] \in Messages /\ TcpOf(x)
      BY ChannelFacts DEF TcpAll
    <2>2. CASE x[1] # m
      BY <1>1, <1>2, <1>4, <2>1, <2>2, TcpAlone
    <2>3. CASE x[1] = m
      <3>1. D(m) \in Nat \ {0} /\ begun'[m] >= D(m)
        BY <1>2, MessageFacts
      <3>2. reader[x].pc \notin {"spin", "closed"} => Wanted(x) = 0
        BY <1>1, <2>3, NothingBegun
      <3>3. Written(x)' = 0
        <4>1. SendOf(m)'
          BY DEF SendInv
        <4>2. task'[m].frame = 1 /\ task'[m].dest = 1
          BY <1>2, <4>1 DEF SendOf
        <4>3. ~(Turn(x) < 1) /\ Turn(x)' = Turn(x)
          <5>1. Turn(x) \in 1 .. D(m)
            BY <2>3, ChannelFacts
          <5>2. Turn(x)' = Turn(x)
            BY DEF Turn
          <5>3. QED
            BY <3>1, <5>1, <5>2
        <4>4. ~(begun'[m] < Turn(x))
          <5>1. Turn(x) \in 1 .. D(m)
            BY <2>3, ChannelFacts
          <5>2. QED
            BY <1>2, <3>1, <5>1
        <4>5. Written(x)' = task'[m].frame - 1
          BY <2>3, <4>2, <4>3, <4>4 DEF Written
        <4>6. QED
          BY <4>2, <4>5
      <3>4. reader[x].pc \notin {"spin", "closed"} =>
                Consecutive(socket[x].data, Wanted(x), Written(x))'
        <4>1. Wanted(x)' = Wanted(x)
          BY <1>1 DEF Wanted
        <4>2. Consecutive(<<0>>, 0, 0)
          BY DEF Consecutive
        <4>3. QED
          BY <1>4, <2>3, <3>2, <3>3, <4>1, <4>2
      <3>5. /\ socket[x].state = "closed" =>
                   task[m].pc \in {"done", "failed"}
            /\ reader[x].pc = "spin" => task[m].pc = "failed"
            /\ reader[x].pc \in {"none", "queued", "begin"} =>
                   reader[x].next = 1
            /\ \A k \in Frames(m) : k < reader[x].next => buffers[x][k] = k
        BY <2>1, <2>3 DEF TcpOf
      <3>6. QED
        BY <1>1, <1>2, <1>4, <2>3, <3>1, <3>4, <3>5 DEF TcpOf
    <2>4. QED
      BY <2>2, <2>3
  <1>7. QED
    BY <1>5, <1>6 DEF TcpAll

\* A write of the metadata fails: the first destinations have them.
LEMMA TcpBeginFails ==
    ASSUME SenderTypes, SendInv, SocketTypes, ReaderOK, TcpAll,
           NEW m \in Messages, task[m].pc = "begin",
           NEW j \in 0 .. D(m) - 1,
           begun' = [begun EXCEPT ![m] = j],
           socket' = [c \in Channels |->
                         IF c \in BeginTo(m, j)
                         THEN [CloseSockets(m)[c] EXCEPT !.data = << 0 >>]
                         ELSE CloseSockets(m)[c]],
           task' = [task EXCEPT ![m].pc = "failed"],
           UNCHANGED <<reader, buffers>>
    PROVE  SocketTypes' /\ TcpAll'
  <1>1. /\ task'[m].pc = "failed" /\ task'[m].dest = task[m].dest
        /\ task'[m].frame = task[m].frame /\ begun'[m] = j
        /\ \A x \in Messages \ {m} :
               task'[x] = task[x] /\ begun'[x] = begun[x]
    BY DEF SenderTypes, TaskRecords
  <1>2. task[m].dest = 1 /\ task[m].frame = 1
    BY DEF SendInv, SendOf
  <1>3. j \in Nat /\ j <= D(m) /\ D(m) \in Nat
    BY MessageFacts
  <1>4. ASSUME NEW x \in Channels
        PROVE  /\ CloseSockets(m)[x] \in SocketRecords
               /\ CloseSockets(m)[x].data = socket[x].data
               /\ x[1] # m => CloseSockets(m)[x] = socket[x]
    <2>1. socket[x] \in SocketRecords
      BY DEF SocketTypes
    <2>2. CloseSockets(m)[x] = IF x[1] = m /\ socket[x].state = "open"
                               THEN [socket[x] EXCEPT !.state = "closed"]
                               ELSE socket[x]
      BY DEF CloseSockets
    <2>3. QED
      BY <2>1, <2>2 DEF SocketRecords
  <1>5. ASSUME NEW x \in Channels
        PROVE  /\ socket'[x] \in SocketRecords
               /\ socket'[x].data \in Seq(0 .. N(x[1]))
               /\ x[1] # m => socket'[x] = socket[x]
               /\ x[1] = m => socket'[x].data = IF Turn(x) <= j THEN <<0>>
                                                ELSE socket[x].data
    <2>1. socket[x] \in SocketRecords /\ socket[x].data \in Seq(0 .. N(x[1]))
      BY DEF SocketTypes
    <2>2. <<0>> \in Seq(0 .. N(x[1])) /\ <<0>> \in Seq(Nat)
      BY ChannelFacts, MessageFacts
    <2>3. x \in BeginTo(m, j) <=> x[1] = m /\ Turn(x) <= j
      BY <1>3, BegunTo
    <2>4. CASE x \in BeginTo(m, j)
      <3>1. socket'[x] = [CloseSockets(m)[x] EXCEPT !.data = <<0>>]
        BY <2>4
      <3>2. QED
        BY <1>4, <2>2, <2>3, <2>4, <3>1 DEF SocketRecords
    <2>5. CASE x \notin BeginTo(m, j)
      <3>1. socket'[x] = CloseSockets(m)[x]
        BY <2>5
      <3>2. QED
        BY <1>4, <2>1, <2>3, <2>5, <3>1
    <2>6. QED
      BY <2>4, <2>5
  <1>6. SocketTypes'
    <2>1. socket' \in [Channels -> SocketRecords]
      BY <1>5
    <2>2. QED
      BY <1>5, <2>1 DEF SocketTypes
  <1>7. ASSUME NEW x \in Channels PROVE TcpOf(x)'
    <2>1. x[1] \in Messages /\ TcpOf(x)
      BY ChannelFacts DEF TcpAll
    <2>2. CASE x[1] # m
      BY <1>1, <1>5, <2>1, <2>2, TcpAlone
    <2>3. CASE x[1] = m
      <3>1. Turn(x) \in 1 .. D(m) /\ Turn(x)' = Turn(x)
        <4>1. Turn(x)' = Turn(x)
          BY DEF Turn
        <4>2. QED
          BY <2>3, <4>1, ChannelFacts
      <3>2. Written(x)' = IF j < Turn(x) THEN -1 ELSE 0
        BY <1>1, <1>2, <1>3, <2>3, <3>1 DEF Written
      <3>3. Wanted(x)' = Wanted(x)
        BY DEF Wanted
      <3>4. reader[x].pc \notin {"spin", "closed"} =>
                Consecutive(socket'[x].data, Wanted(x), Written(x)')
        <4>1. SUFFICES ASSUME reader[x].pc \notin {"spin", "closed"}
                       PROVE  Consecutive(socket'[x].data, Wanted(x),
                                          Written(x)')
          OBVIOUS
        <4>2. Wanted(x) = 0 /\ Consecutive(socket[x].data, 0, -1)
          BY <2>3, <4>1, NothingBegun
        <4>3. CASE j < Turn(x)
          <5>1. ~(Turn(x) <= j)
            BY <1>3, <3>1, <4>3
          <5>2. socket'[x].data = socket[x].data /\ Written(x)' = -1
            BY <1>5, <2>3, <3>2, <4>3, <5>1
          <5>3. QED
            BY <4>2, <5>2
        <4>4. CASE ~(j < Turn(x))
          <5>1. Turn(x) <= j
            BY <1>3, <3>1, <4>4
          <5>2. socket'[x].data = <<0>> /\ Written(x)' = 0
            BY <1>5, <2>3, <3>2, <4>4, <5>1
          <5>3. Consecutive(<<0>>, 0, 0)
            BY DEF Consecutive
          <5>4. QED
            BY <4>2, <5>2, <5>3
        <4>5. QED
          BY <4>3, <4>4
      <3>5. /\ reader[x].pc \in {"none", "queued", "begin"} =>
                   reader[x].next = 1
            /\ \A k \in Frames(m) : k < reader[x].next => buffers[x][k] = k
        BY <2>1, <2>3 DEF TcpOf
      <3>6. reader[x].pc \notin {"spin", "closed"} =>
                Consecutive(socket[x].data, Wanted(x), Written(x))'
        BY <3>3, <3>4
      <3>7. QED
        BY <1>1, <2>3, <3>1, <3>5, <3>6 DEF TcpOf
    <2>4. QED
      BY <2>2, <2>3
  <1>8. QED
    BY <1>6, <1>7 DEF TcpAll

\* After a write the task stands at the next connection.
LEMMA WrittenAdvances ==
    ASSUME SenderTypes, SendInv, NEW m \in Messages,
           task[m].pc = "frames", begun[m] >= D(m), Advance(m),
           begun' = begun,
           NEW x \in Channels, x[1] = m
    PROVE  /\ Turn(x) # task[m].dest => Written(x)' = Written(x)
           /\ Turn(x) = task[m].dest =>
                  /\ Written(x) = task[m].frame - 1
                  /\ Written(x)' = task[m].frame
  <1> DEFINE d == task[m].dest
             f == task[m].frame
  <1>1. /\ task'[m].dest = IF LastDest(m) THEN 1 ELSE d + 1
        /\ task'[m].frame = IF LastDest(m) THEN f + 1 ELSE f
    BY DEF SenderTypes, TaskRecords, Advance
  <1>2. d \in 1 .. D(m) /\ f \in 1 .. N(m) + 1
    BY DEF SendInv, SendOf
  <1>3. Turn(x) \in 1 .. D(m) /\ D(m) \in Nat /\ N(m) \in Nat
    BY ChannelFacts, MessageFacts
  <1>4. LastDest(m) <=> d = D(m)
    BY DEF LastDest, D
  <1>5. ~(begun[m] < Turn(x))
    BY <1>3 DEF SenderTypes
  <1>6. Written(x) = IF Turn(x) < d THEN f ELSE f - 1
    BY <1>5 DEF Written
  <1>7. Written(x)' = IF Turn(x) < task'[m].dest THEN task'[m].frame
                                                 ELSE task'[m].frame - 1
    <2>1. Turn(x)' = Turn(x)
      BY DEF Turn
    <2>2. QED
      BY <1>5, <2>1 DEF Written
  <1> HIDE DEF d, f
  <1>8. Turn(x) # d => Written(x)' = Written(x)
    BY <1>1, <1>2, <1>3, <1>4, <1>6, <1>7
  <1>9. Turn(x) = d => Written(x) = f - 1 /\ Written(x)' = f
    BY <1>1, <1>2, <1>3, <1>4, <1>6, <1>7
  <1>10. QED
    BY <1>8, <1>9 DEF d, f

\* A buffer goes to a connection, or is lost in one that was closed.
LEMMA TcpWrites ==
    ASSUME SenderTypes, SendInv, SocketTypes, ReaderOK, TcpAll,
           NEW m \in Messages, task[m].pc = "frames",
           task[m].frame <= N(m), Advance(m),
           UNCHANGED <<begun, reader, buffers>>,
           \/ socket' = [socket EXCEPT ![Here(m)].data =
                            Append(@, task[m].frame)]
           \/ reader[Here(m)].pc = "closed" /\ socket' = socket
    PROVE  SocketTypes' /\ TcpAll'
  <1>1. task[m].dest \in 1 .. D(m) /\ task[m].frame \in 1 .. N(m) + 1
    BY DEF SendInv, SendOf
  <1>2. PICK c : c = Here(m)
    OBVIOUS
  <1>3. c \in Channels /\ Turn(c) = task[m].dest /\ c[1] = m
    BY <1>1, <1>2, TurnFacts DEF Here
  <1>4. task[m].frame \in 0 .. N(m) /\ N(m) \in Nat /\ task[m].frame \in Nat
    BY <1>1, MessageFacts
  <1>5. socket[c] \in SocketRecords /\ socket[c].data \in Seq(0 .. N(m))
        /\ socket[c].data \in Seq(Nat)
    BY <1>3 DEF SocketTypes, SocketRecords
  <1>6. /\ Append(socket[c].data, task[m].frame) \in Seq(0 .. N(m))
        /\ Append(socket[c].data, task[m].frame) \in Seq(Nat)
    BY <1>4, <1>5
  <1>7. /\ socket' \in [Channels -> SocketRecords]
        /\ socket'[c].state = socket[c].state
        /\ \/ socket'[c].data = Append(socket[c].data, task[m].frame)
           \/ reader[c].pc = "closed" /\ socket'[c].data = socket[c].data
        /\ \A x \in Channels \ {c} : socket'[x] = socket[x]
    <2>1. CASE socket' = [socket EXCEPT ![c].data =
                              Append(@, task[m].frame)]
      BY <1>3, <1>6, <2>1 DEF SocketTypes, SocketRecords
    <2>2. CASE reader[c].pc = "closed" /\ socket' = socket
      BY <2>2 DEF SocketTypes
    <2>3. QED
      BY <1>2, <2>1, <2>2
  <1>8. SocketTypes'
    <2>1. socket'[c].data \in Seq(0 .. N(m))
      BY <1>5, <1>6, <1>7
    <2>2. \A x \in Channels : socket'[x].data \in Seq(0 .. N(x[1]))
      BY <1>3, <1>7, <2>1 DEF SocketTypes
    <2>3. QED
      BY <1>7, <2>2 DEF SocketTypes
  <1>9. /\ task'[m].pc = "frames"
        /\ \A x \in Messages \ {m} : task'[x] = task[x]
    BY DEF SenderTypes, TaskRecords, Advance
  <1>10. begun[m] >= D(m)
    BY <1>3 DEF TcpAll, TcpOf
  <1>11. ASSUME NEW x \in Channels PROVE TcpOf(x)'
    <2>1. x[1] \in Messages /\ TcpOf(x)
      BY ChannelFacts DEF TcpAll
    <2>2. CASE x[1] # m
      BY <1>3, <1>7, <1>9, <2>1, <2>2, TcpAlone
    <2>3. CASE x[1] = m /\ x # c
      <3>1. Turn(x) # task[m].dest
        BY <1>1, <1>2, <2>3, TurnFacts DEF Here
      <3>2. Written(x)' = Written(x)
        BY <1>10, <2>3, <3>1, WrittenAdvances
      <3>3. socket[x].state # "closed" /\ socket'[x] = socket[x]
        BY <1>7, <2>1, <2>3 DEF TcpOf
      <3>4. QED
        BY <1>9, <1>10, <2>1, <2>3, <3>2, <3>3, TcpTaskMoves
    <2>4. CASE x = c /\ reader[c].pc \in {"spin", "closed"}
      <3>1. Written(x)' = Written(x) \/ reader[x].pc \in {"spin", "closed"}
        BY <2>4
      <3>2. /\ socket'[x].state # "closed"
            /\ reader[x].pc # "spin"
            /\ reader[x].pc \in {"none", "queued", "begin"} =>
                   reader[x].next = 1
            /\ \A k \in Frames(m) : k < reader[x].next => buffers[x][k] = k
        BY <1>3, <1>7, <2>1, <2>4 DEF TcpOf
      <3>3. QED
        BY <1>3, <1>9, <1>10, <2>4, <3>2 DEF TcpOf
    <2>5. CASE x = c /\ reader[c].pc \notin {"spin", "closed"}
      <3>1. /\ Written(x) = task[m].frame - 1
            /\ Written(x)' = task[m].frame
        BY <1>3, <1>10, <2>5, WrittenAdvances
      <3>2. socket'[x].data = Append(socket[x].data, task[m].frame)
        BY <1>7, <2>5
      <3>3. Wanted(x)' = Wanted(x) /\ Wanted(x) \in Nat
        <4>1. Wanted(x)' = Wanted(x)
          BY DEF Wanted
        <4>2. QED
          BY <4>1, WantedFacts
      <3>4. Consecutive(socket[x].data, Wanted(x), Written(x))
        BY <2>1, <2>5 DEF TcpOf
      <3>5. Consecutive(socket'[x].data, Wanted(x), task[m].frame)
        <4>1. Written(x) \in Int /\ task[m].frame = Written(x) + 1
          BY <1>4, <3>1
        <4>2. socket[x].data \in Seq(Nat)
          BY <1>5, <2>5
        <4>3. QED
          BY <3>2, <3>3, <3>4, <4>1, <4>2, ConsecutiveAppend
      <3>6. Consecutive(socket[x].data, Wanted(x), Written(x))'
        BY <3>1, <3>3, <3>5
      <3>7. /\ socket'[x].state # "closed"
            /\ reader[x].pc \in {"none", "queued", "begin"} =>
                   reader[x].next = 1
            /\ \A k \in Frames(m) : k < reader[x].next => buffers[x][k] = k
        BY <1>3, <1>7, <2>1, <2>5 DEF TcpOf
      <3>8. QED
        BY <1>3, <1>9, <1>10, <2>5, <3>6, <3>7 DEF TcpOf
    <2>6. QED
      BY <2>2, <2>3, <2>4, <2>5
  <1>12. QED
    BY <1>8, <1>11 DEF TcpAll

\* A step of the receiving task of c leaves the others alone.
LEMMA TcpReaderStep ==
    ASSUME TcpAll, NEW c \in Channels,
           UNCHANGED <<task, begun>>,
           \A x \in Channels \ {c} : /\ reader'[x] = reader[x]
                                     /\ buffers'[x] = buffers[x]
                                     /\ socket'[x] = socket[x],
           TcpOf(c)'
    PROVE  TcpAll'
  <1>1. ASSUME NEW x \in Channels \ {c} PROVE TcpOf(x)'
    <2>1. TcpOf(x)
      BY DEF TcpAll
    <2>2. QED
      BY <2>1, TcpAlone
  <1>2. QED
    BY <1>1 DEF TcpAll

\* The pool takes a connection.
LEMMA TcpStarts ==
    ASSUME SocketTypes, TcpAll, Receiving, protocol = "tcp",
           NEW n \in Nodes, StartReceive(n)
    PROVE  SocketTypes' /\ TcpAll' /\ Receiving'
  <1>1. PICK c : c = Head(queue[n])
    OBVIOUS
  <1>2. /\ queue[n] # <<>>
        /\ reader' = [reader EXCEPT ![c].pc = "begin"]
        /\ queue' = [queue EXCEPT ![n] = Tail(@)]
        /\ UNCHANGED <<task, begun, socket, buffers, delivered>>
    BY <1>1 DEF StartReceive, senderVars, tcpVars
  <1>3. ReaderOK /\ QueueOK /\ QueueInv
    BY DEF Receiving, ReaderTypes
  <1>4. QueueInv' /\ QueueOK' /\ c \in Channels /\ reader[c].pc = "queued"
    BY <1>1, <1>2, <1>3, QueueTaken
  <1>5. /\ ReaderOK'
        /\ reader'[c].pc = "begin" /\ reader'[c].next = reader[c].next
        /\ \A x \in Channels \ {c} : reader'[x] = reader[x]
    BY <1>2, <1>3, <1>4, ReaderPc
  <1>6. Receiving'
    <2>1. BufferOK' /\ DeliveredOK' /\ WholeInv'
      BY <1>2 DEF Receiving, ReaderTypes, BufferOK, DeliveredOK, WholeInv
    <2>2. QED
      BY <1>4, <1>5, <2>1 DEF Receiving, ReaderTypes
  <1>7. TcpOf(c)'
    <2>1. TcpOf(c)
      BY <1>4 DEF TcpAll
    <2>2. /\ reader[c].next = 1
          /\ Consecutive(socket[c].data, Wanted(c), Written(c))
          /\ \A k \in Frames(c[1]) : k < reader[c].next => buffers[c][k] = k
      BY <1>4, <2>1 DEF TcpOf
    <2>3. Wanted(c)' = Wanted(c)
      BY <1>4, <1>5 DEF Wanted
    <2>4. QED
      BY <1>2, <1>4, <1>5, <2>1, <2>2, <2>3, TcpReaderMoves
  <1>8. TcpAll'
    BY <1>2, <1>4, <1>5, <1>7, TcpReaderStep
  <1>9. SocketTypes'
    BY <1>2 DEF SocketTypes
  <1>10. QED
    BY <1>6, <1>8, <1>9

\* A receiving task takes a frame from its connection.
LEMMA SocketRead ==
    ASSUME SocketTypes, NEW c \in Channels, socket[c].data # <<>>,
           socket' = [socket EXCEPT ![c].data = Tail(@)]
    PROVE  /\ SocketTypes'
           /\ socket'[c].state = socket[c].state
           /\ socket'[c].data = Tail(socket[c].data)
           /\ Head(socket[c].data) \in 0 .. N(c[1])
           /\ \A x \in Channels \ {c} : socket'[x] = socket[x]
  <1>1. /\ socket[c] \in SocketRecords /\ socket[c].data \in Seq(Nat)
        /\ socket[c].data \in Seq(0 .. N(c[1]))
    BY DEF SocketTypes, SocketRecords
  <1>2. /\ Tail(socket[c].data) \in Seq(Nat)
        /\ Tail(socket[c].data) \in Seq(0 .. N(c[1]))
        /\ Head(socket[c].data) \in 0 .. N(c[1])
    BY <1>1, TailQueue
  <1>3. /\ socket' \in [Channels -> SocketRecords]
        /\ socket'[c].state = socket[c].state
        /\ socket'[c].data = Tail(socket[c].data)
        /\ \A x \in Channels \ {c} : socket'[x] = socket[x]
    BY <1>2 DEF SocketTypes, SocketRecords
  <1>4. \A x \in Channels : socket'[x].data \in Seq(0 .. N(x[1]))
    BY <1>2, <1>3 DEF SocketTypes
  <1>5. QED
    BY <1>2, <1>3, <1>4 DEF SocketTypes

\* The metadata are read.
LEMMA TcpReadsBegin ==
    ASSUME SenderTypes, SendInv, SocketTypes, TcpAll, Receiving,
           NEW c \in Channels, TcpReadBegin(c)
    PROVE  SocketTypes' /\ TcpAll' /\ Receiving'
  <1>1. /\ reader[c].pc = "begin" /\ socket[c].data # <<>>
        /\ socket' = [socket EXCEPT ![c].data = Tail(@)]
        /\ reader' = [reader EXCEPT ![c].pc = "frames"]
        /\ UNCHANGED <<task, begun, queue, buffers, delivered>>
    BY DEF TcpReadBegin, senderVars
  <1>2. /\ ReaderOK' /\ reader'[c].pc = "frames"
        /\ reader'[c].next = reader[c].next
        /\ \A x \in Channels \ {c} : reader'[x] = reader[x]
    BY <1>1, ReaderPc DEF Receiving, ReaderTypes
  <1>3. QueueInv' /\ QueueOK'
    BY <1>1, <1>2, QueueSame DEF Receiving, ReaderTypes
  <1>4. Receiving'
    <2>1. BufferOK' /\ DeliveredOK' /\ WholeInv'
      BY <1>1 DEF Receiving, ReaderTypes, BufferOK, DeliveredOK, WholeInv
    <2>2. QED
      BY <1>2, <1>3, <2>1 DEF Receiving, ReaderTypes
  <1>5. /\ SocketTypes' /\ socket'[c].state = socket[c].state
        /\ socket'[c].data = Tail(socket[c].data)
        /\ \A x \in Channels \ {c} : socket'[x] = socket[x]
    BY <1>1, SocketRead
  <1>6. TcpOf(c)'
    <2>1. TcpOf(c)
      BY DEF TcpAll
    <2>2. /\ reader[c].next = 1
          /\ Consecutive(socket[c].data, Wanted(c), Written(c))
          /\ \A k \in Frames(c[1]) : k < reader[c].next => buffers[c][k] = k
      BY <1>1, <2>1 DEF TcpOf
    <2>3. Wanted(c) = 0 /\ Wanted(c)' = 1
      BY <1>1, <1>2, <2>2 DEF Wanted
    <2>4. Written(c) \in Int /\ socket[c].data \in Seq(Nat)
      BY WrittenFacts DEF SocketTypes, SocketRecords
    <2>5. Consecutive(Tail(socket[c].data), Wanted(c) + 1, Written(c))
      <3>1. Wanted(c) \in Nat
        BY <2>3
      <3>2. QED
        BY <1>1, <2>2, <2>4, <3>1, ConsecutiveTail
    <2>6. Consecutive(socket'[c].data, Wanted(c)', Written(c))
      BY <1>5, <2>3, <2>5
    <2>7. QED
      BY <1>1, <1>2, <1>5, <2>1, <2>2, <2>6, TcpReaderMoves
  <1>7. TcpAll'
    BY <1>1, <1>2, <1>5, <1>6, TcpReaderStep
  <1>8. QED
    BY <1>4, <1>5, <1>7

\* A buffer is read.
LEMMA TcpReadsFrame ==
    ASSUME SenderTypes, SendInv, SocketTypes, TcpAll, Receiving,
           NEW c \in Channels, TcpReadFrame(c)
    PROVE  SocketTypes' /\ TcpAll' /\ Receiving'
  <1> DEFINE k == reader[c].next
  <1>1. /\ reader[c].pc = "frames" /\ socket[c].data # <<>> /\ ~AllRead(c)
        /\ buffers' = [buffers EXCEPT ![c][k] = Head(socket[c].data)]
        /\ socket' = [socket EXCEPT ![c].data = Tail(@)]
        /\ reader' = [reader EXCEPT ![c].next = @ + 1]
        /\ UNCHANGED <<task, begun, queue, delivered>>
    BY DEF TcpReadFrame, senderVars
  <1>2. ReaderOK /\ BufferOK /\ QueueOK /\ QueueInv
    BY DEF Receiving, ReaderTypes
  <1>3. /\ ReaderOK' /\ k \in Frames(c[1])
        /\ reader'[c].pc = "frames" /\ reader'[c].next = k + 1
        /\ \A x \in Channels \ {c} : reader'[x] = reader[x]
    BY <1>1, <1>2, ReaderAdvances
  <1>4. QueueInv' /\ QueueOK'
    BY <1>1, <1>2, <1>3, QueueSame
  <1>5. /\ SocketTypes' /\ socket'[c].state = socket[c].state
        /\ socket'[c].data = Tail(socket[c].data)
        /\ Head(socket[c].data) \in 0 .. N(c[1])
        /\ \A x \in Channels \ {c} : socket'[x] = socket[x]
    BY <1>1, SocketRead
  <1>6. /\ BufferOK'
        /\ buffers'[c][k] = Head(socket[c].data)
        /\ \A j \in Frames(c[1]) \ {k} : buffers'[c][j] = buffers[c][j]
        /\ \A x \in Channels \ {c} : buffers'[x] = buffers[x]
    BY <1>1, <1>2, <1>3, <1>5, BufferFilled
  <1>7. Receiving'
    <2>1. DeliveredOK' /\ WholeInv'
      BY <1>1 DEF Receiving, ReaderTypes, DeliveredOK, WholeInv
    <2>2. QED
      BY <1>3, <1>4, <1>6, <2>1 DEF Receiving, ReaderTypes
  <1>8. TcpOf(c)'
    <2>1. TcpOf(c)
      BY DEF TcpAll
    <2>2. /\ Consecutive(socket[c].data, Wanted(c), Written(c))
          /\ \A j \in Frames(c[1]) : j < k => buffers[c][j] = j
      BY <1>1, <2>1 DEF TcpOf
    <2>3. Wanted(c) = k /\ Wanted(c)' = k + 1 /\ k \in Nat
      BY <1>1, <1>2, <1>3 DEF Wanted, ReaderOK, ReaderRecords
    <2>4. Written(c) \in Int /\ socket[c].data \in Seq(Nat)
      BY WrittenFacts DEF SocketTypes, SocketRecords
    <2>5. /\ Head(socket[c].data) = k
          /\ Consecutive(Tail(socket[c].data), k + 1, Written(c))
      BY <1>1, <2>2, <2>3, <2>4, ConsecutiveTail
    <2>6. Consecutive(socket'[c].data, Wanted(c)', Written(c))
      BY <1>5, <2>3, <2>5
    <2>7. \A j \in Frames(c[1]) : j < reader'[c].next => buffers'[c][j] = j
      <3>1. ASSUME NEW j \in Frames(c[1]), j < k + 1
            PROVE  buffers'[c][j] = j
        <4>1. j = k \/ j < k
          BY <2>3, <3>1 DEF Frames
        <4>2. CASE j = k
          BY <1>6, <2>5, <4>2
        <4>3. CASE j < k
          BY <1>6, <2>2, <2>3, <4>3
        <4>4. QED
          BY <4>1, <4>2, <4>3
      <3>2. QED
        BY <1>3, <3>1
    <2>8. QED
      BY <1>1, <1>3, <1>5, <2>1, <2>6, <2>7, TcpReaderMoves
  <1>9. TcpAll'
    BY <1>1, <1>3, <1>5, <1>6, <1>8, TcpReaderStep
  <1>10. QED
    BY <1>5, <1>7, <1>9

\* A receiving task gives up, or waits for ever for bytes that only a
\* sender that failed does not write.
LEMMA TcpReadsNoMore ==
    ASSUME SenderTypes, SendInv, SocketTypes, TcpAll, Receiving,
           NEW c \in Channels, TcpReadEnd(c) \/ TcpReceiveThrows(c)
    PROVE  SocketTypes' /\ TcpAll' /\ Receiving'
  <1>1. PICK p \in {"spin", "closed"} :
            /\ reader' = [reader EXCEPT ![c].pc = p]
            /\ p = "spin" =>
                   /\ socket[c] = [state |-> "closed", data |-> <<>>]
                   /\ reader[c].pc = "frames" => ~AllRead(c)
    BY DEF TcpReadEnd, TcpReceiveThrows
  <1>2. /\ UNCHANGED <<task, begun, socket, queue, buffers, delivered>>
        /\ reader[c].pc \in {"begin", "frames"}
    BY DEF TcpReadEnd, TcpReceiveThrows, senderVars, tcpVars
  <1>3. /\ ReaderOK' /\ reader'[c].pc = p
        /\ reader'[c].next = reader[c].next
        /\ \A x \in Channels \ {c} : reader'[x] = reader[x]
    BY <1>1, ReaderPc DEF Receiving, ReaderTypes
  <1>4. QueueInv' /\ QueueOK'
    BY <1>2, <1>3, QueueSame DEF Receiving, ReaderTypes
  <1>5. Receiving'
    <2>1. BufferOK' /\ DeliveredOK' /\ WholeInv'
      BY <1>2 DEF Receiving, ReaderTypes, BufferOK, DeliveredOK, WholeInv
    <2>2. QED
      BY <1>3, <1>4, <2>1 DEF Receiving, ReaderTypes
  <1>6. TcpOf(c)
    BY DEF TcpAll
  <1>7. p = "spin" => task[c[1]].pc = "failed"
    <2>1. SUFFICES ASSUME p = "spin", task[c[1]].pc # "failed"
                   PROVE  FALSE
      OBVIOUS
    <2>2. socket[c].state = "closed" /\ socket[c].data = <<>>
      BY <1>1, <2>1
    <2>3. task[c[1]].pc = "done" /\ begun[c[1]] >= D(c[1])
      BY <1>6, <2>1, <2>2 DEF TcpOf
    <2>4. Written(c) = N(c[1]) /\ N(c[1]) \in Nat
      BY <2>3, WrittenFacts, ChannelFacts, MessageFacts
    <2>5. Consecutive(<<>>, Wanted(c), Written(c))
      BY <1>2, <1>6, <2>2 DEF TcpOf
    <2>6. Wanted(c) \in Nat
      BY WantedFacts DEF Receiving, ReaderTypes
    <2>7. Wanted(c) = N(c[1]) + 1
      BY <2>4, <2>5, <2>6, ConsecutiveEmpty
    <2>8. Wanted(c) # N(c[1]) + 1
      <3>1. CASE reader[c].pc = "begin"
        BY <2>4, <3>1 DEF Wanted
      <3>2. CASE reader[c].pc = "frames"
        BY <1>1, <2>1, <2>4, <3>2 DEF Wanted, AllRead, N
      <3>3. QED
        BY <1>2, <3>1, <3>2
    <2>9. QED
      BY <2>7, <2>8
  <1>8. TcpOf(c)'
    <2>1. \A k \in Frames(c[1]) : k < reader[c].next => buffers[c][k] = k
      BY <1>6 DEF TcpOf
    <2>2. QED
      BY <1>2, <1>3, <1>6, <1>7, <2>1, TcpReaderMoves
  <1>9. TcpAll'
    BY <1>2, <1>3, <1>8, TcpReaderStep
  <1>10. SocketTypes'
    BY <1>2 DEF SocketTypes
  <1>11. QED
    BY <1>5, <1>9, <1>10

\* The table is delivered whole.
LEMMA TcpFinishes ==
    ASSUME SocketTypes, TcpAll, Receiving, NEW c \in Channels, TcpFinish(c)
    PROVE  SocketTypes' /\ TcpAll' /\ Receiving'
  <1>1. /\ reader[c].pc = "frames" /\ AllRead(c) /\ Deliver(c)
        /\ reader' = [reader EXCEPT ![c].pc = "done"]
        /\ UNCHANGED <<task, begun, socket, queue, buffers>>
    BY DEF TcpFinish, senderVars, tcpVars
  <1>2. ReaderOK /\ BufferOK /\ DeliveredOK /\ QueueOK /\ QueueInv
    BY DEF Receiving, ReaderTypes
  <1>3. /\ ReaderOK' /\ reader'[c].pc = "done"
        /\ reader'[c].next = reader[c].next
        /\ \A x \in Channels \ {c} : reader'[x] = reader[x]
    BY <1>1, <1>2, ReaderPc
  <1>4. QueueInv' /\ QueueOK'
    BY <1>1, <1>2, <1>3, QueueSame
  <1>5. TcpOf(c)
    BY DEF TcpAll
  <1>6. buffers[c] = Whole(c[1])
    <2>1. N(c[1]) \in Nat /\ Frames(c[1]) = 1 .. N(c[1])
      BY ChannelFacts, MessageFacts
    <2>2. \A k \in Frames(c[1]) : k < reader[c].next
      <3>1. reader[c].next \in Nat
        BY <1>2 DEF ReaderOK, ReaderRecords
      <3>2. QED
        BY <1>1, <2>1, <3>1 DEF AllRead, N
    <2>3. \A k \in Frames(c[1]) : buffers[c][k] = k
      BY <1>5, <2>2 DEF TcpOf
    <2>4. buffers[c] = [k \in Frames(c[1]) |-> buffers[c][k]]
      BY <1>2 DEF BufferOK
    <2>5. QED
      BY <2>3, <2>4 DEF Whole
  <1>7. DeliveredOK' /\ WholeInv'
    <2>1. /\ DeliveredOK'
          /\ delivered'[c] = IF delivered[c] = <<>> THEN <<buffers[c]>>
                                                    ELSE delivered[c]
          /\ \A x \in Channels \ {c} : delivered'[x] = delivered[x]
      BY <1>1, <1>2, Delivers
    <2>2. \A x \in Channels : delivered[x] \in {<<>>, <<Whole(x[1])>>}
      BY DEF Receiving, WholeInv
    <2>3. \A x \in Channels : delivered'[x] \in {<<>>, <<Whole(x[1])>>}
      BY <1>6, <2>1, <2>2
    <2>4. QED
      BY <2>1, <2>3 DEF WholeInv, Whole, Frames
  <1>8. Receiving'
    <2>1. BufferOK'
      BY <1>1, <1>2 DEF BufferOK
    <2>2. QED
      BY <1>3, <1>4, <1>7, <2>1 DEF Receiving, ReaderTypes
  <1>9. TcpOf(c)'
    <2>1. /\ Consecutive(socket[c].data, Wanted(c), Written(c))
          /\ \A k \in Frames(c[1]) : k < reader[c].next => buffers[c][k] = k
      BY <1>1, <1>5 DEF TcpOf
    <2>2. Wanted(c)' = Wanted(c)
      BY <1>1, <1>3 DEF Wanted
    <2>3. QED
      BY <1>1, <1>3, <1>5, <2>1, <2>2, TcpReaderMoves
  <1>10. TcpAll'
    BY <1>1, <1>3, <1>9, TcpReaderStep
  <1>11. SocketTypes'
    BY <1>1 DEF SocketTypes
  <1>12. QED
    BY <1>8, <1>10, <1>11

\* All the steps of TCP.
LEMMA TcpSteps ==
    ASSUME SenderTypes, SendInv, SocketTypes, TcpAll, Receiving, UcxTypes,
           protocol = "tcp", TcpNext, SenderTypes', SendInv'
    PROVE  SocketTypes' /\ TcpAll' /\ Receiving' /\ UcxTypes'
  <1>1. ASSUME NEW m \in Messages, TcpSender(m)
        PROVE  SocketTypes' /\ TcpAll' /\ Receiving'
    <2>1. CASE Connect(m)
      BY <2>1, TcpConnects
    <2>2. SUFFICES ASSUME ~Connect(m) PROVE SocketTypes' /\ TcpAll'
      <3>1. ~Connect(m) => UNCHANGED <<queue, reader, buffers, delivered>>
        BY <1>1 DEF TcpSender, StartSend, WaitForBeginTransmission,
                    WaitUntilComplete, TcpSendBegin, TcpSend,
                    TcpSendToClosed, ConnectThrows, TcpSendThrows,
                    readerVars
      <3>2. QED
        BY <2>1, <2>2, <3>1, ReceivingSame
    <2>3. UNCHANGED <<reader, buffers>>
      BY <1>1, <2>2 DEF TcpSender, StartSend, WaitForBeginTransmission,
                        WaitUntilComplete, TcpSendBegin, TcpSend,
                        TcpSendToClosed, ConnectThrows, TcpSendThrows,
                        readerVars
    <2>4. CASE StartSend(m)
      BY <2>3, <2>4, TcpTaskPc DEF StartSend, tcpVars
    <2>5. CASE WaitForBeginTransmission(m)
      BY <2>3, <2>5, TcpTaskPc DEF WaitForBeginTransmission, tcpVars
    <2>6. CASE ConnectThrows(m)
      BY <2>3, <2>6, TcpTaskPc DEF ConnectThrows, tcpVars
    <2>7. CASE WaitUntilComplete(m)
      BY <2>3, <2>7, TcpCloses DEF WaitUntilComplete
    <2>8. CASE TcpSendBegin(m)
      BY <2>8, TcpBegins DEF Receiving, ReaderTypes
    <2>9. CASE TcpSend(m)
      BY <2>3, <2>9, TcpWrites DEF TcpSend, N, Receiving, ReaderTypes
    <2>10. CASE TcpSendToClosed(m)
      <3>1. /\ task[m].pc = "frames" /\ task[m].frame <= N(m)
            /\ reader[Here(m)].pc = "closed" /\ UNCHANGED begun
        BY <2>10 DEF TcpSendToClosed, N
      <3>2. CASE Advance(m) /\ UNCHANGED socket
        BY <2>3, <3>1, <3>2, TcpWrites DEF Receiving, ReaderTypes
      <3>3. CASE /\ task' = [task EXCEPT ![m].pc = "failed"]
                 /\ socket' = CloseSockets(m)
        BY <2>3, <3>1, <3>3, TcpCloses
      <3>4. QED
        BY <2>10, <3>2, <3>3 DEF TcpSendToClosed
    <2>11. CASE TcpSendThrows(m)
      <3>1. task' = [task EXCEPT ![m].pc = "failed"]
        BY <2>11 DEF TcpSendThrows
      <3>2. CASE /\ task[m].pc = "frames" /\ UNCHANGED begun
                 /\ socket' = CloseSockets(m)
        BY <2>3, <3>1, <3>2, TcpCloses
      <3>3. ASSUME NEW j \in 0 .. D(m) - 1, task[m].pc = "begin",
                   begun' = [begun EXCEPT ![m] = j],
                   socket' = [c \in Channels |->
                       IF c \in BeginTo(m, j)
                       THEN [CloseSockets(m)[c] EXCEPT !.data = << 0 >>]
                       ELSE CloseSockets(m)[c]]
            PROVE  SocketTypes' /\ TcpAll'
        BY <2>3, <3>1, <3>3, TcpBeginFails DEF Receiving, ReaderTypes
      <3>4. QED
        BY <2>11, <3>2, <3>3 DEF TcpSendThrows, D
    <2>12. QED
      BY <1>1, <2>2, <2>4, <2>5, <2>6, <2>7, <2>8, <2>9, <2>10, <2>11
      DEF TcpSender
  <1>2. ASSUME NEW n \in Nodes, StartReceive(n)
        PROVE  SocketTypes' /\ TcpAll' /\ Receiving'
    BY <1>2, TcpStarts
  <1>3. ASSUME NEW c \in Channels, TcpReader(c)
        PROVE  SocketTypes' /\ TcpAll' /\ Receiving'
    BY <1>3, TcpReadsBegin, TcpReadsFrame, TcpReadsNoMore, TcpFinishes
    DEF TcpReader
  <1>4. UcxTypes'
    <2>1. UNCHANGED <<wire, recvs, told, confirming, registered, counter,
                      down>>
      BY TcpLeavesUcx DEF ucxVars
    <2>2. faults' \in 0 .. MaxFaults
      <3>1. faults \in 0 .. MaxFaults /\ MaxFaults \in Nat
        BY TransportAssumption DEF UcxTypes
      <3>2. faults' = faults \/ (faults < MaxFaults /\ faults' = faults + 1)
        <4>1. ASSUME NEW m \in Messages, TcpSender(m)
              PROVE  \/ faults' = faults
                     \/ faults < MaxFaults /\ faults' = faults + 1
          BY <4>1 DEF TcpSender, StartSend, WaitForBeginTransmission,
                      WaitUntilComplete, Connect, TcpSendBegin, TcpSend,
                      TcpSendToClosed, ConnectThrows, TcpSendThrows
        <4>2. ASSUME NEW c \in Channels, TcpReader(c)
              PROVE  \/ faults' = faults
                     \/ faults < MaxFaults /\ faults' = faults + 1
          BY <4>2 DEF TcpReader, TcpReadBegin, TcpReadFrame, TcpReadEnd,
                      TcpFinish, TcpReceiveThrows
        <4>3. ASSUME NEW n \in Nodes, StartReceive(n)
              PROVE  faults' = faults
          BY <4>3 DEF StartReceive
        <4>4. QED
          BY <4>1, <4>2, <4>3 DEF TcpNext
      <3>3. QED
        BY <3>1, <3>2
    <2>3. QED
      BY <2>1, <2>2 DEF UcxTypes
  <1>5. QED
    BY <1>1, <1>2, <1>3, <1>4 DEF TcpNext

-----------------------------------------------------------------------------
(* The frames of UCX. *)

UcxAll == \A c \in Channels : UcxOf(c)

\* The frames received are some of the message's; when they are all of
\* them, the table is whole.
LEMMA FilledFacts ==
    ASSUME ReaderOK, BufferOK, NEW c \in Channels, UcxFrames(c)
    PROVE  /\ IsFiniteSet(Filled(c)) /\ Cardinality(Filled(c)) \in Nat
           /\ N(c[1]) \in Nat
           /\ Cardinality(Filled(c)) <= N(c[1])
           /\ Cardinality(Filled(c)) = N(c[1]) => buffers[c] = Whole(c[1])
           /\ Cardinality(Filled(c)) > 0 => reader[c].next # 1
  <1> DEFINE F == Frames(c[1])
  <1>1. F = 1 .. N(c[1]) /\ N(c[1]) \in Nat
    BY ChannelFacts, MessageFacts
  <1>2. IsFiniteSet(F) /\ Cardinality(F) = N(c[1])
    <2>1. /\ IsFiniteSet(1 .. N(c[1]))
          /\ Cardinality(1 .. N(c[1])) =
                 IF 1 > N(c[1]) THEN 0 ELSE N(c[1]) - 1 + 1
      BY <1>1, FS_Interval
    <2>2. Cardinality(1 .. N(c[1])) = N(c[1])
      BY <1>1, <2>1
    <2>3. QED
      BY <1>1, <2>1, <2>2
  <1>3. Filled(c) \in SUBSET F
    BY DEF Filled
  <1>4. /\ IsFiniteSet(Filled(c))
        /\ Cardinality(Filled(c)) <= Cardinality(F)
        /\ Cardinality(F) = Cardinality(Filled(c)) => F = Filled(c)
    BY <1>2, <1>3, FS_Subset
  <1>5. Cardinality(Filled(c)) \in Nat
    BY <1>4, FS_CardinalityType
  <1>6. ASSUME F = Filled(c) PROVE buffers[c] = Whole(c[1])
    <2>1. ASSUME NEW k \in F PROVE buffers[c][k] = k
      <3>1. UcxFrame(c, k) /\ buffers[c][k] # 0
        BY <1>6 DEF UcxFrames, Filled
      <3>2. k < reader[c].next
        <4>1. k \in Nat /\ reader[c].next \in Nat
          BY <1>1 DEF ReaderOK, ReaderRecords
        <4>2. ~(k >= reader[c].next)
          BY <3>1 DEF UcxFrame
        <4>3. QED
          BY <4>1, <4>2
      <3>3. QED
        BY <3>1, <3>2 DEF UcxFrame
    <2>2. buffers[c] = [k \in F |-> buffers[c][k]]
      BY DEF BufferOK
    <2>3. QED
      BY <2>1, <2>2 DEF Whole
  <1>7. ASSUME reader[c].next = 1 PROVE Filled(c) = {}
    <2>1. ASSUME NEW k \in F PROVE buffers[c][k] = 0
      <3>1. k >= reader[c].next
        BY <1>1, <1>7
      <3>2. QED
        BY <3>1 DEF UcxFrames, UcxFrame
    <2>2. QED
      BY <2>1 DEF Filled
  <1>8. Cardinality(Filled(c)) > 0 => reader[c].next # 1
    BY <1>7, FS_EmptySet
  <1>9. QED
    BY <1>1, <1>2, <1>4, <1>5, <1>6, <1>8

\* The threads that have yet to count are at most two.
LEMMA CountingFacts ==
    ASSUME NEW c
    PROVE  /\ Counting(c) \in 0 .. 2
           /\ Counting(c) = 0 <=> ~Somebody(c, "count")
  BY DEF Counting, Somebody

\* While a frame is being counted the message is not finished; and the
\* last count leaves the table whole.
LEMMA CountFacts ==
    ASSUME ReaderOK, BufferOK, UcxTypes, NEW c \in Channels, UcxFrames(c),
           UcxCount(c)
    PROVE  /\ counter[c] \in Nat /\ N(c[1]) \in Nat
           /\ counter[c] <= N(c[1])
           /\ counter[c] = N(c[1]) => buffers[c] = Whole(c[1])
           /\ Somebody(c, "count") =>
                  /\ counter[c] < N(c[1]) /\ delivered[c] = <<>>
                  /\ ~Somebody(c, "finish") /\ reader[c].next # 1
           /\ counter[c] > 0 => reader[c].next # 1
  <1> DEFINE f == Cardinality(Filled(c))
             n == Counting(c)
             b == N(c[1])
             k == counter[c]
  <1>1. /\ f \in Nat /\ b \in Nat /\ f <= b
        /\ f = b => buffers[c] = Whole(c[1])
        /\ f > 0 => reader[c].next # 1
    BY FilledFacts
  <1>2. k \in Nat
    BY DEF UcxTypes
  <1>3. n \in Nat /\ (Somebody(c, "count") => n > 0)
    BY CountingFacts
  <1>4. f = k + n
    BY DEF UcxCount
  <1>5. /\ Somebody(c, "finish") => k = b
        /\ delivered[c] # <<>> => k = b
    BY DEF UcxCount
  <1> HIDE DEF f, n, b, k
  <1>6. k <= b /\ (k = b => f = b) /\ (k > 0 => f > 0) /\ (n > 0 => k < b)
        /\ (n > 0 => f > 0)
    BY <1>1, <1>2, <1>3, <1>4
  <1>7. k < b => k # b
    BY <1>1, <1>2
  <1>8. QED
    BY <1>1, <1>2, <1>3, <1>5, <1>6, <1>7 DEF b, k

\* Nothing that the frames of c say changes.
LEMMA UcxFramesSame ==
    ASSUME NEW c \in Channels, UcxFrames(c),
           reader'[c].next = reader[c].next, buffers'[c] = buffers[c],
           \A k \in Frames(c[1]) :
               Frame(c, k) \in recvs' <=> Frame(c, k) \in recvs
    PROVE  UcxFrames(c)'
  <1>1. ASSUME NEW k \in Frames(c[1]) PROVE UcxFrame(c, k)'
    <2>1. UcxFrame(c, k)
      BY DEF UcxFrames
    <2>2. Frame(c, k)' = Frame(c, k)
      BY DEF Frame
    <2>3. QED
      BY <2>1, <2>2 DEF UcxFrame
  <1>2. Frames(c[1])' = Frames(c[1])
    BY DEF Frames
  <1>3. QED
    BY <1>1, <1>2 DEF UcxFrames

\* Nothing that is counted changes.
LEMMA UcxCountSame ==
    ASSUME NEW c \in Channels, UcxCount(c),
           buffers'[c] = buffers[c], counter'[c] = counter[c],
           delivered'[c] = delivered[c],
           \A t \in {"pool", "progress"}, s \in {"count", "finish"} :
               At(t, c, s)' <=> At(t, c, s)
    PROVE  UcxCount(c)'
  <1>1. Filled(c)' = Filled(c)
    BY DEF Filled, Frames
  <1>2. Counting(c)' = Counting(c)
    BY DEF Counting
  <1>3. Somebody(c, "finish")' <=> Somebody(c, "finish")
    BY DEF Somebody
  <1>4. Cardinality(Filled(c))' = Cardinality(Filled(c))
    BY <1>1
  <1>5. QED
    BY <1>2, <1>3, <1>4 DEF UcxCount

\* Nothing happens to the receiver of c.
LEMMA UcxKeptSame ==
    ASSUME NEW c \in Channels, UcxKept(c), reader'[c] = reader[c],
           delivered'[c] = delivered[c],
           c \in registered' <=> c \in registered,
           \A t \in {"pool", "progress"} :
               At(t, c, "check")' <=> At(t, c, "check")
    PROVE  UcxKept(c)'
  <1>1. Somebody(c, "check")' <=> Somebody(c, "check")
    BY DEF Somebody
  <1>2. QED
    BY <1>1 DEF UcxKept

\* Nothing happens on the receiving side of c.
LEMMA UcxAlone ==
    ASSUME NEW c \in Channels, UcxOf(c), reader'[c] = reader[c],
           buffers'[c] = buffers[c], counter'[c] = counter[c],
           delivered'[c] = delivered[c],
           c \in registered' <=> c \in registered,
           \A t \in {"pool", "progress"}, s \in {"count", "finish", "check"} :
               At(t, c, s)' <=> At(t, c, s),
           \A k \in Frames(c[1]) :
               Frame(c, k) \in recvs' <=> Frame(c, k) \in recvs,
           Frame(c, 0) \in wire' => reader[c].pc = "none",
           task'[c[1]].pc \in {"waiting", "begin"} =>
               reader[c].pc = "none" /\ Frame(c, 0) \notin wire'
    PROVE  UcxOf(c)'
  <1>1. UcxFrames(c)'
    BY UcxFramesSame DEF UcxOf
  <1>2. UcxCount(c)'
    BY UcxCountSame DEF UcxOf
  <1>3. UcxKept(c)'
    BY UcxKeptSame DEF UcxOf
  <1>4. UcxStart(c)'
    <2>1. Frame(c, 0)' = Frame(c, 0)
      BY DEF Frame
    <2>2. UcxStart(c)
      BY DEF UcxOf
    <2>3. QED
      BY <2>1, <2>2 DEF UcxStart
  <1>5. QED
    BY <1>1, <1>2, <1>3, <1>4 DEF UcxOf

\* A step of a sending task: it may put metadata on the wire when it begins,
\* and is not where it was before it began afterwards.
LEMMA UcxSenderMoves ==
    ASSUME UcxAll, NEW m \in Messages,
           UNCHANGED <<reader, buffers, counter, delivered, registered,
                       confirming, recvs>>,
           \A x \in Messages \ {m} : task'[x] = task[x],
           \A x \in Channels : Frame(x, 0) \in wire' =>
               \/ Frame(x, 0) \in wire
               \/ x[1] = m /\ task[m].pc = "begin",
           task'[m].pc # "waiting",
           task'[m].pc = "begin" => task[m].pc = "waiting" /\ wire' = wire
    PROVE  UcxAll'
  <1>1. ASSUME NEW x \in Channels PROVE UcxOf(x)'
    <2>1. UcxOf(x) /\ UcxStart(x) /\ x[1] \in Messages
      BY ChannelFacts DEF UcxAll, UcxOf
    <2>2. Frame(x, 0) \in wire' => reader[x].pc = "none"
      BY <2>1 DEF UcxStart
    <2>3. task'[x[1]].pc \in {"waiting", "begin"} =>
              reader[x].pc = "none" /\ Frame(x, 0) \notin wire'
      <3>1. CASE x[1] = m
        BY <2>1, <3>1 DEF UcxStart
      <3>2. CASE x[1] # m
        BY <2>1, <3>2 DEF UcxStart
      <3>3. QED
        BY <3>1, <3>2
    <2>4. \A t \in {"pool", "progress"},
             s \in {"count", "finish", "check"} : At(t, x, s)' <=> At(t, x, s)
      BY DEF At
    <2>5. QED
      BY <2>1, <2>2, <2>3, <2>4, UcxAlone
  <1>2. QED
    BY <1>1 DEF UcxAll

\* What posting a frame puts on the wire.
LEMMA PostWire ==
    ASSUME NEW m \in Messages, NEW k \in 0 .. N(m), NEW j \in 0 .. D(m),
           Post(m, k, j), k > 0 \/ task[m].pc = "begin",
           wire \subseteq Requests
    PROVE  /\ wire' \subseteq Requests
           /\ \A x \in Channels : Frame(x, 0) \in wire' =>
                  \/ Frame(x, 0) \in wire
                  \/ x[1] = m /\ task[m].pc = "begin"
  <1>1. wire' = wire \cup Posted(m, k, j)
    BY DEF Post, Posted
  <1>2. /\ Posted(m, k, j) \subseteq Requests
        /\ \A r \in Posted(m, k, j) : r[1] = m /\ r[3] = k
    BY PostedFacts
  <1>3. ASSUME NEW x \in Channels, Frame(x, 0) \in Posted(m, k, j)
        PROVE  x[1] = m /\ task[m].pc = "begin"
    <2>1. Frame(x, 0)[1] = x[1] /\ Frame(x, 0)[3] = 0
      BY DEF Frame
    <2>2. x[1] = m /\ k = 0
      BY <1>2, <1>3, <2>1
    <2>3. QED
      BY <2>2
  <1>4. QED
    BY <1>1, <1>2, <1>3

\* The steps of the sending tasks.
LEMMA UcxSenderSteps ==
    ASSUME SenderTypes, SendInv, protocol = "ucx", UcxAll, Receiving,
           UcxTypes, NEW m \in Messages, UcxSender(m)
    PROVE  UcxAll' /\ Receiving' /\ UcxTypes'
  <1>1. /\ UNCHANGED <<reader, buffers, counter, delivered, registered,
                       confirming, recvs, told, queue, down>>
        /\ faults' = faults \/ (faults < MaxFaults /\ faults' = faults + 1)
    BY DEF UcxSender, StartSend, WaitForBeginTransmission,
           WaitUntilComplete, UcxSendBegin, UcxSend, UcxSendThrows,
           readerVars, ucxVars
  <1>2. Receiving'
    BY <1>1, ReceivingSame
  <1>3. \A x \in Messages \ {m} : task'[x] = task[x]
    BY DEF UcxSender, StartSend, WaitForBeginTransmission,
           WaitUntilComplete, UcxSendBegin, UcxSend, UcxSendThrows,
           SenderTypes
  <1>4. /\ task[m] \in TaskRecords /\ task[m].frame \in Nat
        /\ task[m].frame > 0 /\ DOMAIN task = Messages
    <2>1. task[m].frame \in 1 .. N(m) + 1
      BY DEF SendInv, SendOf
    <2>2. QED
      BY <2>1, MessageFacts DEF SenderTypes, TaskRecords
  <1>5. /\ 0 \in 0 .. N(m) /\ D(m) \in 0 .. D(m)
        /\ D(m) \in Nat \ {0} /\ N(m) \in Nat
    BY MessageFacts
  <1>6. wire \subseteq Requests
    BY DEF UcxTypes
  <1>7. /\ UcxAll' /\ wire' \subseteq Requests
    <2>1. CASE StartSend(m)
      <3>1. task[m].pc = "waiting" /\ task'[m].pc = "begin" /\ wire' = wire
        BY <1>4, <2>1 DEF StartSend, ucxVars, TaskRecords
      <3>2. QED
        BY <1>1, <1>3, <1>6, <3>1, UcxSenderMoves
    <2>2. CASE WaitForBeginTransmission(m) \/ WaitUntilComplete(m)
      <3>1. task'[m].pc \in {"frames", "done"} /\ wire' = wire
        BY <1>4, <2>2
        DEF WaitForBeginTransmission, WaitUntilComplete, ucxVars, TaskRecords
      <3>2. QED
        BY <1>1, <1>3, <1>6, <3>1, UcxSenderMoves
    <2>3. CASE UcxSendBegin(m)
      <3>1. /\ Post(m, 0, D(m)) /\ task[m].pc = "begin"
            /\ task'[m].pc = "started"
        BY <1>4, <2>3 DEF UcxSendBegin, D, TaskRecords
      <3>2. /\ wire' \subseteq Requests
            /\ \A x \in Channels : Frame(x, 0) \in wire' =>
                   \/ Frame(x, 0) \in wire
                   \/ x[1] = m /\ task[m].pc = "begin"
        BY <1>5, <1>6, <3>1, PostWire
      <3>3. QED
        BY <1>1, <1>3, <3>1, <3>2, UcxSenderMoves
    <2>4. CASE UcxSend(m)
      <3>1. /\ Post(m, task[m].frame, D(m)) /\ task[m].pc = "frames"
            /\ task'[m].pc = "frames" /\ task[m].frame <= N(m)
        BY <1>4, <2>4 DEF UcxSend, D, N, TaskRecords
      <3>2. task[m].frame \in 0 .. N(m) /\ task[m].frame > 0
        BY <1>4, <1>5, <3>1
      <3>3. /\ wire' \subseteq Requests
            /\ \A x \in Channels : Frame(x, 0) \in wire' =>
                   \/ Frame(x, 0) \in wire
                   \/ x[1] = m /\ task[m].pc = "begin"
        BY <1>5, <1>6, <3>1, <3>2, PostWire
      <3>4. QED
        BY <1>1, <1>3, <3>1, <3>3, UcxSenderMoves
    <2>5. CASE UcxSendThrows(m)
      <3>1. task'[m].pc = "failed"
        BY <1>4, <2>5 DEF UcxSendThrows, TaskRecords
      <3>2. PICK j \in 0 .. D(m) - 1, k \in Nat :
                /\ Post(m, k, j)
                /\ k <= N(m)
                /\ k > 0 \/ task[m].pc = "begin"
        <4>1. PICK j \in 0 .. D(m) - 1 :
                  \/ task[m].pc = "begin" /\ Post(m, 0, j)
                  \/ /\ task[m].pc = "frames"
                     /\ task[m].frame <= N(m)
                     /\ Post(m, task[m].frame, j)
          BY <2>5 DEF UcxSendThrows, D, N
        <4>2. CASE task[m].pc = "begin" /\ Post(m, 0, j)
          BY <1>5, <4>2
        <4>3. CASE /\ task[m].pc = "frames"
                   /\ task[m].frame <= N(m)
                   /\ Post(m, task[m].frame, j)
          BY <1>4, <4>3
        <4>4. QED
          BY <4>1, <4>2, <4>3
      <3>3. j \in 0 .. D(m) /\ k \in 0 .. N(m)
        BY <1>5, <3>2
      <3>4. /\ wire' \subseteq Requests
            /\ \A x \in Channels : Frame(x, 0) \in wire' =>
                   \/ Frame(x, 0) \in wire
                   \/ x[1] = m /\ task[m].pc = "begin"
        BY <1>6, <3>2, <3>3, PostWire
      <3>5. QED
        BY <1>1, <1>3, <3>1, <3>4, UcxSenderMoves
    <2>6. QED
      BY <2>1, <2>2, <2>3, <2>4, <2>5 DEF UcxSender
  <1>8. UcxTypes'
    <2>1. faults' \in 0 .. MaxFaults
      <3>1. faults \in 0 .. MaxFaults /\ MaxFaults \in Nat
        BY TransportAssumption DEF UcxTypes
      <3>2. QED
        BY <1>1, <3>1
    <2>2. QED
      BY <1>1, <1>7, <2>1 DEF UcxTypes
  <1>9. QED
    BY <1>2, <1>7, <1>8

\* A thread comes into a frame's callback.
LEMMA ConfirmingAdds ==
    ASSUME NEW t, NEW c, NEW s, confirming' = confirming \cup {<<t, c, s>>}
    PROVE  \A u, x, z : At(u, x, z)' <=> \/ At(u, x, z)
                                         \/ u = t /\ x = c /\ z = s
  BY DEF At

\* A thread leaves a frame's callback.
LEMMA ConfirmingDrops ==
    ASSUME NEW t, NEW c, NEW s, confirming' = confirming \ {<<t, c, s>>}
    PROVE  \A u, x, z : At(u, x, z)' <=> /\ At(u, x, z)
                                         /\ ~(u = t /\ x = c /\ z = s)
  BY DEF At

\* A step on the receiving side of c leaves the other channels alone.
LEMMA UcxReaderStep ==
    ASSUME UcxAll, NEW c \in Channels, task' = task,
           \A x \in Channels \ {c} :
               /\ reader'[x] = reader[x] /\ buffers'[x] = buffers[x]
               /\ counter'[x] = counter[x] /\ delivered'[x] = delivered[x]
               /\ x \in registered' <=> x \in registered
               /\ \A t \in {"pool", "progress"},
                     s \in {"count", "finish", "check"} :
                      At(t, x, s)' <=> At(t, x, s)
               /\ \A k \in Frames(x[1]) :
                      Frame(x, k) \in recvs' <=> Frame(x, k) \in recvs,
           wire' \subseteq wire,
           UcxOf(c)'
    PROVE  UcxAll'
  <1>1. ASSUME NEW x \in Channels \ {c} PROVE UcxOf(x)'
    <2>1. UcxOf(x) /\ UcxStart(x)
      BY DEF UcxAll, UcxOf
    <2>2. /\ Frame(x, 0) \in wire' => reader[x].pc = "none"
          /\ task'[x[1]].pc \in {"waiting", "begin"} =>
                 reader[x].pc = "none" /\ Frame(x, 0) \notin wire'
      BY <2>1 DEF UcxStart
    <2>3. QED
      BY <2>1, <2>2, UcxAlone
  <1>2. QED
    BY <1>1 DEF UcxAll

\* Nothing happens to the task and the start of c.
LEMMA UcxStartSame ==
    ASSUME NEW c \in Channels, UcxStart(c), task' = task,
           reader[c].pc \notin {"none", "queued"},
           reader'[c].pc \notin {"none", "queued"},
           wire' \subseteq wire
    PROVE  UcxStart(c)'
  <1>1. Frame(c, 0)' = Frame(c, 0)
    BY DEF Frame
  <1>2. QED
    BY <1>1 DEF UcxStart

\* Two frames of two channels differ.
LEMMA FramesDiffer ==
    ASSUME NEW c \in Channels, NEW x \in Channels, NEW j, NEW k,
           Frame(c, j) = Frame(x, k)
    PROVE  c = x /\ j = k
  <1>1. c[1] = x[1] /\ c[2] = x[2] /\ j = k
    BY DEF Frame
  <1>2. QED
    BY <1>1, ChannelFacts

\* A thread is told of a message and hands it to the pool.
LEMMA UcxTold ==
    ASSUME UcxAll, Receiving, NEW c \in Channels, NEW thread,
           Frame(c, 0) \in wire, wire' = wire \ {Frame(c, 0)},
           Tell(thread, c), task' = task,
           recvs' \in {recvs, recvs \ {Frame(c, 0)}},
           UNCHANGED <<buffers, counter, delivered, registered, confirming>>
    PROVE  UcxAll' /\ Receiving'
  <1>1. /\ queue' = [queue EXCEPT ![c[2]] = Append(@, c)]
        /\ reader' = [reader EXCEPT ![c].pc = "queued"]
    BY DEF Tell
  <1>2. UcxStart(c) /\ UcxFrames(c) /\ UcxCount(c) /\ UcxKept(c)
    BY DEF UcxAll, UcxOf
  <1>3. /\ reader[c].pc = "none" /\ reader[c].next = 1
        /\ delivered[c] = <<>>
        /\ task[c[1]].pc \notin {"waiting", "begin"}
    BY <1>2 DEF UcxStart
  <1>4. ReaderOK /\ QueueOK /\ QueueInv
    BY DEF Receiving, ReaderTypes
  <1>5. /\ ReaderOK' /\ reader'[c].pc = "queued"
        /\ reader'[c].next = reader[c].next
        /\ \A x \in Channels \ {c} : reader'[x] = reader[x]
    BY <1>1, <1>4, ReaderPc
  <1>6. QueueInv' /\ QueueOK'
    BY <1>1, <1>3, <1>4, QueueTold
  <1>7. Receiving'
    <2>1. BufferOK' /\ DeliveredOK' /\ WholeInv'
      BY DEF Receiving, ReaderTypes, BufferOK, DeliveredOK, WholeInv
    <2>2. QED
      BY <1>5, <1>6, <2>1 DEF Receiving, ReaderTypes
  <1>8. \A x \in Channels : \A k \in Frames(x[1]) :
            Frame(x, k) \in recvs' <=> Frame(x, k) \in recvs
    <2>1. ASSUME NEW x \in Channels, NEW k \in Frames(x[1])
          PROVE  Frame(x, k) # Frame(c, 0)
      <3>1. k # 0
        BY ChannelFacts, MessageFacts
      <3>2. QED
        BY <3>1, FramesDiffer
    <2>2. QED
      BY <2>1
  <1>9. \A x \in Channels, t \in {"pool", "progress"},
           s \in {"count", "finish", "check"} : At(t, x, s)' <=> At(t, x, s)
    BY DEF At
  <1>10. UcxOf(c)'
    <2>1. UcxFrames(c)'
      BY <1>2, <1>5, <1>8, UcxFramesSame
    <2>2. UcxCount(c)'
      BY <1>2, <1>9, UcxCountSame
    <2>3. UcxStart(c)'
      <3>1. Frame(c, 0)' = Frame(c, 0)
        BY DEF Frame
      <3>2. QED
        BY <1>3, <1>5, <3>1 DEF UcxStart
    <2>4. UcxKept(c)'
      BY <1>2, <1>3, <1>5 DEF UcxKept
    <2>5. QED
      BY <2>1, <2>2, <2>3, <2>4 DEF UcxOf
  <1>11. UcxAll'
    BY <1>5, <1>8, <1>9, <1>10, UcxReaderStep
  <1>12. QED
    BY <1>7, <1>11

\* A frame comes into its buffer and a thread begins to confirm it.
LEMMA UcxFills ==
    ASSUME ReaderOK, BufferOK, NEW c \in Channels, UcxFrames(c),
           UcxCount(c), counter \in [Channels -> Nat],
           NEW k \in Frames(c[1]), buffers[c][k] = 0,
           buffers'[c][k] = k,
           \A j \in Frames(c[1]) \ {k} : buffers'[c][j] = buffers[c][j],
           NEW t \in {"pool", "progress"}, ~At(t, c, "count"),
           confirming' = confirming \cup {<<t, c, "count">>},
           UNCHANGED <<counter, delivered>>
    PROVE  UcxCount(c)'
  <1>1. k \in 0 .. N(c[1]) /\ k # 0
    <2>1. k \in 1 .. N(c[1]) /\ N(c[1]) \in Nat
      BY ChannelFacts, MessageFacts
    <2>2. QED
      BY <2>1
  <1>3. Filled(c)' = Filled(c) \cup {k} /\ k \notin Filled(c)
    <2>1. Frames(c[1])' = Frames(c[1])
      BY DEF Frames
    <2>2. QED
      BY <1>1, <2>1 DEF Filled
  <1>4. /\ IsFiniteSet(Filled(c)) /\ Cardinality(Filled(c)) \in Nat
    BY FilledFacts
  <1>5. Cardinality(Filled(c) \cup {k}) = Cardinality(Filled(c)) + 1
    BY <1>3, <1>4, FS_AddElement
  <1>6. Cardinality(Filled(c))' = Cardinality(Filled(c)) + 1
    BY <1>3, <1>5
  <1>7. \A u, z : At(u, c, z)' <=> At(u, c, z) \/ (u = t /\ z = "count")
    BY ConfirmingAdds
  <1>8. Counting(c)' = Counting(c) + 1
    <2>1. /\ At(t, c, "count")'
          /\ \A u \in {"pool", "progress"} \ {t} :
                 At(u, c, "count")' <=> At(u, c, "count")
      BY <1>7
    <2>2. CASE t = "pool"
      <3>1. /\ At("pool", c, "count")' /\ ~At("pool", c, "count")
            /\ At("progress", c, "count")' <=> At("progress", c, "count")
        BY <2>1, <2>2
      <3>2. QED
        BY <3>1 DEF Counting
    <2>3. CASE t = "progress"
      <3>1. /\ At("progress", c, "count")' /\ ~At("progress", c, "count")
            /\ At("pool", c, "count")' <=> At("pool", c, "count")
        BY <2>1, <2>3
      <3>2. QED
        BY <3>1 DEF Counting
    <2>4. QED
      BY <2>2, <2>3
  <1>9. Somebody(c, "finish")' <=> Somebody(c, "finish")
    BY <1>7 DEF Somebody
  <1>10. (Cardinality(Filled(c)) = counter[c] + Counting(c))'
    <2>1. Cardinality(Filled(c)) = counter[c] + Counting(c)
      BY DEF UcxCount
    <2>2. Counting(c) \in Nat /\ counter[c] \in Nat
      BY CountingFacts
    <2>3. QED
      BY <1>4, <1>6, <1>8, <2>1, <2>2
  <1>11. UcxCount(c)'
    BY <1>9, <1>10 DEF UcxCount
  <1>12. QED
    BY <1>11

\* A frame of UCX comes into the buffer with its number.
LEMMA FrameFilled ==
    ASSUME BufferOK, NEW c \in Channels, NEW k \in Frames(c[1]),
           buffers' = [buffers EXCEPT ![c][k] = k]
    PROVE  /\ BufferOK' /\ buffers'[c][k] = k
           /\ \A j \in Frames(c[1]) \ {k} : buffers'[c][j] = buffers[c][j]
           /\ \A x \in Channels \ {c} : buffers'[x] = buffers[x]
  <1>1. k \in 0 .. N(c[1])
    <2>1. k \in 1 .. N(c[1]) /\ N(c[1]) \in Nat
      BY ChannelFacts, MessageFacts
    <2>2. QED
      BY <2>1
  <1>2. QED
    BY <1>1, BufferFilled

\* Nothing happens to the receiving tasks but a frame is received.
LEMMA ReceivingFilled ==
    ASSUME Receiving, BufferOK', ReaderOK',
           UNCHANGED <<queue, delivered>>,
           \A c \in Channels : reader'[c].pc = reader[c].pc
    PROVE  Receiving'
  <1>1. QueueInv' /\ QueueOK'
    BY QueueSame DEF Receiving, ReaderTypes
  <1>2. DeliveredOK' /\ WholeInv'
    BY DEF Receiving, ReaderTypes, DeliveredOK, WholeInv
  <1>3. QED
    BY <1>1, <1>2 DEF Receiving, ReaderTypes

\* The receive of a frame completes on the progress thread.
LEMMA UcxRecvCompletes ==
    ASSUME UcxAll, Receiving, UcxTypes, NEW c \in Channels,
           NEW k \in Frames(c[1]),
           Frame(c, k) \in recvs, recvs' = recvs \ {Frame(c, k)},
           wire' = wire \ {Frame(c, k)},
           buffers' = [buffers EXCEPT ![c][k] = k],
           ~At("progress", c, "count"),
           confirming' = confirming \cup {<<"progress", c, "count">>},
           UNCHANGED <<task, queue, reader, counter, delivered, registered>>
    PROVE  UcxAll' /\ Receiving'
  <1>1. UcxStart(c) /\ UcxFrames(c) /\ UcxCount(c) /\ UcxKept(c)
    BY DEF UcxAll, UcxOf
  <1>2. ReaderOK /\ BufferOK /\ counter \in [Channels -> Nat]
    BY DEF Receiving, ReaderTypes, UcxTypes
  <1>3. /\ BufferOK' /\ buffers'[c][k] = k
        /\ \A j \in Frames(c[1]) \ {k} : buffers'[c][j] = buffers[c][j]
        /\ \A x \in Channels \ {c} : buffers'[x] = buffers[x]
    BY <1>2, FrameFilled
  <1>4. UcxFrame(c, k) /\ k < reader[c].next /\ buffers[c][k] = 0
    BY <1>1 DEF UcxFrames, UcxFrame
  <1>5. Receiving'
    <2>1. ReaderOK'
      BY <1>2 DEF ReaderOK
    <2>2. QED
      BY <1>3, <2>1, ReceivingFilled
  <1>6. UcxCount(c)'
    BY <1>1, <1>2, <1>3, <1>4, UcxFills
  <1>7. \A u, x, z : At(u, x, z)' <=>
            At(u, x, z) \/ (u = "progress" /\ x = c /\ z = "count")
    BY ConfirmingAdds
  <1>8. k \in Nat /\ reader[c].next \in Nat
    BY <1>2, ChannelFacts, MessageFacts DEF ReaderOK, ReaderRecords
  <1>9. UcxFrames(c)'
    <2>1. ASSUME NEW j \in Frames(c[1]) PROVE UcxFrame(c, j)'
      <3>1. Frame(c, j)' = Frame(c, j) /\ UcxFrame(c, j)
        BY <1>1 DEF Frame, UcxFrames
      <3>2. CASE j = k
        <4>1. ~(k >= reader[c].next)
          BY <1>4, <1>8
        <4>2. QED
          BY <1>3, <3>1, <3>2, <4>1 DEF UcxFrame
      <3>3. CASE j # k
        <4>1. Frame(c, j) # Frame(c, k)
          BY <3>3, FramesDiffer
        <4>2. Frame(c, j) \in recvs' <=> Frame(c, j) \in recvs
          BY <4>1
        <4>3. buffers'[c][j] = buffers[c][j]
          BY <1>3, <3>3
        <4>4. QED
          BY <3>1, <4>2, <4>3 DEF UcxFrame
      <3>4. QED
        BY <3>2, <3>3
    <2>2. Frames(c[1])' = Frames(c[1])
      BY DEF Frames
    <2>3. QED
      BY <2>1, <2>2 DEF UcxFrames
  <1>10. UcxKept(c)'
    BY <1>1, <1>7, UcxKeptSame
  <1>11. UcxStart(c)'
    <2>1. reader[c].pc \notin {"none", "queued"}
      <3>1. reader[c].next # 1
        <4>1. k \in 1 .. N(c[1]) /\ N(c[1]) \in Nat
          BY ChannelFacts, MessageFacts
        <4>2. QED
          BY <1>4, <1>8, <4>1
      <3>2. QED
        BY <1>1, <3>1 DEF UcxStart
    <2>2. QED
      BY <1>1, <2>1, UcxStartSame
  <1>12. UcxOf(c)'
    BY <1>6, <1>9, <1>10, <1>11 DEF UcxOf
  <1>13. ASSUME NEW x \in Channels \ {c}, NEW j \in Frames(x[1])
         PROVE  Frame(x, j) \in recvs' <=> Frame(x, j) \in recvs
    BY FramesDiffer
  <1>14. UcxAll'
    BY <1>3, <1>7, <1>12, <1>13, UcxReaderStep
  <1>15. QED
    BY <1>5, <1>14

\* One turn of poll_for_frames.
LEMMA UcxPosts ==
    ASSUME UcxAll, Receiving, UcxTypes, NEW c \in Channels,
           UcxPostReceive(c)
    PROVE  UcxAll' /\ Receiving'
  <1>1. PICK k : k = reader[c].next
    OBVIOUS
  <1>2. /\ reader[c].pc = "frames" /\ ~AllRead(c) /\ PoolFree(c)
        /\ reader' = [reader EXCEPT ![c].next = @ + 1]
        /\ UNCHANGED <<task, queue, counter, delivered, registered>>
        /\ \/ /\ wire' = wire \ {Frame(c, k)}
              /\ buffers' = [buffers EXCEPT ![c][k] = k]
              /\ confirming' = confirming \cup {<<"pool", c, "count">>}
              /\ UNCHANGED recvs
           \/ /\ recvs' = recvs \cup {Frame(c, k)}
              /\ UNCHANGED <<wire, buffers, confirming>>
    BY <1>1 DEF UcxPostReceive, Frame, senderVars
  <1>3. UcxStart(c) /\ UcxFrames(c) /\ UcxCount(c) /\ UcxKept(c)
    BY DEF UcxAll, UcxOf
  <1>4. ReaderOK /\ BufferOK /\ counter \in [Channels -> Nat]
    BY DEF Receiving, ReaderTypes, UcxTypes
  <1>5. /\ ReaderOK' /\ k \in Frames(c[1])
        /\ reader'[c].pc = reader[c].pc /\ reader'[c].next = k + 1
        /\ \A x \in Channels \ {c} : reader'[x] = reader[x]
    BY <1>1, <1>2, <1>4, ReaderAdvances
  <1>6. k \in Nat /\ k \in 1 .. N(c[1]) /\ N(c[1]) \in Nat
    BY <1>5, ChannelFacts, MessageFacts
  <1>7. UcxFrame(c, k) /\ buffers[c][k] = 0
    <2>1. UcxFrame(c, k)
      BY <1>3, <1>5 DEF UcxFrames
    <2>2. k >= reader[c].next
      BY <1>1, <1>6
    <2>3. QED
      BY <2>1, <2>2 DEF UcxFrame
  <1>8. wire' \subseteq wire
    BY <1>2
  <1>9. UcxStart(c)'
    BY <1>2, <1>3, <1>5, <1>8, UcxStartSame
  <1>10. \A u, x, z : z # "count" => (At(u, x, z)' <=> At(u, x, z))
    <2>1. CASE confirming' = confirming \cup {<<"pool", c, "count">>}
      BY <2>1, ConfirmingAdds
    <2>2. CASE UNCHANGED confirming
      BY <2>2 DEF At
    <2>3. QED
      BY <1>2, <2>1, <2>2
  <1>11. UcxKept(c)'
    <2>1. Somebody(c, "check")' <=> Somebody(c, "check")
      BY <1>10 DEF Somebody
    <2>2. QED
      BY <1>2, <1>3, <1>5, <2>1 DEF UcxKept
  <1>12. Frames(c[1])' = Frames(c[1])
    BY DEF Frames
  <1>13. CASE /\ wire' = wire \ {Frame(c, k)}
              /\ buffers' = [buffers EXCEPT ![c][k] = k]
              /\ confirming' = confirming \cup {<<"pool", c, "count">>}
              /\ UNCHANGED recvs
    <2>1. /\ BufferOK' /\ buffers'[c][k] = k
          /\ \A j \in Frames(c[1]) \ {k} : buffers'[c][j] = buffers[c][j]
          /\ \A x \in Channels \ {c} : buffers'[x] = buffers[x]
      BY <1>4, <1>5, <1>13, FrameFilled
    <2>2. Receiving'
      BY <1>2, <1>5, <2>1, ReceivingFilled
    <2>3. ~At("pool", c, "count")
      BY <1>2 DEF PoolFree, At
    <2>4. UcxCount(c)'
      BY <1>2, <1>3, <1>4, <1>5, <1>7, <1>13, <2>1, <2>3, UcxFills
    <2>5. ASSUME NEW j \in Frames(c[1]) PROVE UcxFrame(c, j)'
      <3>1. Frame(c, j)' = Frame(c, j) /\ UcxFrame(c, j) /\ j \in Nat
        BY <1>3, ChannelFacts, MessageFacts DEF Frame, UcxFrames
      <3>2. CASE j = k
        <4>1. ~(k < reader[c].next) /\ ~(k >= reader'[c].next)
          BY <1>1, <1>5, <1>6
        <4>2. Frame(c, j) \notin recvs
          BY <3>1, <3>2, <4>1 DEF UcxFrame
        <4>3. QED
          BY <1>13, <2>1, <3>1, <3>2, <4>1, <4>2 DEF UcxFrame
      <3>3. CASE j # k
        <4>1. /\ j < reader'[c].next <=> j < reader[c].next
              /\ j >= reader'[c].next => j >= reader[c].next
          BY <1>1, <1>5, <1>6, <3>1, <3>3
        <4>2. buffers'[c][j] = buffers[c][j]
          BY <2>1, <3>3
        <4>3. QED
          BY <1>13, <3>1, <4>1, <4>2 DEF UcxFrame
      <3>4. QED
        BY <3>2, <3>3
    <2>6. UcxFrames(c)'
      BY <1>12, <2>5 DEF UcxFrames
    <2>7. UcxOf(c)'
      BY <1>9, <1>11, <2>4, <2>6 DEF UcxOf
    <2>8. \A u, x, z : x # c => (At(u, x, z)' <=> At(u, x, z))
      BY <1>13, ConfirmingAdds
    <2>9. UcxAll'
      BY <1>2, <1>5, <1>8, <1>13, <2>1, <2>7, <2>8, UcxReaderStep
    <2>10. QED
      BY <2>2, <2>9
  <1>14. CASE /\ recvs' = recvs \cup {Frame(c, k)}
              /\ UNCHANGED <<wire, buffers, confirming>>
    <2>1. BufferOK'
      BY <1>4, <1>14 DEF BufferOK
    <2>2. Receiving'
      BY <1>2, <1>5, <2>1, ReceivingFilled
    <2>3. \A u, x, z : At(u, x, z)' <=> At(u, x, z)
      BY <1>14 DEF At
    <2>4. UcxCount(c)'
      BY <1>2, <1>3, <1>14, <2>3, UcxCountSame
    <2>5. ASSUME NEW j \in Frames(c[1]) PROVE UcxFrame(c, j)'
      <3>1. Frame(c, j)' = Frame(c, j) /\ UcxFrame(c, j) /\ j \in Nat
        BY <1>3, ChannelFacts, MessageFacts DEF Frame, UcxFrames
      <3>2. CASE j = k
        <4>1. k < reader'[c].next /\ ~(k >= reader'[c].next)
          BY <1>5, <1>6
        <4>2. QED
          BY <1>7, <1>14, <3>1, <3>2, <4>1 DEF UcxFrame
      <3>3. CASE j # k
        <4>1. /\ j < reader'[c].next <=> j < reader[c].next
              /\ j >= reader'[c].next => j >= reader[c].next
          BY <1>1, <1>5, <1>6, <3>1, <3>3
        <4>2. Frame(c, j) \in recvs' <=> Frame(c, j) \in recvs
          BY <1>14, <3>3, FramesDiffer
        <4>3. QED
          BY <1>14, <3>1, <4>1, <4>2 DEF UcxFrame
      <3>4. QED
        BY <3>2, <3>3
    <2>6. UcxFrames(c)'
      BY <1>12, <2>5 DEF UcxFrames
    <2>7. UcxOf(c)'
      BY <1>9, <1>11, <2>4, <2>6 DEF UcxOf
    <2>8. ASSUME NEW x \in Channels \ {c}, NEW j \in Frames(x[1])
          PROVE  Frame(x, j) \in recvs' <=> Frame(x, j) \in recvs
      BY <1>14, FramesDiffer
    <2>9. UcxAll'
      BY <1>2, <1>5, <1>8, <1>14, <2>3, <2>7, <2>8, UcxReaderStep
    <2>10. QED
      BY <2>2, <2>9
  <1>15. QED
    BY <1>2, <1>13, <1>14

\* confirm_transmission counts a frame and finds out whether it was the
\* last.
LEMMA UcxConfirms ==
    ASSUME UcxAll, Receiving, UcxTypes, NEW c \in Channels,
           NEW t \in {"pool", "progress"}, ConfirmTransmission(t, c)
    PROVE  UcxAll' /\ Receiving'
  <1>1. /\ UNCHANGED <<task, queue, reader, buffers, delivered, registered,
                       wire, recvs>>
        /\ At(t, c, "count")
    BY DEF ConfirmTransmission, senderVars, readerVars, At
  <1>2. Receiving'
    BY <1>1, ReceivingSame
  <1>3. UcxStart(c) /\ UcxFrames(c) /\ UcxCount(c) /\ UcxKept(c)
    BY DEF UcxAll, UcxOf
  <1>4. ReaderOK /\ BufferOK /\ counter \in [Channels -> Nat]
    BY DEF Receiving, ReaderTypes, UcxTypes
  <1>5. /\ counter[c] \in Nat /\ N(c[1]) \in Nat
        /\ counter[c] < N(c[1]) /\ delivered[c] = <<>>
        /\ ~Somebody(c, "finish")
    BY <1>1, <1>3, <1>4, CountFacts DEF Somebody
  <1>6. CASE UNCHANGED <<counter, confirming>>
    <2>1. ASSUME NEW x \in Channels PROVE UcxOf(x)'
      <3>1. UcxOf(x) /\ UcxStart(x)
        BY DEF UcxAll, UcxOf
      <3>2. /\ Frame(x, 0) \in wire' => reader[x].pc = "none"
            /\ task'[x[1]].pc \in {"waiting", "begin"} =>
                   reader[x].pc = "none" /\ Frame(x, 0) \notin wire'
        BY <1>1, <3>1 DEF UcxStart
      <3>3. \A u, z : At(u, x, z)' <=> At(u, x, z)
        BY <1>6 DEF At
      <3>4. QED
        BY <1>1, <1>6, <3>1, <3>2, <3>3, UcxAlone
    <2>2. QED
      BY <1>2, <2>1 DEF UcxAll
  <1>7. CASE \E e \in {"finish", "check"} :
                /\ counter' = [counter EXCEPT ![c] = @ + 1]
                /\ confirming' = (confirming \ {<<t, c, "count">>})
                                 \cup {<<t, c, e>>}
                /\ e = "finish" <=> counter[c] + 1 = N(c[1])
    <2>1. PICK e \in {"finish", "check"} :
                /\ counter' = [counter EXCEPT ![c] = @ + 1]
                /\ confirming' = (confirming \ {<<t, c, "count">>})
                                 \cup {<<t, c, e>>}
                /\ e = "finish" <=> counter[c] + 1 = N(c[1])
      BY <1>7
    <2>2. /\ counter'[c] = counter[c] + 1
          /\ \A x \in Channels \ {c} : counter'[x] = counter[x]
      BY <1>4, <2>1
    <2>3. \A u, x, z :
              At(u, x, z)' <=>
                  \/ At(u, x, z) /\ ~(u = t /\ x = c /\ z = "count")
                  \/ u = t /\ x = c /\ z = e
      BY <2>1 DEF At
    <2>4. Counting(c) = Counting(c)' + 1
      <3>1. /\ ~At(t, c, "count")'
            /\ \A u \in {"pool", "progress"} \ {t} :
                   At(u, c, "count")' <=> At(u, c, "count")
        BY <2>1, <2>3
      <3>2. CASE t = "pool"
        <4>1. /\ ~At("pool", c, "count")' /\ At("pool", c, "count")
              /\ At("progress", c, "count")' <=> At("progress", c, "count")
          BY <1>1, <3>1, <3>2
        <4>2. QED
          BY <4>1 DEF Counting
      <3>3. CASE t = "progress"
        <4>1. /\ ~At("progress", c, "count")' /\ At("progress", c, "count")
              /\ At("pool", c, "count")' <=> At("pool", c, "count")
          BY <1>1, <3>1, <3>3
        <4>2. QED
          BY <4>1 DEF Counting
      <3>4. QED
        BY <3>2, <3>3
    <2>5. UcxCount(c)'
      <3>1. Filled(c)' = Filled(c)
        BY <1>1 DEF Filled, Frames
      <3>2. (Cardinality(Filled(c)) = counter[c] + Counting(c))'
        <4>1. Cardinality(Filled(c)) = counter[c] + Counting(c)
          BY <1>3 DEF UcxCount
        <4>2. Cardinality(Filled(c))' = Cardinality(Filled(c))
          BY <3>1
        <4>3. Counting(c) \in Nat /\ Counting(c)' \in Nat
          BY DEF Counting
        <4>4. QED
          BY <1>5, <2>2, <2>4, <4>1, <4>2, <4>3
      <3>3. Somebody(c, "finish")' <=> e = "finish"
        BY <1>5, <2>1, <2>3 DEF Somebody
      <3>4. delivered'[c] = <<>>
        BY <1>1, <1>5
      <3>5. counter'[c] = N(c[1]) <=> e = "finish"
        BY <2>1, <2>2
      <3>6. counter'[c] = N(c[1]) => N(c[1]) > 0
        BY <1>5, <2>2
      <3>7. QED
        BY <3>2, <3>3, <3>4, <3>5, <3>6 DEF UcxCount
    <2>6. UcxKept(c)'
      BY <1>1, <1>3, <1>5 DEF UcxKept
    <2>7. UcxFrames(c)'
      BY <1>1, <1>3, UcxFramesSame
    <2>8. UcxStart(c)'
      <3>1. Frame(c, 0)' = Frame(c, 0)
        BY DEF Frame
      <3>2. QED
        BY <1>1, <1>3, <3>1 DEF UcxStart
    <2>9. UcxOf(c)'
      BY <2>5, <2>6, <2>7, <2>8 DEF UcxOf
    <2>10. UcxAll'
      BY <1>1, <2>2, <2>3, <2>9, UcxReaderStep
    <2>11. QED
      BY <1>2, <2>10
  <1>8. QED
    <2>1. LastConfirmed(c) <=> counter[c] + 1 = N(c[1])
      BY DEF LastConfirmed, N
    <2>2. CASE c \in registered
      <3>1. PICK e \in {"finish", "check"} :
                e = IF LastConfirmed(c) THEN "finish" ELSE "check"
        OBVIOUS
      <3>2. /\ counter' = [counter EXCEPT ![c] = @ + 1]
            /\ confirming' = (confirming \ {<<t, c, "count">>})
                             \cup {<<t, c, e>>}
        BY <2>2, <3>1 DEF ConfirmTransmission
      <3>3. e = "finish" <=> counter[c] + 1 = N(c[1])
        BY <2>1, <3>1
      <3>4. QED
        BY <1>7, <3>2, <3>3
    <2>3. CASE c \notin registered
      BY <1>6, <2>3 DEF ConfirmTransmission
    <2>4. QED
      BY <2>2, <2>3

\* finish(): all the frames are in their buffers.
LEMMA UcxFinishes ==
    ASSUME UcxAll, Receiving, UcxTypes, NEW c \in Channels,
           NEW t \in {"pool", "progress"}, Finish(t, c)
    PROVE  UcxAll' /\ Receiving'
  <1>1. /\ UNCHANGED <<task, queue, reader, buffers, counter, registered,
                       wire, recvs>>
        /\ At(t, c, "finish") /\ Deliver(c)
        /\ confirming' = (confirming \ {<<t, c, "finish">>})
                         \cup {<<t, c, "check">>}
    BY DEF Finish, senderVars, At
  <1>2. UcxStart(c) /\ UcxFrames(c) /\ UcxCount(c) /\ UcxKept(c)
    BY DEF UcxAll, UcxOf
  <1>3. ReaderOK /\ BufferOK /\ DeliveredOK /\ QueueOK /\ QueueInv
    BY DEF Receiving, ReaderTypes
  <1>4. counter[c] = N(c[1]) /\ N(c[1]) > 0
    BY <1>1, <1>2 DEF UcxCount, Somebody
  <1>5. buffers[c] = Whole(c[1]) /\ reader[c].next # 1
    BY <1>2, <1>3, <1>4, CountFacts
  <1>6. /\ DeliveredOK'
        /\ delivered'[c] # <<>>
        /\ delivered'[c] = IF delivered[c] = <<>> THEN <<buffers[c]>>
                                                  ELSE delivered[c]
        /\ \A x \in Channels \ {c} : delivered'[x] = delivered[x]
    BY <1>1, <1>3, Delivers
  <1>7. WholeInv'
    <2>1. \A x \in Channels : delivered[x] \in {<<>>, <<Whole(x[1])>>}
      BY DEF Receiving, WholeInv
    <2>2. \A x \in Channels : delivered'[x] \in {<<>>, <<Whole(x[1])>>}
      BY <1>5, <1>6, <2>1
    <2>3. QED
      BY <2>2 DEF WholeInv, Whole, Frames
  <1>8. Receiving'
    <2>1. QueueInv' /\ QueueOK'
      BY <1>1, <1>3, QueueSame
    <2>2. ReaderOK' /\ BufferOK'
      BY <1>1, <1>3 DEF ReaderOK, BufferOK
    <2>3. QED
      BY <1>6, <1>7, <2>1, <2>2 DEF Receiving, ReaderTypes
  <1>9. \A u, x, z :
            At(u, x, z)' <=>
                \/ At(u, x, z) /\ ~(u = t /\ x = c /\ z = "finish")
                \/ u = t /\ x = c /\ z = "check"
    BY <1>1 DEF At
  <1>10. UcxCount(c)'
    <2>1. Filled(c)' = Filled(c)
      BY <1>1 DEF Filled, Frames
    <2>2. Counting(c)' = Counting(c)
      <3>1. \A u : At(u, c, "count")' <=> At(u, c, "count")
        BY <1>9
      <3>2. QED
        BY <3>1 DEF Counting
    <2>3. Cardinality(Filled(c))' = Cardinality(Filled(c))
      BY <2>1
    <2>4. QED
      BY <1>1, <1>2, <1>4, <1>6, <2>2, <2>3 DEF UcxCount
  <1>11. UcxKept(c)'
    <2>1. Somebody(c, "check")'
      BY <1>9 DEF Somebody
    <2>2. QED
      BY <1>1, <1>2, <1>6, <2>1 DEF UcxKept
  <1>12. UcxFrames(c)'
    BY <1>1, <1>2, UcxFramesSame
  <1>13. UcxStart(c)'
    <2>1. reader[c].pc \notin {"none", "queued"}
      BY <1>2, <1>5 DEF UcxStart
    <2>2. QED
      BY <1>1, <1>2, <2>1, UcxStartSame
  <1>14. UcxOf(c)'
    BY <1>10, <1>11, <1>12, <1>13 DEF UcxOf
  <1>15. UcxAll'
    BY <1>1, <1>6, <1>9, <1>14, UcxReaderStep
  <1>16. QED
    BY <1>8, <1>15

\* is_finished and remove_receiver.
LEMMA UcxCallbackEnds ==
    ASSUME UcxAll, Receiving, NEW c \in Channels,
           NEW t \in {"pool", "progress"}, EndCallback(t, c)
    PROVE  UcxAll' /\ Receiving'
  <1>1. /\ UNCHANGED <<task, queue, reader, buffers, delivered, counter,
                       wire, recvs>>
        /\ confirming' = confirming \ {<<t, c, "check">>}
        /\ registered' = IF delivered[c] # <<>> THEN registered \ {c}
                                                ELSE registered
    BY DEF EndCallback, RemoveIfFinished, senderVars, readerVars
  <1>2. Receiving'
    BY <1>1, ReceivingSame
  <1>3. UcxStart(c) /\ UcxFrames(c) /\ UcxCount(c) /\ UcxKept(c)
    BY DEF UcxAll, UcxOf
  <1>4. \A u, x, z : At(u, x, z)' <=> /\ At(u, x, z)
                                      /\ ~(u = t /\ x = c /\ z = "check")
    BY <1>1, ConfirmingDrops
  <1>5. UcxCount(c)'
    BY <1>1, <1>3, <1>4, UcxCountSame
  <1>6. UcxKept(c)'
    BY <1>1, <1>3 DEF UcxKept
  <1>7. UcxFrames(c)'
    BY <1>1, <1>3, UcxFramesSame
  <1>8. UcxStart(c)'
    <2>1. Frame(c, 0)' = Frame(c, 0)
      BY DEF Frame
    <2>2. QED
      BY <1>1, <1>3, <2>1 DEF UcxStart
  <1>9. UcxOf(c)'
    BY <1>5, <1>6, <1>7, <1>8 DEF UcxOf
  <1>10. UcxAll'
    BY <1>1, <1>4, <1>9, UcxReaderStep
  <1>11. QED
    BY <1>2, <1>10

\* poll_for_frames returns; a message without buffers is finished then.
LEMMA UcxReceivingEnds ==
    ASSUME UcxAll, Receiving, UcxTypes, NEW c \in Channels,
           UcxReceiveEnds(c)
    PROVE  UcxAll' /\ Receiving'
  <1>1. /\ UNCHANGED <<task, queue, buffers, counter, confirming, wire,
                       recvs>>
        /\ reader[c].pc = "frames" /\ AllRead(c)
        /\ reader' = [reader EXCEPT ![c].pc = "done"]
        /\ \/ N(c[1]) = 0 /\ registered' = registered \ {c} /\ Deliver(c)
           \/ N(c[1]) # 0 /\ UNCHANGED <<registered, delivered>>
    BY DEF UcxReceiveEnds, senderVars, N
  <1>2. UcxStart(c) /\ UcxFrames(c) /\ UcxCount(c) /\ UcxKept(c)
    BY DEF UcxAll, UcxOf
  <1>3. ReaderOK /\ BufferOK /\ DeliveredOK /\ QueueOK /\ QueueInv
    BY DEF Receiving, ReaderTypes
  <1>4. /\ ReaderOK' /\ reader'[c].pc = "done"
        /\ reader'[c].next = reader[c].next
        /\ \A x \in Channels \ {c} : reader'[x] = reader[x]
    BY <1>1, <1>3, ReaderPc
  <1>5. reader[c].next = N(c[1]) + 1
    <2>1. reader[c].next \in 1 .. N(c[1]) + 1 /\ N(c[1]) \in Nat
      BY <1>3, ChannelFacts, MessageFacts DEF ReaderOK
    <2>2. QED
      BY <1>1, <2>1 DEF AllRead, N
  <1>6. N(c[1]) = 0 => counter[c] = N(c[1]) /\ buffers[c] = Whole(c[1])
    <2>1. /\ counter[c] \in Nat /\ N(c[1]) \in Nat /\ counter[c] <= N(c[1])
          /\ counter[c] = N(c[1]) => buffers[c] = Whole(c[1])
      BY <1>2, <1>3, CountFacts
    <2>2. QED
      BY <2>1
  <1>7. /\ DeliveredOK' /\ WholeInv'
        /\ \A x \in Channels \ {c} : delivered'[x] = delivered[x]
        /\ N(c[1]) = 0 => delivered'[c] # <<>>
        /\ N(c[1]) # 0 => delivered'[c] = delivered[c]
    <2>1. \A x \in Channels : delivered[x] \in {<<>>, <<Whole(x[1])>>}
      BY DEF Receiving, WholeInv
    <2>2. CASE N(c[1]) = 0
      <3>1. /\ DeliveredOK' /\ delivered'[c] # <<>>
            /\ delivered'[c] = IF delivered[c] = <<>> THEN <<buffers[c]>>
                                                      ELSE delivered[c]
            /\ \A x \in Channels \ {c} : delivered'[x] = delivered[x]
        BY <1>1, <1>3, <2>2, Delivers
      <3>2. \A x \in Channels : delivered'[x] \in {<<>>, <<Whole(x[1])>>}
        BY <1>6, <2>1, <2>2, <3>1
      <3>3. WholeInv'
        BY <3>2 DEF WholeInv, Whole, Frames
      <3>4. QED
        BY <2>2, <3>1, <3>3
    <2>3. CASE N(c[1]) # 0
      BY <1>1, <1>3, <2>1, <2>3 DEF WholeInv, Whole, Frames, DeliveredOK
    <2>4. QED
      BY <2>2, <2>3
  <1>8. Receiving'
    <2>1. QueueInv' /\ QueueOK'
      BY <1>1, <1>3, <1>4, QueueSame
    <2>2. BufferOK'
      BY <1>1, <1>3 DEF BufferOK
    <2>3. QED
      BY <1>4, <1>7, <2>1, <2>2 DEF Receiving, ReaderTypes
  <1>9. \A u, x, z : At(u, x, z)' <=> At(u, x, z)
    BY <1>1 DEF At
  <1>10. UcxCount(c)'
    <2>1. Filled(c)' = Filled(c)
      BY <1>1 DEF Filled, Frames
    <2>2. Counting(c)' = Counting(c)
      BY <1>9 DEF Counting
    <2>3. Cardinality(Filled(c))' = Cardinality(Filled(c))
      BY <2>1
    <2>4. Somebody(c, "finish")' <=> Somebody(c, "finish")
      BY <1>9 DEF Somebody
    <2>5. CASE N(c[1]) = 0
      BY <1>1, <1>2, <1>6, <1>7, <2>2, <2>3, <2>4, <2>5 DEF UcxCount
    <2>6. CASE N(c[1]) # 0
      BY <1>1, <1>2, <1>7, <2>2, <2>3, <2>4, <2>6 DEF UcxCount
    <2>7. QED
      BY <2>5, <2>6
  <1>11. UcxKept(c)'
    <2>1. Somebody(c, "check")' <=> Somebody(c, "check")
      BY <1>9 DEF Somebody
    <2>2. CASE N(c[1]) = 0
      <3>1. c \notin registered'
        BY <1>1, <2>2
      <3>2. QED
        BY <1>4, <1>5, <1>7, <2>2, <3>1 DEF UcxKept
    <2>3. CASE N(c[1]) # 0
      <3>1. registered' = registered /\ delivered'[c] = delivered[c]
        BY <1>1, <2>3
      <3>2. QED
        BY <1>1, <1>2, <1>4, <1>5, <2>1, <2>3, <3>1 DEF UcxKept
    <2>4. QED
      BY <2>2, <2>3
  <1>12. UcxFrames(c)'
    BY <1>1, <1>2, <1>4, UcxFramesSame
  <1>13. UcxStart(c)'
    BY <1>1, <1>2, <1>4, UcxStartSame
  <1>14. UcxOf(c)'
    BY <1>10, <1>11, <1>12, <1>13 DEF UcxOf
  <1>15. \A x \in Channels \ {c} : x \in registered' <=> x \in registered
    BY <1>1
  <1>16. UcxAll'
    BY <1>1, <1>4, <1>7, <1>9, <1>14, <1>15, UcxReaderStep
  <1>17. QED
    BY <1>8, <1>16

\* The pool takes a message it was told of and registers its receiver.
LEMMA UcxStarts ==
    ASSUME UcxAll, Receiving, protocol = "ucx", NEW n \in Nodes,
           StartReceive(n)
    PROVE  /\ UcxAll' /\ Receiving'
           /\ registered \subseteq Channels => registered' \subseteq Channels
           /\ \A x \in Channels : reader'[x].pc \in {reader[x].pc, "frames"}
  <1>1. PICK c : c = Head(queue[n])
    OBVIOUS
  <1>2. /\ queue[n] # <<>>
        /\ reader' = [reader EXCEPT ![c].pc = "frames"]
        /\ queue' = [queue EXCEPT ![n] = Tail(@)]
        /\ registered' = registered \cup {c}
        /\ UNCHANGED <<task, buffers, delivered, counter, confirming, wire,
                       recvs>>
    BY <1>1 DEF StartReceive, senderVars
  <1>3. ReaderOK /\ QueueOK /\ QueueInv
    BY DEF Receiving, ReaderTypes
  <1>4. QueueInv' /\ QueueOK' /\ c \in Channels /\ reader[c].pc = "queued"
    BY <1>1, <1>2, <1>3, QueueTaken
  <1>5. /\ ReaderOK'
        /\ reader'[c].pc = "frames" /\ reader'[c].next = reader[c].next
        /\ \A x \in Channels \ {c} : reader'[x] = reader[x]
    BY <1>2, <1>3, <1>4, ReaderPc
  <1>6. Receiving'
    <2>1. BufferOK' /\ DeliveredOK' /\ WholeInv'
      BY <1>2 DEF Receiving, ReaderTypes, BufferOK, DeliveredOK, WholeInv
    <2>2. QED
      BY <1>4, <1>5, <2>1 DEF Receiving, ReaderTypes
  <1>7. UcxStart(c) /\ UcxFrames(c) /\ UcxCount(c) /\ UcxKept(c)
    BY <1>4 DEF UcxAll, UcxOf
  <1>8. \A u, x, z : At(u, x, z)' <=> At(u, x, z)
    BY <1>2 DEF At
  <1>9. UcxCount(c)'
    BY <1>2, <1>4, <1>7, <1>8, UcxCountSame
  <1>10. UcxFrames(c)'
    BY <1>2, <1>4, <1>5, <1>7, UcxFramesSame
  <1>11. delivered[c] = <<>>
    BY <1>4, <1>7 DEF UcxStart
  <1>12. UcxKept(c)'
    BY <1>2, <1>5, <1>11 DEF UcxKept
  <1>13. UcxStart(c)'
    <2>1. Frame(c, 0)' = Frame(c, 0)
      BY DEF Frame
    <2>2. /\ Frame(c, 0) \notin wire
          /\ task[c[1]].pc \notin {"waiting", "begin"}
      BY <1>4, <1>7 DEF UcxStart
    <2>3. QED
      BY <1>2, <1>5, <2>1, <2>2 DEF UcxStart
  <1>14. UcxOf(c)'
    BY <1>9, <1>10, <1>12, <1>13 DEF UcxOf
  <1>15. UcxAll'
    BY <1>2, <1>4, <1>5, <1>8, <1>14, UcxReaderStep
  <1>16. QED
    BY <1>2, <1>4, <1>5, <1>6, <1>15

\* The progress thread, or the polling thread, completes a request.
LEMMA UcxRequests ==
    ASSUME UcxAll, Receiving, UcxTypes, SenderTypes, NEW r, RequestNext(r)
    PROVE  UcxAll' /\ Receiving' /\ UcxTypes'
  <1>1. CASE CompleteSend(r) \/ SendStatusThrows(r)
    <2>1. /\ UNCHANGED <<task, queue, reader, buffers, delivered, counter,
                         confirming, wire, recvs, told, registered, faults>>
          /\ r \in sends
          /\ down' \in {down, down \cup {Origin[r[1]]}}
      BY <1>1 DEF CompleteSend, SendStatusThrows, readerVars, ucxVars,
                  senderVars
    <2>2. Receiving'
      BY <2>1, ReceivingSame
    <2>3. UcxTypes'
      <3>1. Origin[r[1]] \in Nodes
        BY <2>1, RequestFacts, MessageFacts DEF SenderTypes
      <3>2. QED
        BY <2>1, <3>1 DEF UcxTypes
    <2>4. ASSUME NEW x \in Channels PROVE UcxOf(x)'
      <3>1. UcxOf(x) /\ UcxStart(x)
        BY DEF UcxAll, UcxOf
      <3>2. /\ Frame(x, 0) \in wire' => reader[x].pc = "none"
            /\ task'[x[1]].pc \in {"waiting", "begin"} =>
                   reader[x].pc = "none" /\ Frame(x, 0) \notin wire'
        BY <2>1, <3>1 DEF UcxStart
      <3>3. \A u, z : At(u, x, z)' <=> At(u, x, z)
        BY <2>1 DEF At
      <3>4. QED
        BY <2>1, <3>1, <3>2, <3>3, UcxAlone
    <2>5. QED
      BY <2>2, <2>3, <2>4 DEF UcxAll
  <1>2. CASE PollBeginMessageTag(r)
    <2>1. /\ r[3] = 0 /\ r \in wire
          /\ UNCHANGED <<task, buffers, delivered, counter, confirming,
                         registered, down, faults>>
      BY <1>2 DEF PollBeginMessageTag, Probed, senderVars
    <2>2. /\ r \in Requests /\ Chan(r) \in Channels
          /\ r = Frame(Chan(r), 0)
      BY <2>1, RequestFacts DEF UcxTypes
    <2>3. CASE wire' = wire \ {r} /\ Tell("poll", Chan(r)) /\ UNCHANGED recvs
      <3>1. UcxAll' /\ Receiving'
        BY <2>1, <2>2, <2>3, UcxTold
      <3>2. told' \subseteq {"poll", "progress"} \X Channels
        BY <2>2, <2>3 DEF Tell, UcxTypes
      <3>3. UcxTypes'
        BY <2>1, <2>3, <3>2 DEF UcxTypes
      <3>4. QED
        BY <3>1, <3>3
    <2>4. CASE recvs' = recvs \cup {r} /\ UNCHANGED <<wire, told, queue,
                                                      reader>>
      <3>1. Receiving'
        BY <2>1, <2>4, ReceivingSame
      <3>2. UcxTypes'
        BY <2>1, <2>2, <2>4 DEF UcxTypes
      <3>3. ASSUME NEW x \in Channels PROVE UcxOf(x)'
        <4>1. UcxOf(x) /\ UcxStart(x)
          BY DEF UcxAll, UcxOf
        <4>2. /\ Frame(x, 0) \in wire' => reader[x].pc = "none"
              /\ task'[x[1]].pc \in {"waiting", "begin"} =>
                     reader[x].pc = "none" /\ Frame(x, 0) \notin wire'
          BY <2>1, <2>4, <4>1 DEF UcxStart
        <4>3. \A u, z : At(u, x, z)' <=> At(u, x, z)
          BY <2>1 DEF At
        <4>4. ASSUME NEW k \in Frames(x[1])
              PROVE  Frame(x, k) \in recvs' <=> Frame(x, k) \in recvs
          <5>1. k # 0
            BY ChannelFacts, MessageFacts
          <5>2. Frame(x, k) # r
            BY <2>2, <5>1, FramesDiffer
          <5>3. QED
            BY <2>4, <5>2
        <4>5. QED
          BY <2>1, <2>4, <4>1, <4>2, <4>3, <4>4, UcxAlone
      <3>4. QED
        BY <3>1, <3>2, <3>3 DEF UcxAll
    <2>5. QED
      BY <1>2, <2>3, <2>4 DEF PollBeginMessageTag
  <1>3. CASE CompleteRecv(r)
    <2>1. PICK c, k : c = Chan(r) /\ k = r[3]
      OBVIOUS
    <2>2. /\ r \in recvs /\ r \in wire /\ ProgressIdle(r[2])
          /\ recvs' = recvs \ {r} /\ wire' = wire \ {r}
          /\ UNCHANGED <<task, delivered, counter, registered, down, faults>>
      BY <1>3 DEF CompleteRecv, EraseRequest, senderVars
    <2>3. /\ r \in Requests /\ c \in Channels /\ r = Frame(c, k)
          /\ k \in 0 .. N(c[1]) /\ c[2] = r[2] /\ N(c[1]) \in Nat
      <3>1. r \in Requests
        BY <2>2 DEF UcxTypes
      <3>2. /\ c \in Channels /\ r = Frame(c, k) /\ c[2] = r[2]
            /\ k \in 0 .. N(c[1])
        BY <2>1, <3>1, RequestFacts
      <3>3. QED
        BY <3>1, <3>2, ChannelFacts, MessageFacts
    <2>4. CASE k = 0 /\ Tell("progress", c) /\ UNCHANGED <<confirming,
                                                           buffers>>
      <3>1. UcxAll' /\ Receiving'
        BY <2>2, <2>3, <2>4, UcxTold
      <3>2. told' \subseteq {"poll", "progress"} \X Channels
        BY <2>3, <2>4 DEF Tell, UcxTypes
      <3>3. UcxTypes'
        BY <2>2, <2>4, <3>2 DEF UcxTypes
      <3>4. QED
        BY <3>1, <3>3
    <2>5. CASE /\ k > 0
               /\ buffers' = [buffers EXCEPT ![c][k] = k]
               /\ confirming' = confirming
                                \cup {<<"progress", c, "count">>}
               /\ UNCHANGED <<told, queue, reader>>
      <3>1. k \in Frames(c[1])
        BY <2>3, <2>5 DEF Frames, N
      <3>2. ~At("progress", c, "count")
        BY <2>2, <2>3 DEF ProgressIdle, At
      <3>3. UcxAll' /\ Receiving'
        BY <2>2, <2>3, <2>5, <3>1, <3>2, UcxRecvCompletes
      <3>4. confirming' \subseteq {"pool", "progress"} \X Channels
                                  \X {"count", "finish", "check"}
        BY <2>3, <2>5 DEF UcxTypes
      <3>5. UcxTypes'
        BY <2>2, <2>5, <3>4 DEF UcxTypes
      <3>6. QED
        BY <3>3, <3>5
    <2>6. QED
      BY <1>3, <2>1, <2>4, <2>5 DEF CompleteRecv
  <1>4. QED
    BY <1>1, <1>2, <1>3 DEF RequestNext

\* The steps of the receiving tasks and of the callbacks.
LEMMA UcxReaders ==
    ASSUME UcxAll, Receiving, UcxTypes, NEW c \in Channels, UcxReader(c)
    PROVE  UcxAll' /\ Receiving' /\ UcxTypes'
  <1>1. c[2] \in Nodes
    BY ChannelFacts
  <1>2. CASE UcxPostReceive(c)
    <2>1. UcxAll' /\ Receiving'
      BY <1>2, UcxPosts
    <2>2. Frame(c, reader[c].next) \in Requests
      <3>1. reader[c].next \in 1 .. N(c[1]) + 1 /\ N(c[1]) \in Nat
        BY ChannelFacts, MessageFacts DEF Receiving, ReaderTypes, ReaderOK
      <3>2. reader[c].next \in 0 .. N(c[1])
        BY <1>2, <3>1 DEF UcxPostReceive, AllRead, N
      <3>3. QED
        BY <3>2, FrameFacts
    <2>3. /\ recvs' \subseteq Requests /\ wire' \subseteq Requests
          /\ UNCHANGED <<told, registered, counter, down, faults>>
      BY <1>2, <2>2 DEF UcxPostReceive, Frame, UcxTypes
    <2>4. confirming' \subseteq confirming \cup {<<"pool", c, "count">>}
      BY <1>2 DEF UcxPostReceive
    <2>5. UcxTypes'
      <3>1. confirming' \subseteq {"pool", "progress"} \X Channels
                                  \X {"count", "finish", "check"}
        BY <2>4 DEF UcxTypes
      <3>2. QED
        BY <2>3, <3>1 DEF UcxTypes
    <2>6. QED
      BY <2>1, <2>5
  <1>3. CASE UcxReceiveEnds(c)
    <2>1. UcxAll' /\ Receiving'
      BY <1>3, UcxReceivingEnds
    <2>2. UcxTypes'
      BY <1>3 DEF UcxReceiveEnds, UcxTypes
    <2>3. QED
      BY <2>1, <2>2
  <1>4. CASE UcxReceiveThrows(c)
    <2>1. /\ UNCHANGED <<task, queue, reader, buffers, delivered, counter,
                         confirming, wire, recvs, told, registered>>
          /\ down' = down \cup {c[2]}
          /\ faults < MaxFaults /\ faults' = faults + 1
      BY <1>4 DEF UcxReceiveThrows, readerVars, ucxVars, senderVars
    <2>2. Receiving'
      BY <2>1, ReceivingSame
    <2>3. UcxTypes'
      <3>1. faults \in 0 .. MaxFaults /\ MaxFaults \in Nat
        BY TransportAssumption DEF UcxTypes
      <3>2. faults' \in 0 .. MaxFaults
        BY <2>1, <3>1
      <3>3. QED
        BY <1>1, <2>1, <3>2 DEF UcxTypes
    <2>4. ASSUME NEW x \in Channels PROVE UcxOf(x)'
      <3>1. UcxOf(x) /\ UcxStart(x)
        BY DEF UcxAll, UcxOf
      <3>2. /\ Frame(x, 0) \in wire' => reader[x].pc = "none"
            /\ task'[x[1]].pc \in {"waiting", "begin"} =>
                   reader[x].pc = "none" /\ Frame(x, 0) \notin wire'
        BY <2>1, <3>1 DEF UcxStart
      <3>3. \A u, z : At(u, x, z)' <=> At(u, x, z)
        BY <2>1 DEF At
      <3>4. QED
        BY <2>1, <3>1, <3>2, <3>3, UcxAlone
    <2>5. QED
      BY <2>2, <2>3, <2>4 DEF UcxAll
  <1>5. ASSUME NEW t \in {"pool", "progress"},
               \/ ConfirmTransmission(t, c)
               \/ Finish(t, c)
               \/ EndCallback(t, c)
        PROVE  UcxAll' /\ Receiving' /\ UcxTypes'
    <2>1. UcxAll' /\ Receiving'
      BY <1>5, UcxConfirms, UcxFinishes, UcxCallbackEnds
    <2>2. UcxTypes'
      <3>1. \A e \in {"count", "finish", "check"} :
                <<t, c, e>> \in {"pool", "progress"} \X Channels
                                \X {"count", "finish", "check"}
        OBVIOUS
      <3>2. CASE ConfirmTransmission(t, c)
        <4>1. CASE c \in registered
          <5>1. PICK e \in {"finish", "check"} :
                    confirming' = (confirming \ {<<t, c, "count">>})
                                  \cup {<<t, c, e>>}
            BY <3>2, <4>1 DEF ConfirmTransmission
          <5>2. counter' = [counter EXCEPT ![c] = @ + 1]
            BY <3>2, <4>1 DEF ConfirmTransmission
          <5>3. counter' \in [Channels -> Nat]
            <6>1. counter[c] + 1 \in Nat
              BY DEF UcxTypes
            <6>2. QED
              BY <5>2, <6>1 DEF UcxTypes
          <5>4. confirming' \subseteq {"pool", "progress"} \X Channels
                                      \X {"count", "finish", "check"}
            BY <3>1, <5>1 DEF UcxTypes
          <5>5. UNCHANGED <<wire, recvs, told, registered, down, faults>>
            BY <3>2, <4>1 DEF ConfirmTransmission
          <5>6. QED
            BY <5>3, <5>4, <5>5 DEF UcxTypes
        <4>2. CASE c \notin registered
          BY <1>1, <3>2, <4>2 DEF ConfirmTransmission, UcxTypes
        <4>3. QED
          BY <4>1, <4>2
      <3>3. CASE Finish(t, c)
        <4>1. confirming' \subseteq {"pool", "progress"} \X Channels
                                    \X {"count", "finish", "check"}
          BY <3>1, <3>3 DEF Finish, UcxTypes
        <4>2. UNCHANGED <<wire, recvs, told, registered, counter, down,
                          faults>>
          BY <3>3 DEF Finish
        <4>3. QED
          BY <4>1, <4>2 DEF UcxTypes
      <3>4. CASE EndCallback(t, c)
        BY <3>4 DEF EndCallback, RemoveIfFinished, UcxTypes
      <3>5. QED
        BY <1>5, <3>2, <3>3, <3>4
    <2>3. QED
      BY <2>1, <2>2
  <1>6. QED
    BY <1>2, <1>3, <1>4, <1>5 DEF UcxReader

\* All the steps of UCX.
LEMMA UcxSteps ==
    ASSUME SenderTypes, SendInv, UcxAll, Receiving, UcxTypes,
           protocol = "ucx", UcxNext
    PROVE  UcxAll' /\ Receiving' /\ UcxTypes'
  <1>1. ASSUME NEW n \in Nodes, StartReceive(n)
        PROVE  UcxAll' /\ Receiving' /\ UcxTypes'
    <2>1. /\ UcxAll' /\ Receiving'
          /\ registered \subseteq Channels => registered' \subseteq Channels
      BY <1>1, UcxStarts
    <2>2. UNCHANGED <<wire, recvs, told, confirming, counter, down, faults>>
      BY <1>1 DEF StartReceive
    <2>3. QED
      BY <2>1, <2>2 DEF UcxTypes
  <1>2. QED
    BY <1>1, UcxSenderSteps, UcxReaders, UcxRequests DEF UcxNext

\* With UCX a sending task never connects, and no receiving task reads a
\* connection.
LEMMA UcxMode ==
    ASSUME SenderTypes, SocketTypes, Receiving, UcxAll, ModeInv, UcxTypes,
           protocol = "ucx", UcxNext
    PROVE  ModeInv'
  <1>1. UNCHANGED socket /\ protocol' = protocol
    BY UcxLeavesTcp DEF protocol
  <1>2. \A m \in Messages : task[m].pc # "connect" /\ task[m].dest = 1
    BY DEF ModeInv
  <1>3. \A c \in Channels :
            /\ socket[c] = [state |-> "none", data |-> <<>>]
            /\ reader[c].pc \notin {"begin", "spin", "closed"}
    BY DEF ModeInv
  <1>4. /\ \A m \in Messages : task'[m].pc # "connect" /\ task'[m].dest = 1
        /\ \A c \in Channels : reader'[c].pc \notin {"begin", "spin",
                                                     "closed"}
    <2>1. ASSUME NEW m \in Messages, UcxSender(m)
          PROVE  /\ \A x \in Messages :
                        task'[x].pc # "connect" /\ task'[x].dest = 1
                 /\ reader' = reader
      <3>1. /\ \/ \E p \in {"begin", "started", "frames", "done", "failed"} :
                      task' = [task EXCEPT ![m].pc = p]
               \/ task' = [task EXCEPT ![m].frame = @ + 1]
            /\ reader' = reader
        BY <2>1 DEF UcxSender, StartSend, WaitForBeginTransmission,
                    WaitUntilComplete, UcxSendBegin, UcxSend,
                    UcxSendThrows, readerVars
      <3>2. CASE task' = [task EXCEPT ![m].frame = @ + 1]
        BY <1>2, <3>1, <3>2 DEF SenderTypes, TaskRecords
      <3>3. ASSUME NEW p \in {"begin", "started", "frames", "done",
                              "failed"},
                   task' = [task EXCEPT ![m].pc = p]
            PROVE  \A x \in Messages :
                       task'[x].pc # "connect" /\ task'[x].dest = 1
        BY <1>2, <3>3 DEF SenderTypes, TaskRecords
      <3>4. QED
        BY <3>1, <3>2, <3>3
    <2>2. ASSUME NEW n \in Nodes, StartReceive(n)
          PROVE  /\ task' = task
                 /\ \A c \in Channels :
                        reader'[c].pc \notin {"begin", "spin", "closed"}
      <3>1. \A x \in Channels : reader'[x].pc \in {reader[x].pc, "frames"}
        BY <2>2, UcxStarts
      <3>2. QED
        BY <1>3, <2>2, <3>1 DEF StartReceive, senderVars
    <2>3. ASSUME NEW c \in Channels, UcxReader(c)
          PROVE  /\ task' = task
                 /\ \A x \in Channels :
                        reader'[x].pc \notin {"begin", "spin", "closed"}
      <3>1. task' = task
        BY <2>3 DEF UcxReader, UcxPostReceive, UcxReceiveEnds,
                    UcxReceiveThrows, ConfirmTransmission, Finish,
                    EndCallback, senderVars
      <3>2. \/ reader' = reader
            \/ reader' = [reader EXCEPT ![c].pc = "done"]
            \/ reader' = [reader EXCEPT ![c].next = @ + 1]
        BY <2>3 DEF UcxReader, UcxPostReceive, UcxReceiveEnds,
                    UcxReceiveThrows, ConfirmTransmission, Finish,
                    EndCallback, readerVars
      <3>3. \A x \in Channels :
                reader'[x].pc \notin {"begin", "spin", "closed"}
        BY <1>3, <3>2 DEF Receiving, ReaderTypes, ReaderOK, ReaderRecords
      <3>4. QED
        BY <3>1, <3>3
    <2>4. ASSUME NEW r, RequestNext(r)
          PROVE  /\ task' = task
                 /\ \A x \in Channels :
                        reader'[x].pc \notin {"begin", "spin", "closed"}
      <3>1. task' = task
        BY <2>4 DEF RequestNext, CompleteSend, SendStatusThrows,
                    PollBeginMessageTag, CompleteRecv, senderVars
      <3>2. \/ reader' = reader
            \/ reader' = [reader EXCEPT ![Chan(r)].pc = "queued"]
        BY <2>4 DEF RequestNext, CompleteSend, SendStatusThrows,
                    PollBeginMessageTag, CompleteRecv, readerVars, Tell
      <3>3. \A x \in Channels :
                reader'[x].pc \notin {"begin", "spin", "closed"}
        BY <1>3, <3>2 DEF Receiving, ReaderTypes, ReaderOK, ReaderRecords
      <3>4. QED
        BY <3>1, <3>3
    <2>5. QED
      BY <1>2, <1>3, <2>1, <2>2, <2>3, <2>4 DEF UcxNext
  <1>5. QED
    BY <1>1, <1>3, <1>4 DEF ModeInv

\* A cluster with TCP touches nothing of UCX.
LEMMA TcpMode ==
    ASSUME ModeInv, protocol = "tcp", TcpNext
    PROVE  ModeInv'
  <1>1. UNCHANGED <<wire, sends, recvs, told, confirming, registered,
                    counter, traffic>>
    BY TcpLeavesUcx DEF ucxVars
  <1>2. protocol' = "tcp"
    BY <1>1 DEF protocol
  <1>3. QED
    BY <1>1, <1>2 DEF ModeInv

-----------------------------------------------------------------------------
(* The invariant, and what follows from it. *)

TransportInv ==
    /\ SenderTypes /\ SendInv
    /\ SocketTypes /\ Receiving /\ UcxTypes
    /\ ModeInv /\ TcpInv /\ UcxInv

\* At first nothing has been sent or received.
LEMMA TransportInit ==
    ASSUME Init
    PROVE  TransportInv
  <1>1. SenderTypes
    <2>1. task \in [Messages -> TaskRecords]
      BY DEF Init, TaskRecords
    <2>2. begun \in [Messages -> Nat] /\ transmitted \in [Messages -> Nat]
      BY DEF Init
    <2>3. sends \subseteq Requests /\ IsFiniteSet(sends)
      BY FS_EmptySet DEF Init
    <2>4. QED
      BY <2>1, <2>2, <2>3 DEF Init, SenderTypes
  <1>2. ASSUME NEW m \in Messages PROVE SendOf(m)
    <2>1. /\ task[m].pc = "waiting" /\ task[m].dest = 1
          /\ task[m].frame = 1 /\ begun[m] = 0 /\ transmitted[m] = 0
      BY DEF Init
    <2>2. Metadata(m) = {} /\ Pending(m) = {}
      BY DEF Init, Metadata, Pending
    <2>3. Cardinality(Metadata(m)) = 0 /\ Cardinality(Pending(m)) = 0
      BY <2>2, FS_EmptySet
    <2>4. D(m) \in Nat \ {0} /\ N(m) \in Nat
      BY MessageFacts
    <2>5. task[m].dest \in 1 .. D(m) /\ task[m].frame \in 1 .. N(m) + 1
      BY <2>1, <2>4
    <2>6. Asked(m) = 0
      BY <2>1, <2>5, AskedFacts
    <2>7. /\ begun[m] + Cardinality(Metadata(m)) <= D(m)
          /\ transmitted[m] + Cardinality(Pending(m)) <= Asked(m)
      BY <2>1, <2>3, <2>4, <2>6
    <2>8. QED
      BY <2>1, <2>2, <2>5, <2>7 DEF SendOf
  <1>3. SocketTypes
    <2>1. socket \in [Channels -> SocketRecords]
      BY DEF Init, SocketRecords
    <2>2. \A c \in Channels : socket[c].data = <<>>
      BY DEF Init
    <2>3. ASSUME NEW c \in Channels PROVE socket[c].data \in Seq(0 .. N(c[1]))
      <3>1. \A S : <<>> \in Seq(S)
        OBVIOUS
      <3>2. QED
        BY <2>2, <3>1
    <2>4. QED
      BY <2>1, <2>3 DEF SocketTypes
  <1>4. ASSUME NEW c \in Channels
        PROVE  /\ c[1] \in Messages /\ N(c[1]) \in Nat
               /\ Frames(c[1]) = 1 .. N(c[1])
               /\ reader[c].pc = "none" /\ reader[c].next = 1
               /\ buffers[c] = [k \in Frames(c[1]) |-> 0]
               /\ delivered[c] = <<>> /\ counter[c] = 0
    BY ChannelFacts, MessageFacts DEF Init
  <1>5. ReaderOK
    <2>1. reader \in [Channels -> ReaderRecords]
      BY DEF Init, ReaderRecords
    <2>2. ASSUME NEW c \in Channels
          PROVE  reader[c].next \in 1 .. N(c[1]) + 1
      <3>1. reader[c].next = 1 /\ N(c[1]) \in Nat
        BY <1>4
      <3>2. QED
        BY <3>1
    <2>3. QED
      BY <2>1, <2>2 DEF ReaderOK
  <1>6. BufferOK
    <2>1. ASSUME NEW c \in Channels
          PROVE  buffers[c] \in [Frames(c[1]) -> 0 .. N(c[1])]
      <3>1. N(c[1]) \in Nat /\ buffers[c] = [k \in Frames(c[1]) |-> 0]
        BY <1>4
      <3>2. 0 \in 0 .. N(c[1])
        BY <3>1
      <3>3. QED
        BY <3>1, <3>2
    <2>2. ASSUME NEW c \in Channels PROVE buffers[c] \in Tables
      BY <1>4, <2>1 DEF Tables
    <2>3. QED
      BY <2>1, <2>2 DEF Init, BufferOK
  <1>7. DeliveredOK /\ QueueOK /\ WholeInv
    BY DEF Init, DeliveredOK, QueueOK, WholeInv
  <1>8. QueueInv
    <2>1. \A n \in Nodes : queue[n] = <<>>
      BY DEF Init
    <2>2. QED
      BY <2>1 DEF QueueInv, IsInjective, ToSet
  <1>9. UcxTypes
    <2>1. MaxFaults \in Nat
      BY TransportAssumption
    <2>2. counter \in [Channels -> Nat]
      BY DEF Init
    <2>3. QED
      BY <2>1, <2>2 DEF Init, UcxTypes
  <1>10. ModeInv
    <2>1. \A m \in Messages : task[m].pc = "waiting" /\ task[m].dest = 1
      BY DEF Init
    <2>2. \A c \in Channels :
              /\ socket[c] = [state |-> "none", data |-> <<>>]
              /\ reader[c].pc = "none"
      BY DEF Init
    <2>3. QED
      BY <1>4, <2>1, <2>2 DEF Init, ModeInv
  <1>11. ASSUME NEW c \in Channels PROVE TcpOf(c)
    <2>1. task[c[1]].pc = "waiting" /\ begun[c[1]] = 0
      BY <1>4 DEF Init
    <2>2. socket[c].state = "none" /\ socket[c].data = <<>>
      BY DEF Init
    <2>3. Wanted(c) = 0 /\ Written(c) = -1
      <3>1. Turn(c) \in 1 .. D(c[1]) /\ D(c[1]) \in Nat
        BY ChannelFacts, MessageFacts
      <3>2. begun[c[1]] < Turn(c)
        BY <2>1, <3>1
      <3>3. QED
        BY <1>4, <2>1, <3>2 DEF Wanted, Written
    <2>4. Consecutive(socket[c].data, Wanted(c), Written(c))
      BY <2>2, <2>3 DEF Consecutive
    <2>5. \A k \in Frames(c[1]) : ~(k < reader[c].next)
      <3>1. reader[c].next = 1 /\ Frames(c[1]) = 1 .. N(c[1])
        BY <1>4
      <3>2. QED
        BY <3>1
    <2>6. QED
      BY <1>4, <2>1, <2>2, <2>4, <2>5 DEF TcpOf
  <1>12. ASSUME NEW c \in Channels PROVE UcxOf(c)
    <2>1. wire = {} /\ recvs = {} /\ confirming = {} /\ registered = {}
      BY DEF Init
    <2>2. UcxStart(c)
      BY <1>4, <2>1 DEF UcxStart
    <2>3. \A k \in Frames(c[1]) : buffers[c][k] = 0 /\ ~(k < reader[c].next)
      <3>1. /\ reader[c].next = 1 /\ Frames(c[1]) = 1 .. N(c[1])
            /\ buffers[c] = [k \in Frames(c[1]) |-> 0]
        BY <1>4
      <3>2. QED
        BY <3>1
    <2>4. UcxFrames(c)
      BY <2>1, <2>3 DEF UcxFrames, UcxFrame
    <2>5. Filled(c) = {}
      BY <2>3 DEF Filled
    <2>6. ~Somebody(c, "count") /\ ~Somebody(c, "finish") /\ Counting(c) = 0
      BY <2>1 DEF Somebody, At, Counting
    <2>7. Cardinality(Filled(c)) = counter[c] + Counting(c)
      <3>1. counter[c] = 0
        BY <1>4
      <3>2. Cardinality(Filled(c)) = 0
        BY <2>5, FS_EmptySet
      <3>3. QED
        BY <2>6, <3>1, <3>2
    <2>8. UcxCount(c)
      <3>1. counter[c] = 0 /\ delivered[c] = <<>>
        BY <1>4
      <3>2. counter[c] = N(c[1]) => ~(N(c[1]) > 0)
        BY <3>1
      <3>3. QED
        BY <2>6, <2>7, <3>1, <3>2 DEF UcxCount
    <2>9. UcxKept(c)
      BY <1>4, <2>1 DEF UcxKept
    <2>10. QED
      BY <2>2, <2>4, <2>8, <2>9 DEF UcxOf
  <1>13. QED
    BY <1>1, <1>2, <1>3, <1>5, <1>6, <1>7, <1>8, <1>9, <1>10, <1>11, <1>12
       DEF TransportInv, SendInv, Receiving, ReaderTypes, TcpInv, UcxInv

\* Every step of either protocol keeps the invariant.
LEMMA TransportNext ==
    ASSUME TransportInv, Next
    PROVE  TransportInv'
  <1>1. /\ SenderTypes /\ SendInv /\ SocketTypes /\ Receiving /\ UcxTypes
        /\ ModeInv /\ TcpInv /\ UcxInv
    BY DEF TransportInv
  <1>2. protocol \in {"tcp", "ucx"}
    BY <1>1, Protocols DEF SenderTypes
  <1>3. CASE protocol = "tcp"
    <2>1. TcpNext /\ TcpAll
      BY <1>1, <1>3, OnlyTcp DEF TcpInv, TcpAll
    <2>2. protocol' = "tcp"
      BY <1>3, <2>1, TcpLeavesUcx DEF protocol
    <2>3. SenderTypes' /\ SendInv'
      BY <1>1, <1>3, <2>1, TcpSends
    <2>4. SocketTypes' /\ TcpAll' /\ Receiving' /\ UcxTypes'
      BY <1>1, <1>3, <2>1, <2>3, TcpSteps
    <2>5. ModeInv'
      BY <1>1, <1>3, <2>1, TcpMode
    <2>6. TcpInv' /\ UcxInv'
      BY <2>2, <2>4 DEF TcpInv, UcxInv, TcpAll
    <2>7. QED
      BY <2>3, <2>4, <2>5, <2>6 DEF TransportInv
  <1>4. CASE protocol = "ucx"
    <2>1. UcxNext /\ UcxAll
      BY <1>1, <1>4, OnlyUcx DEF UcxInv, UcxAll
    <2>2. UNCHANGED socket /\ UNCHANGED traffic
      BY <1>1, <1>4, <2>1, UcxLeavesTcp
    <2>3. protocol' = "ucx"
      BY <1>4, <2>2 DEF protocol
    <2>4. SenderTypes' /\ SendInv'
      BY <1>1, <1>4, <2>1, UcxSends
    <2>5. UcxAll' /\ Receiving' /\ UcxTypes'
      BY <1>1, <1>4, <2>1, UcxSteps
    <2>6. ModeInv'
      BY <1>1, <1>4, <2>1, UcxMode
    <2>7. SocketTypes'
      BY <1>1, <2>2 DEF SocketTypes
    <2>8. TcpInv' /\ UcxInv'
      BY <2>3, <2>5 DEF TcpInv, UcxInv, UcxAll
    <2>9. QED
      BY <2>4, <2>5, <2>6, <2>7, <2>8 DEF TransportInv
  <1>5. QED
    BY <1>2, <1>3, <1>4

\* The invariant holds in every state a cluster can reach.
THEOREM TransportInvariant == Spec => []TransportInv
  <1>1. Init => TransportInv
    BY TransportInit
  <1>2. TransportInv /\ [Next]_vars => TransportInv'
    <2>1. SUFFICES ASSUME TransportInv, [Next]_vars PROVE TransportInv'
      OBVIOUS
    <2>2. CASE Next
      BY <2>1, <2>2, TransportNext
    <2>3. CASE UNCHANGED vars
      <3>1. UNCHANGED <<traffic, task, begun, transmitted, socket, wire,
                        sends, recvs, queue, reader, told, confirming,
                        registered, counter, buffers, delivered, down,
                        faults>>
        BY <2>3 DEF vars, senderVars, tcpVars, ucxVars, readerVars
      <3>2. SenderTypes' /\ SendInv' /\ SocketTypes'
        BY <2>1, <3>1 DEF TransportInv, SenderTypes, SendInv, SendOf,
                          SocketTypes, Metadata, Pending, Asked
      <3>3. Receiving' /\ UcxTypes' /\ ModeInv'
        BY <2>1, <3>1 DEF TransportInv, Receiving, ReaderTypes, ReaderOK,
                          BufferOK, DeliveredOK, QueueOK, QueueInv,
                          WholeInv, UcxTypes, ModeInv, protocol
      <3>4. TcpInv'
        BY <2>1, <3>1 DEF TransportInv, TcpInv, TcpOf, Wanted, Written,
                          protocol
      <3>5. UcxInv'
        BY <2>1, <3>1 DEF TransportInv, UcxInv, UcxOf, UcxStart, UcxFrames,
                          UcxFrame, UcxCount, UcxKept, Filled, Counting,
                          Somebody, At, protocol
      <3>6. QED
        BY <3>2, <3>3, <3>4, <3>5 DEF TransportInv
    <2>4. QED
      BY <2>1, <2>2, <2>3
  <1>3. QED
    BY <1>1, <1>2, PTL DEF Spec

\* What the runs call TypeOK: no counter passes the number of frames there
\* are, whatever is sent again or fails.
LEMMA TransportInvTypes ==
    ASSUME TransportInv
    PROVE  TypeOK
  <1>1. /\ SenderTypes /\ SendInv /\ SocketTypes /\ UcxTypes /\ ModeInv
        /\ UcxInv /\ ReaderOK /\ BufferOK
    BY DEF TransportInv, Receiving, ReaderTypes
  <1>2. ASSUME NEW m \in Messages
        PROVE  /\ task[m].pc \in {"waiting", "connect", "begin", "started",
                                  "frames", "done", "failed"}
               /\ task[m].dest \in 1 .. Len(Destinations[m])
               /\ task[m].frame \in 1 .. NumBuffers[m] + 1
               /\ begun[m] \in 0 .. Len(Destinations[m])
               /\ transmitted[m] \in
                      0 .. NumBuffers[m] * Len(Destinations[m])
    <2>1. SendOf(m)
      BY <1>1 DEF SendInv
    <2>2. /\ task[m].dest \in 1 .. D(m)
          /\ task[m].frame \in 1 .. N(m) + 1
      BY <2>1 DEF SendOf
    <2>3. task[m].pc \in {"waiting", "connect", "begin", "started",
                          "frames", "done", "failed"}
      BY <1>1 DEF SenderTypes, TaskRecords
    <2>4. /\ begun[m] \in Nat /\ transmitted[m] \in Nat
          /\ D(m) \in Nat /\ N(m) * D(m) \in Nat
      BY <1>1, <2>1, SendNumbers
    <2>5. begun[m] <= D(m) /\ transmitted[m] <= N(m) * D(m)
      BY <1>1, <2>1, SendBounds
    <2>6. begun[m] \in 0 .. D(m) /\ transmitted[m] \in 0 .. N(m) * D(m)
      BY <2>4, <2>5
    <2>7. QED
      BY <2>2, <2>3, <2>6 DEF D, N
  <1>3. ASSUME NEW c \in Channels
        PROVE  /\ socket[c].state \in {"none", "open", "closed"}
               /\ socket[c].data \in Seq(0 .. NumBuffers[c[1]])
               /\ reader[c].pc \in {"none", "queued", "begin", "frames",
                                    "spin", "done", "closed"}
               /\ reader[c].next \in 1 .. NumBuffers[c[1]] + 1
               /\ counter[c] \in 0 .. NumBuffers[c[1]]
               /\ buffers[c] \in [Frames(c[1]) -> 0 .. NumBuffers[c[1]]]
    <2>1. /\ socket[c].state \in {"none", "open", "closed"}
          /\ socket[c].data \in Seq(0 .. N(c[1]))
      BY <1>1 DEF SocketTypes, SocketRecords
    <2>2. /\ reader[c].pc \in {"none", "queued", "begin", "frames", "spin",
                               "done", "closed"}
          /\ reader[c].next \in 1 .. N(c[1]) + 1
      BY <1>1 DEF ReaderOK, ReaderRecords
    <2>3. buffers[c] \in [Frames(c[1]) -> 0 .. N(c[1])]
      BY <1>1 DEF BufferOK
    <2>4. counter[c] \in Nat /\ N(c[1]) \in Nat /\ counter[c] <= N(c[1])
      <3>1. N(c[1]) \in Nat
        BY ChannelFacts, MessageFacts
      <3>2. CASE protocol = "tcp"
        <4>1. counter[c] = 0
          BY <1>1, <3>2 DEF ModeInv
        <4>2. QED
          BY <3>1, <4>1
      <3>3. CASE protocol = "ucx"
        <4>1. UcxFrames(c) /\ UcxCount(c)
          BY <1>1, <3>3 DEF UcxInv, UcxOf
        <4>2. QED
          BY <1>1, <4>1, CountFacts
      <3>4. QED
        BY <1>1, <3>2, <3>3, Protocols DEF SenderTypes
    <2>5. counter[c] \in 0 .. N(c[1])
      BY <2>4
    <2>6. QED
      BY <2>1, <2>2, <2>3, <2>5 DEF N
  <1>4. QED
    BY <1>1, <1>2, <1>3 DEF TypeOK, SenderTypes, UcxTypes

\* Every counter and table of the transport keeps its bounds: begun and
\* transmitted never pass the number of frames asked for
\* (buffer_transport), nor _buffer_counter that of the table's buffers.
THEOREM TransportTypes == Spec => []TypeOK
  <1>1. TransportInv => TypeOK
    BY TransportInvTypes
  <1>2. QED
    BY <1>1, TransportInvariant, PTL

\* A destination gets the table of a message at most once, and whole
\* (message_receiver::finish), with either protocol and any failures.
THEOREM TablesArriveWhole == Spec => []DeliveredOnceAndWhole
  <1>1. TransportInv => DeliveredOnceAndWhole
    BY DEF TransportInv, Receiving, WholeInv, DeliveredOnceAndWhole
  <1>2. QED
    BY <1>1, TransportInvariant, PTL

\* A sending task returns from wait_until_complete only when no request is
\* left that reads its buffers or whose callback uses its transport.
THEOREM NoRequestOutlivesTask == Spec => []BuffersKeptWhileSent
  <1>1. ASSUME TransportInv, NEW m \in Messages, task[m].pc = "done",
               NEW r \in sends
        PROVE  r[1] # m
    <2>1. SenderTypes /\ SendOf(m)
      BY <1>1 DEF TransportInv, SendInv
    <2>2. r[3] \in Nat
      <3>1. r \in Requests
        BY <2>1 DEF SenderTypes
      <3>2. r[1] \in Messages /\ r[3] \in 0 .. N(r[1])
        BY <3>1, RequestFacts
      <3>3. N(r[1]) \in Nat
        BY <3>2, MessageFacts
      <3>4. QED
        BY <3>2, <3>3
    <2>3. Pending(m) = {}
      BY <1>1, <2>1 DEF SendOf
    <2>4. /\ begun[m] >= D(m)
          /\ begun[m] + Cardinality(Metadata(m)) <= D(m)
      BY <1>1, <2>1 DEF SendOf
    <2>5. Cardinality(Metadata(m)) = 0
      <3>1. /\ begun[m] \in Nat /\ D(m) \in Nat
            /\ Cardinality(Metadata(m)) \in Nat
        BY <2>1, SendNumbers
      <3>2. QED
        BY <2>4, <3>1
    <2>6. Metadata(m) = {}
      BY <2>1, <2>5, PendingFinite DEF SenderTypes
    <2>7. r[3] = 0 \/ r[3] > 0
      BY <2>2
    <2>8. QED
      BY <2>3, <2>6, <2>7 DEF Metadata, Pending
  <1>2. TransportInv => BuffersKeptWhileSent
    BY <1>1 DEF BuffersKeptWhileSent
  <1>3. QED
    BY <1>2, TransportInvariant, PTL

\* A reader of a TCP connection that its sender has closed finds every byte
\* it waits for (read_from_socket), unless the sender failed.
THEOREM OnlyFailuresSpin == Spec => []SpinMeansSenderFailed
  <1>1. ASSUME TransportInv, NEW c \in Channels, reader[c].pc = "spin"
        PROVE  task[c[1]].pc = "failed"
    <2>1. protocol = "tcp"
      <3>1. protocol \in {"tcp", "ucx"}
        BY <1>1, Protocols DEF TransportInv, SenderTypes
      <3>2. protocol # "ucx"
        BY <1>1 DEF TransportInv, ModeInv
      <3>3. QED
        BY <3>1, <3>2
    <2>2. QED
      BY <1>1, <2>1 DEF TransportInv, TcpInv, TcpOf
  <1>2. TransportInv => SpinMeansSenderFailed
    BY <1>1 DEF SpinMeansSenderFailed
  <1>3. QED
    BY <1>2, TransportInvariant, PTL

\* The callback of a frame finds its receiver in tag_to_receiver, whichever
\* thread removes it; and nothing but a thread or a request that will come
\* by again keeps a receiver there.
THEOREM ReceiverIsKept == Spec => []ReceiverKeptWhileNeeded
  <1>1. ASSUME TransportInv, NEW c \in Channels, protocol = "ucx"
        PROVE  /\ \A thread \in {"pool", "progress"} :
                      At(thread, c, "count") => c \in registered
               /\ c \in registered =>
                     \/ Running(c)
                     \/ \E k \in Frames(c[1]) : Frame(c, k) \in recvs
                     \/ \E e \in confirming : e[2] = c
    <2>1. /\ UcxStart(c) /\ UcxFrames(c) /\ UcxCount(c) /\ UcxKept(c)
          /\ ReaderOK /\ BufferOK /\ UcxTypes
      BY <1>1 DEF TransportInv, UcxInv, UcxOf, Receiving, ReaderTypes
    <2>2. reader[c].pc \in {"none", "queued", "frames", "done"}
      BY <1>1, <2>1 DEF TransportInv, ModeInv, ReaderOK, ReaderRecords
    <2>3. ASSUME NEW thread \in {"pool", "progress"},
                 At(thread, c, "count")
          PROVE  c \in registered
      <3>1. Somebody(c, "count")
        BY <2>3 DEF Somebody
      <3>2. delivered[c] = <<>> /\ reader[c].next # 1
        BY <2>1, <3>1, CountFacts
      <3>3. reader[c].pc \in {"frames", "done"}
        BY <2>1, <2>2, <3>2 DEF UcxStart
      <3>4. QED
        BY <2>1, <3>2, <3>3 DEF UcxKept
    <2>4. ASSUME c \in registered, ~Running(c),
                 \A k \in Frames(c[1]) : Frame(c, k) \notin recvs,
                 \A e \in confirming : e[2] # c
          PROVE  FALSE
      <3>1. \A stage : ~Somebody(c, stage)
        <4>1. ASSUME NEW thread, NEW stage PROVE ~At(thread, c, stage)
          <5>1. <<thread, c, stage>>[2] = c
            OBVIOUS
          <5>2. QED
            BY <2>4, <5>1 DEF At
        <4>2. QED
          BY <4>1 DEF Somebody
      <3>2. reader[c].pc = "done"
        BY <2>1, <2>4 DEF UcxKept, Running
      <3>3. reader[c].next = N(c[1]) + 1 /\ N(c[1]) # 0
        BY <2>1, <2>4, <3>2 DEF UcxKept
      <3>4. N(c[1]) \in Nat /\ Frames(c[1]) = 1 .. N(c[1])
        BY ChannelFacts, MessageFacts
      <3>5. ASSUME NEW k \in Frames(c[1]) PROVE buffers[c][k] # 0
        <4>1. k \in Nat /\ k # 0 /\ k < reader[c].next
          BY <3>3, <3>4
        <4>2. Frame(c, k) \notin recvs
          BY <2>4
        <4>3. buffers[c][k] = k
          BY <2>1, <4>1, <4>2 DEF UcxFrames, UcxFrame
        <4>4. QED
          BY <4>1, <4>3
      <3>6. Filled(c) = 1 .. N(c[1])
        BY <3>4, <3>5 DEF Filled
      <3>7. Cardinality(1 .. N(c[1])) = N(c[1])
        <4>1. Cardinality(1 .. N(c[1])) =
                  IF 1 > N(c[1]) THEN 0 ELSE N(c[1]) - 1 + 1
          BY <3>4, FS_Interval
        <4>2. QED
          BY <3>4, <4>1
      <3>8. Counting(c) = 0
        BY <3>1, CountingFacts
      <3>9. counter[c] \in Nat
        BY <2>1 DEF UcxTypes
      <3>10. N(c[1]) = counter[c] + Counting(c)
        BY <2>1, <3>6, <3>7 DEF UcxCount
      <3>11. counter[c] = N(c[1]) /\ N(c[1]) > 0
        BY <3>3, <3>4, <3>8, <3>9, <3>10
      <3>12. delivered[c] # <<>>
        BY <2>1, <3>1, <3>11 DEF UcxCount
      <3>13. QED
        BY <2>1, <2>4, <3>1, <3>12 DEF UcxKept
    <2>5. QED
      BY <2>3, <2>4
  <1>2. ASSUME TransportInv, protocol = "tcp"
        PROVE  ReceiverKeptWhileNeeded
    BY <1>2 DEF TransportInv, ModeInv, ReceiverKeptWhileNeeded
  <1>3. TransportInv => protocol \in {"tcp", "ucx"}
    BY Protocols DEF TransportInv, SenderTypes
  <1>4. TransportInv => ReceiverKeptWhileNeeded
    BY <1>1, <1>2, <1>3 DEF ReceiverKeptWhileNeeded, At, Frame
  <1>5. QED
    BY <1>4, TransportInvariant, PTL
=============================================================================
