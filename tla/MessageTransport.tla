-------------------------- MODULE MessageTransport --------------------------
(***************************************************************************)
(* How a message gets from the output message cache of one node to the     *)
(* caches of its destinations: message_sender and its pool of sending      *)
(* tasks, buffer_transport with its TCP and UCX forms, message_listener    *)
(* with its pool of receiving tasks, message_receiver and                  *)
(* ucp_progress_manager (communication/CommunicationInterface).            *)
(*                                                                         *)
(* The sending pool and the TCP listener's have num_comm_threads threads,  *)
(* the UCX listener's a fixed number.  A message is its metadata (frame 0) *)
(* and the buffers of its table (frames 1, 2, ...); the number of a frame  *)
(* and the index of a buffer are a uint16_t, which MaxFrameId respects.    *)
(* With TCP a connection carries one message to one destination; the       *)
(* sending task blocks in write() when the connection holds SocketCapacity *)
(* buffers nobody has read.  With UCX frames are matched by their tag;     *)
(* the one progress thread of a node runs the callbacks of all its         *)
(* requests, and a thread that was told of a new message waits until the   *)
(* pool has posted the receives for all its frames.                        *)
(*                                                                         *)
(* Abstracted: the bytes of a buffer are its number; the backlog and the   *)
(* accept thread are the FIFO of the listener's pool, since neither loses  *)
(* nor reorders; the output message cache may offer its messages in any    *)
(* order; acknowledgements, which initialize.cpp switches off.             *)
(***************************************************************************)
EXTENDS Naturals, Sequences, FiniteSets, Functions

CONSTANTS
    Nodes,
    Messages,
    Origin,             \* the node that sends a message
    Destinations,       \* WORKER_IDS_METADATA_LABEL: one node, or all the
                        \* other nodes of the context in their order
    NumBuffers,         \* the number of raw buffers of a message's table
    Traffic,            \* what to consider: a protocol, messages to send
    num_comm_threads,   \* MAX_SEND_MESSAGE_THREADS
    ucx_listener_threads,   \* 20 in initialize
    SocketCapacity,     \* buffers the kernel takes before write() blocks
    MaxFaults           \* bound on the number of failures

\* blazing_ucp_tag::frame_id and the index in allocate_buffer and get_buffer
\* are a uint16_t, which is not checked: a table of more buffers would
\* give two of its frames the same tag.
MaxFrameId == 65535

ASSUME TransportAssumption ==
    /\ Origin \in [Messages -> Nodes]
    /\ Destinations \in [Messages -> Seq(Nodes)]
    /\ \A m \in Messages :
           Destinations[m] # <<>> /\ IsInjective(Destinations[m])
    /\ NumBuffers \in [Messages -> 0 .. MaxFrameId]
    /\ Traffic \subseteq [protocol : {"tcp", "ucx"},
                           messages : SUBSET Messages]
    /\ num_comm_threads \in Nat \ {0}
    /\ ucx_listener_threads \in Nat \ {0}
    /\ SocketCapacity \in Nat \ {0}
    /\ MaxFaults \in Nat

\* A message on its way to one of its destinations.
Channels ==
    {c \in Messages \X Nodes : c[2] \in Range(Destinations[c[1]])}

VARIABLES
    traffic,        \* the protocol of the cluster and what its output
                    \* message caches hold; it never changes
    task,           \* the sending tasks: where they are, the next write
    begun,          \* buffer_transport::transmitted_begin_frames
    transmitted,    \* buffer_transport::transmitted_frames
    socket,         \* the connections: who holds them open, bytes in them
    wire,           \* UCX frames sent and not yet matched by a receive
    sends,          \* ucp_progress_manager::send_requests
    recvs,          \* ucp_progress_manager::recv_requests
    queue,          \* the listener pools' queues
    reader,         \* the receiving tasks: where they are, the next buffer
    told,           \* threads waiting in recv_begin_callback_c
    confirming,     \* threads inside a frame's callback
    registered,     \* ucx_message_listener::tag_to_receiver
    counter,        \* message_receiver::_buffer_counter
    buffers,        \* message_receiver::_raw_buffers; 0: nothing received
    delivered,      \* the tables finish() added to the output cache
    down,           \* nodes whose process was terminated
    faults          \* history: failures so far

senderVars == <<task, begun, transmitted>>
tcpVars == <<socket>>
ucxVars == <<wire, sends, recvs, told, confirming, registered, counter>>
readerVars == <<queue, reader, buffers, delivered>>
vars == <<traffic, senderVars, tcpVars, ucxVars, readerVars, down, faults>>

protocol == traffic.protocol
Frames(m) == 1 .. NumBuffers[m]
Whole(m) == [k \in Frames(m) |-> k]
Chan(r) == <<r[1], r[2]>>
Up(n) == n \notin down
Sending(m) == task[m].pc \in {"connect", "begin", "started", "frames"}
Ended(c) == reader[c].pc \in {"done", "closed"}
Running(c) == reader[c].pc \in {"begin", "frames", "spin"}

Requests == UNION {{<<c[1], c[2], k>> : k \in 0 .. NumBuffers[c[1]]} :
                      c \in Channels}

TypeOK ==
    /\ traffic \in Traffic
    /\ \A m \in Messages :
        /\ task[m].pc \in {"waiting", "connect", "begin", "started",
                           "frames", "done", "failed"}
        /\ task[m].dest \in 1 .. Len(Destinations[m])
        /\ task[m].frame \in 1 .. NumBuffers[m] + 1
        /\ begun[m] \in 0 .. Len(Destinations[m])
        /\ transmitted[m] \in 0 .. NumBuffers[m] * Len(Destinations[m])
    /\ \A c \in Channels :
        /\ socket[c].state \in {"none", "open", "closed"}
        /\ socket[c].data \in Seq(0 .. NumBuffers[c[1]])
        /\ reader[c].pc \in {"none", "queued", "begin", "frames", "spin",
                             "done", "closed"}
        /\ reader[c].next \in 1 .. NumBuffers[c[1]] + 1
        /\ counter[c] \in 0 .. NumBuffers[c[1]]
        /\ buffers[c] \in [Frames(c[1]) -> 0 .. NumBuffers[c[1]]]
    /\ wire \subseteq Requests
    /\ sends \subseteq Requests
    /\ recvs \subseteq Requests
    /\ told \subseteq {"poll", "progress"} \X Channels
    /\ confirming \subseteq {"pool", "progress"} \X Channels
                            \X {"count", "finish", "check"}
    /\ registered \subseteq Channels
    /\ down \subseteq Nodes
    /\ faults \in 0 .. MaxFaults

Init ==
    /\ traffic \in Traffic
    /\ task = [m \in Messages |->
                  [pc |-> "waiting", dest |-> 1, frame |-> 1]]
    /\ begun = [m \in Messages |-> 0]
    /\ transmitted = [m \in Messages |-> 0]
    /\ socket = [c \in Channels |-> [state |-> "none", data |-> <<>>]]
    /\ wire = {} /\ sends = {} /\ recvs = {}
    /\ queue = [n \in Nodes |-> <<>>]
    /\ reader = [c \in Channels |-> [pc |-> "none", next |-> 1]]
    /\ told = {} /\ confirming = {} /\ registered = {}
    /\ counter = [c \in Channels |-> 0]
    /\ buffers = [c \in Channels |-> [k \in Frames(c[1]) |-> 0]]
    /\ delivered = [c \in Channels |-> <<>>]
    /\ down = {}
    /\ faults = 0
-----------------------------------------------------------------------------
(***************************************************************************)
(* The sending task, for both protocols.                                   *)
(***************************************************************************)

\* The polling thread pushed the message to the pool and a thread takes it.
\* The constructor of ucx_buffer_transport only makes a tag.
StartSend(m) ==
    /\ Up(Origin[m])
    /\ m \in traffic.messages
    /\ task[m].pc = "waiting"
    /\ Cardinality({x \in Messages : Origin[x] = Origin[m] /\ Sending(x)})
         < num_comm_threads
    /\ task' = [task EXCEPT ![m].pc =
                   IF protocol = "tcp" THEN "connect" ELSE "begin"]
    /\ UNCHANGED <<traffic, begun, transmitted, tcpVars, ucxVars,
                   readerVars, down, faults>>

BeginTransmittedStrict(m) == begun[m] > Len(Destinations[m])
BeginTransmitted(m) == begun[m] >= Len(Destinations[m])

WaitForBeginTransmission(m) ==
    /\ Up(Origin[m])
    /\ task[m].pc = "started"
    /\ BeginTransmitted(m)
    /\ task' = [task EXCEPT ![m].pc = "frames"]
    /\ UNCHANGED <<traffic, begun, transmitted, tcpVars, ucxVars,
                   readerVars, down, faults>>

AllTransmittedOnce(m) == transmitted[m] >= NumBuffers[m]
AllTransmitted(m) ==
    transmitted[m] >= NumBuffers[m] * Len(Destinations[m])

\* The destructor of tcp_buffer_transport closes its sockets.
CloseSockets(m) ==
    [c \in Channels |->
        IF c[1] = m /\ socket[c].state = "open"
        THEN [socket[c] EXCEPT !.state = "closed"]
        ELSE socket[c]]

WaitUntilComplete(m) ==
    /\ Up(Origin[m])
    /\ task[m].pc = "frames"
    /\ task[m].frame > NumBuffers[m]
    /\ AllTransmitted(m)
    /\ task' = [task EXCEPT ![m].pc = "done"]
    /\ socket' = CloseSockets(m)
    /\ UNCHANGED <<traffic, begun, transmitted, ucxVars, readerVars, down,
                   faults>>
-----------------------------------------------------------------------------
(***************************************************************************)
(* TCP: the constructor connects to one destination after the other, then  *)
(* every buffer is written to all of them before the next one.             *)
(***************************************************************************)

Here(m) == <<m, Destinations[m][task[m].dest]>>
LastDest(m) == task[m].dest = Len(Destinations[m])

Connect(m) ==
    /\ task[m].pc = "connect"
    /\ LET c == Here(m) IN
        /\ socket' = [socket EXCEPT ![c].state = "open"]
        /\ queue' = [queue EXCEPT ![c[2]] = Append(@, c)]
        /\ reader' = [reader EXCEPT ![c].pc = "queued"]
    /\ task' = [task EXCEPT
                   ![m].pc = IF LastDest(m) THEN "begin" ELSE @,
                   ![m].dest = IF LastDest(m) THEN 1 ELSE @ + 1]
    /\ UNCHANGED <<traffic, begun, transmitted, ucxVars, buffers,
                   delivered, down, faults>>

\* socket() or connect() fails: the constructor throws, so that no
\* destructor closes the sockets it has already opened.
ConnectThrows(m) ==
    /\ task[m].pc = "connect"
    /\ faults < MaxFaults
    /\ faults' = faults + 1
    /\ task' = [task EXCEPT ![m].pc = "failed"]
    /\ UNCHANGED <<traffic, begun, transmitted, tcpVars, ucxVars,
                   readerVars, down>>

\* The metadata are small and are the first bytes in each connection:
\* writing them never blocks.  Here the first j destinations have them.
BeginTo(m, j) ==
    {c \in Channels : c[1] = m /\ \E i \in 1 .. j : c[2] = Destinations[m][i]}

TcpSendBegin(m) ==
    /\ protocol = "tcp"
    /\ task[m].pc = "begin"
    /\ socket' = [c \in Channels |->
                     IF c \in BeginTo(m, Len(Destinations[m]))
                     THEN [socket[c] EXCEPT !.data = <<0>>]
                     ELSE socket[c]]
    /\ begun' = [begun EXCEPT ![m] = Len(Destinations[m])]
    /\ task' = [task EXCEPT ![m].pc = "started"]
    /\ UNCHANGED <<traffic, transmitted, ucxVars, readerVars, down, faults>>

\* After increment_frame_transmission: the next socket, or the next buffer.
Advance(m) ==
    /\ transmitted' = [transmitted EXCEPT ![m] = @ + 1]
    /\ task' = [task EXCEPT
                   ![m].dest = IF LastDest(m) THEN 1 ELSE @ + 1,
                   ![m].frame = IF LastDest(m) THEN @ + 1 ELSE @]

Unread(c) == Cardinality({i \in DOMAIN socket[c].data :
                              socket[c].data[i] # 0})

TcpSend(m) ==
    /\ protocol = "tcp"
    /\ task[m].pc = "frames"
    /\ task[m].frame <= NumBuffers[m]
    /\ reader[Here(m)].pc # "closed"
    /\ Unread(Here(m)) < SocketCapacity
    /\ socket' = [socket EXCEPT ![Here(m)].data =
                     Append(@, task[m].frame)]
    /\ Advance(m)
    /\ UNCHANGED <<traffic, begun, ucxVars, readerVars, down, faults>>

\* The receiver has closed the connection: the kernel may still take the
\* bytes; when it does not, write_to_socket gives up after its retries, and
\* the exception destroys the transport and with it all its sockets.
TcpSendToClosed(m) ==
    /\ protocol = "tcp"
    /\ task[m].pc = "frames"
    /\ task[m].frame <= NumBuffers[m]
    /\ reader[Here(m)].pc = "closed"
    /\ \/ Advance(m) /\ UNCHANGED socket
       \/ /\ task' = [task EXCEPT ![m].pc = "failed"]
          /\ socket' = CloseSockets(m)
          /\ UNCHANGED transmitted
    /\ UNCHANGED <<traffic, begun, ucxVars, readerVars, down, faults>>

\* write_to_socket throws at some destination, of the metadata or of a
\* buffer, and the destructor closes all the sockets of the message.
TcpSendThrows(m) ==
    /\ protocol = "tcp"
    /\ faults < MaxFaults
    /\ faults' = faults + 1
    /\ \/ /\ task[m].pc = "begin"
          /\ \E j \in 0 .. Len(Destinations[m]) - 1 :
              /\ begun' = [begun EXCEPT ![m] = j]
              /\ socket' = [c \in Channels |->
                    IF c \in BeginTo(m, j)
                    THEN [CloseSockets(m)[c] EXCEPT !.data = <<0>>]
                    ELSE CloseSockets(m)[c]]
       \/ /\ task[m].pc = "frames"
          /\ task[m].frame <= NumBuffers[m]
          /\ socket' = CloseSockets(m)
          /\ UNCHANGED begun
    /\ task' = [task EXCEPT ![m].pc = "failed"]
    /\ UNCHANGED <<traffic, transmitted, ucxVars, readerVars, down>>
-----------------------------------------------------------------------------
(***************************************************************************)
(* The receiving task.  The pool of a listener takes its queue in order.   *)
(* With TCP it makes its message_receiver once it has read the metadata,   *)
(* with UCX at its start.                                                  *)
(***************************************************************************)

Busy(n) == {c \in Channels : c[2] = n /\ Running(c)}
ListenerThreads ==
    IF protocol = "tcp" THEN num_comm_threads ELSE ucx_listener_threads

StartReceive(n) ==
    /\ Up(n)
    /\ queue[n] # <<>>
    /\ Cardinality(Busy(n)) < ListenerThreads
    /\ LET c == Head(queue[n]) IN
        /\ reader' = [reader EXCEPT ![c].pc =
                          IF protocol = "tcp" THEN "begin" ELSE "frames"]
        /\ registered' = IF protocol = "tcp" THEN registered
                                             ELSE registered \cup {c}
    /\ queue' = [queue EXCEPT ![n] = Tail(@)]
    /\ UNCHANGED <<traffic, senderVars, tcpVars, wire, sends, recvs, told,
                   confirming, counter, buffers, delivered, down, faults>>

TcpReadBegin(c) ==
    /\ reader[c].pc = "begin"
    /\ socket[c].data # <<>>
    /\ socket' = [socket EXCEPT ![c].data = Tail(@)]
    /\ reader' = [reader EXCEPT ![c].pc = "frames"]
    /\ UNCHANGED <<traffic, senderVars, ucxVars, queue, buffers, delivered,
                   down, faults>>

AllReadLate(c) == reader[c].next > NumBuffers[c[1]] + 1
AllRead(c) == reader[c].next > NumBuffers[c[1]]

TcpReadFrame(c) ==
    /\ protocol = "tcp"
    /\ reader[c].pc = "frames"
    /\ ~AllRead(c)
    /\ socket[c].data # <<>>
    /\ buffers' = [buffers EXCEPT ![c][reader[c].next] =
                       Head(socket[c].data)]
    /\ socket' = [socket EXCEPT ![c].data = Tail(@)]
    /\ reader' = [reader EXCEPT ![c].next = @ + 1]
    /\ UNCHANGED <<traffic, senderVars, ucxVars, queue, delivered, down,
                   faults>>

\* read() returns 0 on a connection that the sender has closed: nothing is
\* added to amount_read and count_invalids becomes 0, so that the loop of
\* read_from_socket goes round for ever.
TcpReadEnd(c) ==
    /\ reader[c].pc \in {"begin", "frames"}
    /\ reader[c].pc = "frames" => ~AllRead(c)
    /\ socket[c] = [state |-> "closed", data |-> <<>>]
    /\ reader' = [reader EXCEPT ![c].pc = "spin"]
    /\ UNCHANGED <<traffic, senderVars, tcpVars, ucxVars, queue, buffers,
                   delivered, down, faults>>

\* read_from_socket, the constructor of message_receiver, allocate_buffer or
\* finish() throws: the task logs it and closes the connection.  After
\* finish() that is the second time; a descriptor that has been given out
\* again meanwhile is another connection of the node, whose task then meets
\* the error as TcpReceiveThrows or TcpSendThrows.
TcpReceiveThrows(c) ==
    /\ protocol = "tcp"
    /\ reader[c].pc \in {"begin", "frames"}
    /\ faults < MaxFaults
    /\ faults' = faults + 1
    /\ reader' = [reader EXCEPT ![c].pc = "closed"]
    /\ UNCHANGED <<traffic, senderVars, tcpVars, ucxVars, queue, buffers,
                   delivered, down>>

\* message_receiver::finish, with _finished_called.
Deliver(c) ==
    delivered' = [delivered EXCEPT ![c] =
                     IF @ = <<>> THEN Append(@, buffers[c]) ELSE @]

TcpFinish(c) ==
    /\ protocol = "tcp"
    /\ reader[c].pc = "frames"
    /\ AllRead(c)
    /\ Deliver(c)
    /\ reader' = [reader EXCEPT ![c].pc = "done"]
    /\ UNCHANGED <<traffic, senderVars, tcpVars, ucxVars, queue, buffers,
                   down, faults>>
-----------------------------------------------------------------------------
(***************************************************************************)
(* UCX, the sending side.  Every send is a request that the progress       *)
(* thread of the node completes; an error there ends the process, since    *)
(* the exception leaves the thread.                                        *)
(***************************************************************************)

ProgressIdle(n) ==
    /\ Up(n)
    /\ \A c \in Channels : c[2] = n =>
        /\ <<"progress", c>> \notin told
        /\ \A s \in {"count", "finish", "check"} :
              <<"progress", c, s>> \notin confirming

\* check_progress forgets a request after its callback.
KeepRequest(requests, r) == requests
EraseRequest(requests, r) == requests \ {r}

\* Posts frame k of m to the first j destinations.
Post(m, k, j) ==
    LET new == {<<m, Destinations[m][i], k>> : i \in 1 .. j}
    IN  wire' = wire \cup new /\ sends' = sends \cup new

UcxSendBegin(m) ==
    /\ Up(Origin[m])
    /\ protocol = "ucx"
    /\ task[m].pc = "begin"
    /\ Post(m, 0, Len(Destinations[m]))
    /\ task' = [task EXCEPT ![m].pc = "started"]
    /\ UNCHANGED <<traffic, begun, transmitted, tcpVars, recvs, told,
                   confirming, registered, counter, readerVars, down,
                   faults>>

UcxSend(m) ==
    /\ Up(Origin[m])
    /\ protocol = "ucx"
    /\ task[m].pc = "frames"
    /\ task[m].frame <= NumBuffers[m]
    /\ Post(m, task[m].frame, Len(Destinations[m]))
    /\ task' = [task EXCEPT ![m].frame = @ + 1]
    /\ UNCHANGED <<traffic, begun, transmitted, tcpVars, recvs, told,
                   confirming, registered, counter, readerVars, down,
                   faults>>

\* ucp_tag_send_nbr fails at some destination: the exception destroys the
\* transport while the requests of earlier sends still point to it.
UcxSendThrows(m) ==
    /\ Up(Origin[m])
    /\ protocol = "ucx"
    /\ faults < MaxFaults
    /\ faults' = faults + 1
    /\ \E j \in 0 .. Len(Destinations[m]) - 1 :
        \/ task[m].pc = "begin" /\ Post(m, 0, j)
        \/ /\ task[m].pc = "frames"
           /\ task[m].frame <= NumBuffers[m]
           /\ Post(m, task[m].frame, j)
    /\ task' = [task EXCEPT ![m].pc = "failed"]
    /\ UNCHANGED <<traffic, begun, transmitted, tcpVars, recvs, told,
                   confirming, registered, counter, readerVars, down>>

\* The callback counts the frame.  If the transport is gone it locks a
\* mutex that no longer exists: nothing happens, or the process ends.
CompleteSend(r) ==
    /\ r \in sends
    /\ ProgressIdle(Origin[r[1]])
    /\ sends' = EraseRequest(sends, r)
    /\ IF task[r[1]].pc = "failed"
       THEN /\ down' \in {down, down \cup {Origin[r[1]]}}
            /\ UNCHANGED <<begun, transmitted>>
       ELSE /\ IF r[3] = 0
               THEN /\ begun' = [begun EXCEPT ![r[1]] = @ + 1]
                    /\ UNCHANGED transmitted
               ELSE /\ transmitted' = [transmitted EXCEPT ![r[1]] = @ + 1]
                    /\ UNCHANGED begun
            /\ UNCHANGED down
    /\ UNCHANGED <<traffic, task, tcpVars, wire, recvs, told, confirming,
                   registered, counter, readerVars, faults>>

\* A request to a process that has ended gets an error status.
SendStatusThrows(r) ==
    /\ r \in sends
    /\ r[2] \in down
    /\ ProgressIdle(Origin[r[1]])
    /\ down' = down \cup {Origin[r[1]]}
    /\ UNCHANGED <<traffic, senderVars, tcpVars, ucxVars, readerVars,
                   faults>>
-----------------------------------------------------------------------------
(***************************************************************************)
(* UCX, the receiving side.  A receive completes at once or, any time      *)
(* after its frame was sent, on the progress thread.                       *)
(***************************************************************************)

\* recv_begin_callback_c: the thread hands the message to the pool and
\* waits for the task.
Tell(thread, c) ==
    /\ told' = told \cup {<<thread, c>>}
    /\ queue' = [queue EXCEPT ![c[2]] = Append(@, c)]
    /\ reader' = [reader EXCEPT ![c].pc = "queued"]

PollIdle(n) ==
    Up(n) /\ \A c \in Channels : c[2] = n => <<"poll", c>> \notin told

\* Once the receive is posted the next probe does not see the message.
Probed(r) == r[3] = 0 /\ r \in wire \ recvs

PollBeginMessageTag(r) ==
    /\ Probed(r)
    /\ PollIdle(r[2])
    /\ \/ /\ wire' = wire \ {r}
          /\ Tell("poll", Chan(r))
          /\ UNCHANGED recvs
       \/ /\ recvs' = recvs \cup {r}
          /\ UNCHANGED <<wire, told, queue, reader>>
    /\ UNCHANGED <<traffic, senderVars, tcpVars, sends, confirming,
                   registered, counter, buffers, delivered, down, faults>>

\* The progress thread calls the callback of a completed receive, of the
\* metadata or of a frame.
CompleteRecv(r) ==
    /\ r \in recvs \cap wire
    /\ ProgressIdle(r[2])
    /\ recvs' = EraseRequest(recvs, r)
    /\ wire' = wire \ {r}
    /\ \/ /\ r[3] = 0
          /\ Tell("progress", Chan(r))
          /\ UNCHANGED <<confirming, buffers>>
       \/ /\ r[3] > 0
          /\ buffers' = [buffers EXCEPT ![Chan(r)][r[3]] = r[3]]
          /\ confirming' = confirming \cup {<<"progress", Chan(r), "count">>}
          /\ UNCHANGED <<told, queue, reader>>
    /\ UNCHANGED <<traffic, senderVars, tcpVars, sends, registered,
                   counter, delivered, down, faults>>

PoolFree(c) == \A s \in {"count", "finish", "check"} :
                  <<"pool", c, s>> \notin confirming

\* poll_for_frames: one turn of its loop.
UcxPostReceive(c) ==
    /\ Up(c[2])
    /\ protocol = "ucx"
    /\ reader[c].pc = "frames"
    /\ ~AllRead(c)
    /\ PoolFree(c)
    /\ LET r == <<c[1], c[2], reader[c].next>> IN
        \/ /\ r \in wire
           /\ wire' = wire \ {r}
           /\ buffers' = [buffers EXCEPT ![c][r[3]] = r[3]]
           /\ confirming' = confirming \cup {<<"pool", c, "count">>}
           /\ UNCHANGED recvs
        \/ /\ recvs' = recvs \cup {r}
           /\ UNCHANGED <<wire, buffers, confirming>>
    /\ reader' = [reader EXCEPT ![c].next = @ + 1]
    /\ UNCHANGED <<traffic, senderVars, tcpVars, sends, told, registered,
                   counter, queue, delivered, down, faults>>

\* ucp_tag_recv_nbr, allocate_buffer or finish() fails, in the polling or
\* the progress thread or in the task whose exception comes out of
\* fwd.get() in one of them: no thread catches it for good and the process
\* ends.
UcxReceiveThrows(c) ==
    /\ Up(c[2])
    /\ protocol = "ucx"
    /\ \/ Probed(<<c[1], c[2], 0>>) /\ PollIdle(c[2])
       \/ /\ reader[c].pc = "frames"
          /\ ~AllRead(c) \/ NumBuffers[c[1]] = 0
          /\ PoolFree(c)
       \/ \E thread \in {"pool", "progress"} :
              <<thread, c, "finish">> \in confirming
    /\ faults < MaxFaults
    /\ faults' = faults + 1
    /\ down' = down \cup {c[2]}
    /\ UNCHANGED <<traffic, senderVars, tcpVars, ucxVars, readerVars>>

\* ++_buffer_counter == _raw_buffers.size().  The size is read without a
\* lock while finish() may move the vector away, but then this is not the
\* last frame and its number is not 0 either.
LastConfirmedEarly(c) == counter[c] + 2 >= NumBuffers[c[1]]
LastConfirmed(c) == counter[c] + 1 = NumBuffers[c[1]]

\* get_receiver and confirm_transmission up to the comparison.  A tag that
\* is not in the map throws and ends the process.
ConfirmTransmission(thread, c) ==
    /\ Up(c[2])
    /\ <<thread, c, "count">> \in confirming
    /\ IF c \in registered
       THEN /\ counter' = [counter EXCEPT ![c] = @ + 1]
            /\ confirming' =
                 (confirming \ {<<thread, c, "count">>}) \cup
                 {<<thread, c, IF LastConfirmed(c) THEN "finish"
                                                   ELSE "check">>}
            /\ UNCHANGED down
       ELSE /\ down' = down \cup {c[2]}
            /\ UNCHANGED <<counter, confirming>>
    /\ UNCHANGED <<traffic, senderVars, tcpVars, wire, sends, recvs, told,
                   registered, readerVars, faults>>

Finish(thread, c) ==
    /\ Up(c[2])
    /\ <<thread, c, "finish">> \in confirming
    /\ Deliver(c)
    /\ confirming' = (confirming \ {<<thread, c, "finish">>})
                     \cup {<<thread, c, "check">>}
    /\ UNCHANGED <<traffic, senderVars, tcpVars, wire, sends, recvs, told,
                   registered, counter, queue, reader, buffers, down,
                   faults>>

\* is_finished, and remove_receiver when it is.
RemoveAlways(c) == registered \ {c}
RemoveIfFinished(c) ==
    IF delivered[c] # <<>> THEN registered \ {c} ELSE registered

EndCallback(thread, c) ==
    /\ Up(c[2])
    /\ <<thread, c, "check">> \in confirming
    /\ registered' = RemoveIfFinished(c)
    /\ confirming' = confirming \ {<<thread, c, "check">>}
    /\ UNCHANGED <<traffic, senderVars, tcpVars, wire, sends, recvs, told,
                   counter, readerVars, down, faults>>

\* The receives of all frames are posted, or there are none: the thread in
\* recv_begin_callback_c goes on.
UcxReceiveEnds(c) ==
    /\ Up(c[2])
    /\ protocol = "ucx"
    /\ reader[c].pc = "frames"
    /\ AllRead(c)
    /\ PoolFree(c)
    /\ IF NumBuffers[c[1]] = 0
       THEN registered' = registered \ {c} /\ Deliver(c)
       ELSE UNCHANGED <<registered, delivered>>
    /\ reader' = [reader EXCEPT ![c].pc = "done"]
    /\ told' = told \ {<<"poll", c>>, <<"progress", c>>}
    /\ UNCHANGED <<traffic, senderVars, tcpVars, wire, sends, recvs,
                   confirming, counter, queue, buffers, down, faults>>
-----------------------------------------------------------------------------
SenderNext(m) ==
    \/ StartSend(m)
    \/ WaitForBeginTransmission(m)
    \/ WaitUntilComplete(m)
    \/ Connect(m)
    \/ TcpSendBegin(m)
    \/ TcpSend(m)
    \/ TcpSendToClosed(m)
    \/ UcxSendBegin(m)
    \/ UcxSend(m)

ReaderNext(c) ==
    \/ TcpReadBegin(c)
    \/ TcpReadFrame(c)
    \/ TcpReadEnd(c)
    \/ TcpFinish(c)
    \/ UcxPostReceive(c)
    \/ UcxReceiveEnds(c)
    \/ \E thread \in {"pool", "progress"} :
        \/ ConfirmTransmission(thread, c)
        \/ Finish(thread, c)
        \/ EndCallback(thread, c)

RequestNext(r) ==
    \/ CompleteSend(r)
    \/ SendStatusThrows(r)
    \/ PollBeginMessageTag(r)
    \/ CompleteRecv(r)

Fault ==
    \/ \E m \in Messages :
           ConnectThrows(m) \/ TcpSendThrows(m) \/ UcxSendThrows(m)
    \/ \E c \in Channels : TcpReceiveThrows(c) \/ UcxReceiveThrows(c)

Progress ==
    \/ \E m \in Messages : SenderNext(m)
    \/ \E n \in Nodes : StartReceive(n)
    \/ \E c \in Channels : ReaderNext(c)
    \/ \E r \in sends \cup recvs \cup wire : RequestNext(r)

Next == Progress \/ Fault

Spec == Init /\ [][Next]_vars

\* Threads run, pools take their queues, the network delivers what was sent
\* and the progress thread comes by every request that is done.  No step
\* can be taken for ever, so that it is enough that the system does not
\* stop while one can be taken.  A failure is never forced.
FairSpec == Spec /\ WF_vars(Progress)
-----------------------------------------------------------------------------
(***************************************************************************)
(* Properties.                                                             *)
(***************************************************************************)

\* A destination's cache gets the table of a message at most once, and with
\* every frame in the buffer it was sent from: whichever of the two threads
\* that confirm UCX frames comes last, and whatever breaks on the way, no
\* partial table is ever handed to a kernel (message_receiver::finish).
DeliveredOnceAndWhole ==
    \A c \in Channels : delivered[c] \in {<<>>, <<Whole(c[1])>>}

\* The callback of a frame always finds its receiver in tag_to_receiver,
\* although another thread may remove it as soon as the message is
\* finished; and once all the threads are through with a message its
\* receiver is no longer there.
ReceiverKeptWhileNeeded ==
    \A c \in Channels :
        /\ \A thread \in {"pool", "progress"} :
              <<thread, c, "count">> \in confirming => c \in registered
        /\ c \in registered =>
              \/ Running(c)
              \/ \E k \in Frames(c[1]) : <<c[1], c[2], k>> \in recvs
              \/ \E e \in confirming : e[2] = c

\* A sending task that returned gives the chunks of its table back to the
\* pool and destroys the transport: by then no request may be under way
\* that reads those chunks or whose callback uses the transport
\* (buffer_transport::wait_until_complete counts all destinations).
BuffersKeptWhileSent ==
    \A m \in Messages : task[m].pc = "done" =>
        \A r \in sends : r[1] # m

\* A listener's thread is lost in read_from_socket only to a message whose
\* sender failed: when the sender has finished and closed the connection,
\* the receiver still finds every byte it waits for.
SpinMeansSenderFailed ==
    \A c \in Channels : reader[c].pc = "spin" => task[c[1]].pc = "failed"

\* Unless something fails, every message reaches every destination:
\* run_polling "listens on a cache for data and send it off".
MessagesArrive ==
    <>(\A c \in Channels :
          c[1] \in traffic.messages /\ faults = 0 => delivered[c] # <<>>)
=============================================================================
