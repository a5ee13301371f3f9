------------------------ MODULE MCMessageTransport ------------------------
(***************************************************************************)
(* Traffic for MessageTransport: tables that three nodes broadcast, a      *)
(* table for one node (w1) and metadata for one node (p3).  broadcast()    *)
(* names the other nodes in the order of the context's list of nodes.      *)
(***************************************************************************)
EXTENDS MessageTransport

SomeOrigin ==
    [b1 |-> "n1", b2 |-> "n2", b3 |-> "n3", w1 |-> "n1", p3 |-> "n3"]
SomeDestinations ==
    [b1 |-> <<"n2", "n3">>, b2 |-> <<"n1", "n3">>, b3 |-> <<"n1", "n2">>,
     w1 |-> <<"n2">>, p3 |-> <<"n2">>]
SomeBuffers == [b1 |-> 2, b2 |-> 2, b3 |-> 2, w1 |-> 3, p3 |-> 0]
ManyBuffers == [b1 |-> 3, b2 |-> 3, b3 |-> 3, w1 |-> 3, p3 |-> 0]

Mix(p, ms) == [protocol |-> p, messages |-> ms]
MixedTraffic ==
    {Mix("tcp", {"b1", "b2"}), Mix("tcp", {"b1", "p3"}),
     Mix("ucx", {"b1"}), Mix("ucx", {"w1", "p3"})}
BroadcastTraffic == {Mix("tcp", {"b1", "b2", "b3"})}
=============================================================================
