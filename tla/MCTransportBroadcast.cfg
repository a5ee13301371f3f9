SPECIFICATION FairSpec
CONSTANTS
    Nodes = {"n1", "n2", "n3"}
    Messages = {"b1", "b2", "b3", "w1", "p3"}
    Origin <- SomeOrigin
    Destinations <- SomeDestinations
    NumBuffers <- ManyBuffers
    Traffic <- BroadcastTraffic
    num_comm_threads = 1
    ucx_listener_threads = 2
    SocketCapacity = 1
    MaxFaults = 0
CHECK_DEADLOCK FALSE
PROPERTY MessagesArrive
