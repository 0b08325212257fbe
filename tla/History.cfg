SPECIFICATION Spec
CONSTANTS
    w1 = w1
    w2 = w2
    c1 = c1
    p1 = p1
    p2 = p2
    Writers = {w1, w2}
    Reconnects = {c1}
    Replicas = {p1, p2}
    ReplicaOf <- MCReplicaOf
    MaxLen = 2
    MaxTokens = 1
    MaxFaults = 1
CHECK_DEADLOCK FALSE
INVARIANTS
    TypeOK
PROPERTIES
    ReplayComplete
    ReconnectIsServed
    LiveStreamNotJoined
    ImplementsReplayLog
