SPECIFICATION Spec
CONSTANTS
    a1 = a1
    a2 = a2
    b1 = b1
    c1 = c1
    pa = pa
    pb = pb
    pc = pc
    s1 = s1
    s2 = s2
    Sockets = {a1, a2, b1}
    Sessions = {s1}
    Peers = {pa, pb, pc}
    SessionOf <- MCSessionOf
    PeerOf <- MCPeerOf
    Capacity = 2
    MaxRelays = 2
INVARIANTS
    TypeOK
    RoomsMatchTasks
    LostOnlyByOverrun
PROPERTIES
    RelaysInOrder
    GoneClientsLeave
    DepartureIsSeen
CHECK_DEADLOCK FALSE
