SPECIFICATION Spec
CONSTANTS
    a1 = a1
    a2 = a2
    b1 = b1
    c1 = c1
    pa = pa
    pb = pb
    pc = pc
    s1 = s1
    s2 = s2
    Sockets = {a1, a2, b1, c1}
    Sessions = {s1, s2}
    Peers = {pa, pb, pc}
    SessionOf <- MCTwoSessions
    PeerOf <- MCPeerOf
    Capacity = 1
    MaxRelays = 1
INVARIANTS
    RelaysStayInSession
    PresenceIsTracked
CHECK_DEADLOCK FALSE
