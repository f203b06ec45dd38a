SPECIFICATION Spec
CONSTANTS
    a = a
    b = b
    n1 = n1
    n2 = n2
    x = x
    y = y
    z = z
    good = good
    other = other
    bad = bad
    Absent = Absent
    TrackIds = {1, 2}
    NoteIds = {n1, n2}
    Names = {x, y}
    Starts = {x, y, z}
    Bodies = {good, other, bad}
    PlayableBodies = {good, other}
    Actors = {a, b}
    OperationIds = {1, 2, 3, 4, 5, 6, 7, 8, 9, 10, 11, 12}
    Replicas = {r1}
    Envelopes <- MCReadd
INVARIANT
    NoStaleRevisionAccepted
