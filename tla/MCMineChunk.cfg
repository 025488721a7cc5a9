SPECIFICATION FairSpec
CONSTANTS
    c1 = c1
    c2 = c2
    a = a
    b = b
    m = m
    u1 = u1
    u2 = u2
    Chunks = {c1, c2}
    Cells = {a, b, m}
    Users = {u1, u2}
    Readers = {d1}
    Mines <- RowMines
    Zeros <- RowZeros
    Neighbors <- RowNeighbors
    Closure = 1
    MaxTime = 3
    MaxVersion <- RowVersions
    Nobody = Nobody
    NoState = NoState
    NoOp = NoOp
    NoTime = NoTime
INVARIANTS
    BoardSound
    ClosedByExperienced
PROPERTIES
    LossNeedsStaleReader
    ClosuresLift
