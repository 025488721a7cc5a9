SPECIFICATION Spec
CONSTANTS
    m1 = m1
    m2 = m2
    c1 = c1
    c2 = c2
    x = x
    y = y
    k = k
    r1 = r1
    u1 = u1
    u2 = u2
    u3 = u3
    u4 = u4
    Users = {u1, u2, u3, u4}
    Chunks = {c1}
    Cells = {x, y, k}
    Matches = {m1, m2}
    Mines <- MineK
    TeamOf <- TwoPairs
    Faults = TRUE
    LostReplies = TRUE
    Readers = {r1}
    Winners = {0, 1}
    MaxPosts = 1
    MaxRaces = 1
    Nobody = Nobody
    NoMatch = NoMatch
    NoState = NoState
    NoTeam = NoTeam
    NoChunk = NoChunk
    NoOp = NoOp
    NoCopy = NoCopy
CONSTRAINT OneThing
SYMMETRY Symmetry
INVARIANTS
    ChunkExclusive
    LockNotLeaked
    OneUncounted
    ScoreEarned
    ResultRecorded
