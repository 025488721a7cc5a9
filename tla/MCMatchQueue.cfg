SPECIFICATION Spec
CONSTANTS
    u1 = u1
    u2 = u2
    u3 = u3
    u4 = u4
    duel = duel
    quad = quad
    unknown = unknown
    Users = {u1, u2, u3, u4}
    Modes = {duel, quad, unknown}
    Required <- Counts
    ChunkModes = {duel}
    Faults = TRUE
    Restarts = TRUE
    MaxMatches = 2
    NoUser = NoUser
    NoMode = NoMode
INVARIANTS
    QueuedWait
    MatchIsMine
    NoGroupWaits
    GroupTold
PROPERTIES
    MatchedForGood
CHECK_DEADLOCK FALSE
