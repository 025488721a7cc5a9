SPECIFICATION Spec
CONSTANTS
    m1 = m1
    m2 = m2
    u1 = u1
    u2 = u2
    u3 = u3
    Matches = {m1}
    Users = {u1, u2}
    Workers = {w1}
    Winners = {0, 1}
    TeamOf <- OneMatch
    Faults = TRUE
    MaxSubmits <- Once
    NoTeam = NoTeam
    NoMatch = NoMatch
    NoUser = NoUser
    NoRank = NoRank
INVARIANTS
    LeaderboardCurrent
CHECK_DEADLOCK FALSE
