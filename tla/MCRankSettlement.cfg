SPECIFICATION FairSpec
CONSTANTS
    m1 = m1
    m2 = m2
    u1 = u1
    u2 = u2
    u3 = u3
    Matches = {m1, m2}
    Users = {u1, u2, u3}
    Workers = {w1, w2}
    Winners = {0, 1}
    TeamOf <- SharedPlayer
    Faults = TRUE
    MaxSubmits <- TwiceAndOnce
    NoTeam = NoTeam
    NoMatch = NoMatch
    NoUser = NoUser
    NoRank = NoRank
INVARIANTS
    SettledOnce
    NoResultLost
    LeaderboardFollows
PROPERTIES
    SettlementFinal
    ResultsSettle
CHECK_DEADLOCK FALSE
