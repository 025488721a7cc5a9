\* Every small board, every pair of scores, every box on one axis.
CONSTANTS
    ChunkSize   = 3
    WorldGrid   = 2
    FloodBoards <- MCBoards
    Members     <- MCMembers
    Scores      <- MCScores
    MaxLevel    = 2
    Unit        = 16
    Epsilon     = 2
    Boxes       <- MCBoxes
    Closable    <- MCClosable
    Played      <- MCPlayed
SPECIFICATION Spec
INVARIANTS
    FloodExact
    WinnerExact
    VisibleExact
    CountsExact
    SummaryHonest
\* A behaviour ends when its algorithm does.
CHECK_DEADLOCK FALSE
