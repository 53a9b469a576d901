CONSTANTS
    Difficulty = {1, 2, 3}
    MaxHeight = 3
    MaxBlocks = 7
    MaxCrashes = 0
    StoredHeight = 2
    NoSegment = NoSegment
    Stored <- MCStored
    Block <- Paths
    Genesis <- MCGenesis
    Prev <- MCPrev
    HeightOf <- MCHeightOf
    WorkOf <- MCWorkOf
SPECIFICATION RunSpec
INVARIANTS
    TreeLinked
    EveryBlockIsFound
    MainChainSetIsMainChain
    HeavierAlternativeIsFresh
PROPERTIES
    TipMovesForMoreWork
    Implements
CHECK_DEADLOCK FALSE
