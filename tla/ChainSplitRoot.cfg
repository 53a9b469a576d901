CONSTANTS
    Difficulty = {1, 3}
    MaxHeight = 4
    MaxBlocks = 6
    MaxCrashes = 0
    StoredHeight = 0
    NoSegment = NoSegment
    Stored <- MCStored
    Block <- Paths
    Genesis <- MCGenesis
    Prev <- MCPrev
    HeightOf <- MCHeightOf
    WorkOf <- MCWorkOf
SPECIFICATION Spec
INVARIANTS
    SplitSegmentIsLeaf
