CONSTANTS
    Difficulty = {1, 3}
    MaxHeight = 4
    MaxBlocks = 7
    MaxCrashes = 0
    StoredHeight = 0
    NoSegment = NoSegment
    Stored <- MCStored
    Block <- ForkOfFork
    Genesis <- MCGenesis
    Prev <- MCPrev
    HeightOf <- MCHeightOf
    WorkOf <- MCWorkOf
SPECIFICATION Spec
PROPERTIES
    StorageReachesSplit
