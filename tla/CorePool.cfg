CONSTANTS
    a = a
    b = b
    c = c
    k1 = k1
    k2 = k2
    MaxHeight = 4
    MaxKnown = 7
    LastCheckpoint = 1
    NoTemplate = NoTemplate
    Block <- Paths
    Genesis <- MCGenesis
    Prev <- MCPrev
    WorkOf <- MCWorkOf
    Stored <- MCStored
    Tx <- MCTx
    KeyImage <- MCKeyImage
    KeyImagesOf <- MCKeyImagesOf
    Needs <- MCNeeds
    HeightOf <- MCHeightOf
    ChainTo <- MCChainTo
    TxsOf <- MCTxsOf
    MixinHeights <- MCMixinHeights
    FitsOn <- MCFitsOn
SPECIFICATION PoolSpec
INVARIANTS
    PoolIsMinable
    TemplateStaysSubmittable
PROPERTY
    SwitchKeepsTransactions
CHECK_DEADLOCK FALSE
