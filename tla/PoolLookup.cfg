SPECIFICATION Spec
CONSTANTS
    t1 = t1
    t2 = t2
    t3 = t3
    k1 = k1
    k2 = k2
    Tx <- MCTx
    KeyImage <- MCKeyImage
    KeyImagesOf <- MCKeyImagesOf
    MixinHeights <- MCMixinHeights
    Height <- MCHeight
    Timeout = 2
    Word = 16
    Time <- MCTime
INVARIANT
    LookupsArePresent
