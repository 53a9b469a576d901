----------------------------- MODULE MCCorePool -----------------------------
(* An instance of CorePool for TLC.  A block is the path to it from genesis, each *)
(* step of which is the set of transactions of one block; all blocks have the     *)
(* same difficulty.  Transactions a and b spend the same key image, c has an      *)
(* output of a in its ring, b has a mixin that is only allowed in the first blocks. *)
EXTENDS CorePool, TLC

CONSTANTS
    a, b, c,      \* transactions
    k1, k2,       \* key images
    MaxHeight     \* bound: height of a block

MCTx == {a, b, c}
MCKeyImage == {k1, k2}
MCKeyImagesOf == (a :> {k1}) @@ (b :> {k1}) @@ (c :> {k2})
MCNeeds == (a :> {}) @@ (b :> {}) @@ (c :> {a})

Contents == {{}, {a}, {b}, {c}}

\* Valid on top of a path: what validateTransaction asks, in the checkpoint zone too.
ValidPath(p) ==
    \A i \in DOMAIN p : \A t \in p[i] :
        /\ \A j \in 1 .. i - 1 : MCKeyImagesOf[t] \cap UNION {MCKeyImagesOf[u] : u \in p[j]} = {}
        /\ MCNeeds[t] \subseteq UNION {p[j] : j \in 1 .. i - 1}

\* The block at the checkpoint has no transaction.
Paths ==
    {p \in UNION {[1 .. n -> Contents] : n \in 0 .. MaxHeight} :
        /\ ValidPath(p)
        /\ LastCheckpoint \in DOMAIN p => p[LastCheckpoint] = {}}

MCGenesis == <<>>
MCPrev == [p \in Paths \ {<<>>} |-> SubSeq(p, 1, Len(p) - 1)]
MCHeightOf == [p \in Paths |-> Len(p)]
MCWorkOf == [p \in Paths |-> Len(p) + 1]
MCChainTo == [p \in Paths |-> {SubSeq(p, 1, n) : n \in 0 .. Len(p)}]
MCTxsOf == [p \in Paths |-> IF p = <<>> THEN {} ELSE p[Len(p)]]
MCMixinHeights == (a :> 0 .. MaxHeight) @@ (b :> 0 .. 2) @@ (c :> 0 .. MaxHeight)
\* After a block without transactions the median is small, and c is too large.
MCFitsOn == [p \in Paths |-> IF p # <<>> /\ Len(p) > LastCheckpoint + 1 /\ p[Len(p)] = {}
                             THEN MCTx \ {c} ELSE MCTx]
MCStored == {<<(<<>>)>>}
=============================================================================
