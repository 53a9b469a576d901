---------------------------- MODULE MCCoreChain ----------------------------
(* Instances of CoreChain for TLC.  A block is the path that leads to it from  *)
(* the genesis block, each step of which is the difficulty of one block.       *)
EXTENDS CoreRestart

CONSTANTS
    Difficulty,  \* difficulties a block may have
    MaxHeight,   \* bound: height of a block
    StoredHeight \* bound: height of the stored chains

Paths == UNION {[1 .. n -> Difficulty] : n \in 0 .. MaxHeight}
\* A main chain of one heavy block, and beside it a longer chain of light ones that forks
\* at height 3.
ForkOfFork == {<<>>, <<3>>, <<1>>, <<1, 1>>, <<1, 1, 1>>, <<1, 1, 3>>, <<1, 1, 1, 1>>}

MCGenesis == <<>>
MCPrev == [b \in Block \ {<<>>} |-> SubSeq(b, 1, Len(b) - 1)]
MCHeightOf == [b \in Block |-> Len(b)]
MCWorkOf ==
    LET work[b \in Block] == IF b = <<>> THEN 1 ELSE b[Len(b)] + work[SubSeq(b, 1, Len(b) - 1)]
    IN  work
MCStored ==
    {[i \in 1 .. Len(b) + 1 |-> SubSeq(b, 1, i - 1)] : b \in {p \in Block : Len(p) <= StoredHeight}}
=============================================================================
