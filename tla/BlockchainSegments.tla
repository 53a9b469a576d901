-------------------------- MODULE BlockchainSegments --------------------------
(***************************************************************************)
(* BlockchainCache: the segments that Core keeps of the chain and of its   *)
(* branches, what each of them indexes, and the queries that a segment     *)
(* answers from its own part and from its parents.  A segment is named by  *)
(* its first block.  The root is the segment without a parent; that the    *)
(* database answers as such a segment does is what DatabaseCache is about. *)
(***************************************************************************)
EXTENDS Integers, Sequences, SequencesExt, FiniteSets, FiniteSetsExt, Functions, TLC

CONSTANTS
    Block,      \* block -> [prev, time, txs, images, difficulty]
    Tx,         \* transaction -> [outs, pid]
    Genesis,
    None

VARIABLES
    segments,   \* name -> the segment
    main        \* chainsLeaves[0]

vars == <<segments, main>>

Nothing == [x \in {} |-> x]
Without(f, keys) == Restrict(f, DOMAIN f \ keys)

Children(segs, s) == {c \in DOMAIN segs : segs[c].parent = s}
getTopBlockIndex(segs, s) == segs[s].startIndex + Len(segs[s].blockInfos) - 1
Info(seg, i) == seg.blockInfos[i - seg.startIndex + 1]
TopInfo(segs, s) == Last(segs[s].blockInfos)

RECURSIVE getKeyOutputsCountForAmount(_, _, _, _)
\* The number of outputs of an amount below a block; outputs are sorted by their blocks.
getKeyOutputsCountForAmount(segs, s, amount, blockIndex) ==
    IF s = None THEN 0
    ELSE LET index == segs[s].keyOutputsGlobalIndexes
         IN IF amount \notin DOMAIN index THEN getKeyOutputsCountForAmount(segs, segs[s].parent, amount, blockIndex)
            ELSE index[amount].startIndex + Len(SelectSeq(index[amount].outputs, LAMBDA o : o.block < blockIndex))

-----------------------------------------------------------------------------
(* Pushing a block. *)
insertKeyOutputToGlobalIndex(segs, seg, amount, output, blockIndex) ==
    LET index == seg.keyOutputsGlobalIndexes
        entry == IF amount \in DOMAIN index THEN index[amount]
                 ELSE [startIndex |-> getKeyOutputsCountForAmount(segs, seg.parent, amount, blockIndex), outputs |-> <<>>]
    IN [seg EXCEPT !.keyOutputsGlobalIndexes = (amount :> [entry EXCEPT !.outputs = Append(@, output)]) @@ @]

\* The number that insertKeyOutputToGlobalIndex returns.
LastGlobalIndex(seg, amount) ==
    LET entry == seg.keyOutputsGlobalIndexes[amount] IN entry.startIndex + Len(entry.outputs) - 1

pushTransaction(segs, seg, t, blockIndex, pos) ==
    LET push(st, o) ==
            LET amount == Tx[t].outs[o]
                next == insertKeyOutputToGlobalIndex(segs, st.seg, amount, [block |-> blockIndex, tx |-> pos, out |-> o - 1], blockIndex)
            IN [seg |-> next, globals |-> Append(st.globals, LastGlobalIndex(next, amount))]
        done == FoldLeft(push, [seg |-> seg, globals |-> <<>>], [o \in 1..Len(Tx[t].outs) |-> o])
    IN [done.seg EXCEPT
            !.transactions = (t :> [block |-> blockIndex, pos |-> pos, globals |-> done.globals]) @@ @,
            !.paymentIds = IF Tx[t].pid = None THEN @ ELSE @ \cup {<<Tx[t].pid, t>>}]

\* The information of a block on what is below it: the segment's last block, the parent, or nothing.
CachedBlockInfo(segs, seg, b) ==
    LET before == IF seg.blockInfos # <<>> THEN Last(seg.blockInfos)
                  ELSE IF seg.parent # None THEN TopInfo(segs, seg.parent)
                  ELSE [cumulativeDifficulty |-> 0, alreadyGeneratedTransactions |-> 0]
    IN [hash |-> b, time |-> Block[b].time,
        cumulativeDifficulty |-> before.cumulativeDifficulty + Block[b].difficulty,
        alreadyGeneratedTransactions |-> before.alreadyGeneratedTransactions + Len(Block[b].txs)]

doPushBlock(segs, seg, b) ==
    LET blockIndex == seg.startIndex + Len(seg.blockInfos)
        txs == Block[b].txs
        pushed == [seg EXCEPT !.blockInfos = Append(@, CachedBlockInfo(segs, seg, b)),
                              !.spentKeyImages = [k \in Block[b].images \ DOMAIN @ |-> blockIndex] @@ @]
    IN FoldLeft(LAMBDA s, p : pushTransaction(segs, s, txs[p], blockIndex, p - 1), pushed, [p \in 1..Len(txs) |-> p])

createBlockchainCache(parent, start) ==
    [parent |-> parent, startIndex |-> start, blockInfos |-> <<>>, spentKeyImages |-> Nothing, transactions |-> Nothing,
     keyOutputsGlobalIndexes |-> Nothing, paymentIds |-> {}]

-----------------------------------------------------------------------------
splitSpentKeyImages(images, index) ==
    LET high == {k \in DOMAIN images : images[k] >= index}
    IN [lower |-> Without(images, high), upper |-> Restrict(images, high)]

splitTransactions(txs, index) ==
    LET high == {t \in DOMAIN txs : txs[t].block >= index}
    IN [lower |-> Without(txs, high), upper |-> Restrict(txs, high)]

splitPaymentIds(ids, txs, index) ==
    LET high == {p \in ids : txs[p[2]].block >= index}
    IN [lower |-> ids \ high, upper |-> high]

\* splitGlobalIndexes; an amount without outputs has no entry.
splitGlobalIndexes(index, splitIndex) ==
    LET low(a) == SelectSeq(index[a].outputs, LAMBDA o : o.block < splitIndex)
        high(a) == SelectSeq(index[a].outputs, LAMBDA o : o.block >= splitIndex)
    IN [lower |-> [a \in {x \in DOMAIN index : low(x) # <<>>} |-> [startIndex |-> index[a].startIndex, outputs |-> low(a)]],
        upper |-> [a \in {x \in DOMAIN index : high(x) # <<>>} |->
                        [startIndex |-> index[a].startIndex + Len(low(a)), outputs |-> high(a)]]]

\* The children of the segment become children of its upper part.
fixChildrenParent(segs, s, new) ==
    [c \in DOMAIN segs |-> IF segs[c].parent = s THEN [segs[c] EXCEPT !.parent = new] ELSE segs[c]]

splitSegment(segs, s, index) ==
    LET seg == segs[s]
        n == index - seg.startIndex
        new == seg.blockInfos[n + 1].hash
        images == splitSpentKeyImages(seg.spentKeyImages, index)
        txs == splitTransactions(seg.transactions, index)
        ids == splitPaymentIds(seg.paymentIds, seg.transactions, index)
        outs == splitGlobalIndexes(seg.keyOutputsGlobalIndexes, index)
        lower == [seg EXCEPT !.blockInfos = SubSeq(@, 1, n), !.spentKeyImages = images.lower, !.transactions = txs.lower,
                             !.paymentIds = ids.lower, !.keyOutputsGlobalIndexes = outs.lower]
        upper == [parent |-> s, startIndex |-> index, blockInfos |-> SubSeq(seg.blockInfos, n + 1, Len(seg.blockInfos)),
                  spentKeyImages |-> images.upper, transactions |-> txs.upper, paymentIds |-> ids.upper,
                  keyOutputsGlobalIndexes |-> outs.upper]
    IN (new :> upper) @@ (s :> lower) @@ fixChildrenParent(segs, s, new)

-----------------------------------------------------------------------------
(* What Core does with the segments. *)
Segment(segs, b) == CHOOSE s \in DOMAIN segs : \E i \in DOMAIN segs[s].blockInfos : segs[s].blockInfos[i].hash = b
IndexIn(segs, s, b) == segs[s].startIndex + (CHOOSE i \in DOMAIN segs[s].blockInfos : segs[s].blockInfos[i].hash = b) - 1
HasBlock(segs, b) == \E s \in DOMAIN segs : \E i \in DOMAIN segs[s].blockInfos : segs[s].blockInfos[i].hash = b

Fork(segs, s, b) == (b :> doPushBlock(segs, createBlockchainCache(s, getTopBlockIndex(segs, s) + 1), b)) @@ segs

\* addBlock of a valid block: on a leaf, on a segment with children, or inside a segment.
addBlock(b) ==
    /\ ~HasBlock(segments, b) /\ HasBlock(segments, Block[b].prev)
    /\ LET s == Segment(segments, Block[b].prev)
           previous == IndexIn(segments, s, Block[b].prev)
           onTop == getTopBlockIndex(segments, s) = previous
           split == splitSegment(segments, s, previous + 1)
           added == IF ~onTop THEN Fork(split, s, b)
                    ELSE IF Children(segments, s) # {} THEN Fork(segments, s, b)
                    ELSE [segments EXCEPT ![s] = doPushBlock(segments, @, b)]
       IN /\ segments' = added
          /\ main' = IF onTop /\ Children(segments, s) = {}
                     THEN IF TopInfo(added, s).cumulativeDifficulty > TopInfo(added, main).cumulativeDifficulty THEN s ELSE main
                     ELSE IF ~onTop /\ s = main THEN Info(segments[s], previous + 1).hash
                     ELSE main

RECURSIVE Path(_, _)
\* The segments from the root to s.
Path(segs, s) == IF s = None THEN <<>> ELSE Append(Path(segs, segs[s].parent), s)

\* deleteAlternativeChains and mergeMainChainSegments, when Core is saved.
save ==
    LET chain == Path(segments, main)
        root == chain[1]
        blocks == FlattenSeq([i \in 1..(Len(chain) - 1) |-> segments[chain[i + 1]].blockInfos])
    IN /\ segments' = root :> FoldLeft(LAMBDA seg, info : doPushBlock(segments, seg, info.hash), segments[root], blocks)
       /\ main' = root

Init ==
    /\ segments = Genesis :> doPushBlock(Nothing, createBlockchainCache(None, 0), Genesis)
    /\ main = Genesis

Next == save \/ \E b \in DOMAIN Block : addBlock(b)

Spec == Init /\ [][Next]_vars

-----------------------------------------------------------------------------
(* Queries of a segment. *)
RECURSIVE checkIfSpent(_, _, _)
checkIfSpent(s, image, blockIndex) ==
    IF s = None THEN FALSE
    ELSE IF blockIndex < segments[s].startIndex \/ image \notin DOMAIN segments[s].spentKeyImages
         THEN checkIfSpent(segments[s].parent, image, blockIndex)
    ELSE segments[s].spentKeyImages[image] <= blockIndex

RECURSIVE getBlockHashes(_, _, _)
getBlockHashes(s, start, maxCount) ==
    LET seg == segments[s]
        below == IF start < seg.startIndex THEN getBlockHashes(seg.parent, start, maxCount) ELSE <<>>
        from == IF start < seg.startIndex THEN 0 ELSE start - seg.startIndex
        left == Min({Len(seg.blockInfos) - from, maxCount - Len(below)})
    IN below \o [i \in 1..left |-> seg.blockInfos[from + i].hash]

RECURSIVE getBlocksByHeight(_, _, _)
getBlocksByHeight(s, start, end) ==
    LET seg == segments[s]
        below == IF start < seg.startIndex THEN getBlocksByHeight(seg.parent, start, seg.startIndex) ELSE <<>>
        from == Max({start, seg.startIndex})
        to == Min({end, seg.startIndex + Len(seg.blockInfos)})
    IN IF end < seg.startIndex THEN getBlocksByHeight(seg.parent, start, end)
       ELSE below \o [i \in 1..(to - from) |-> Info(seg, from + i - 1).hash]

RECURSIVE getLastUnits(_, _, _, _)
getLastUnits(s, count, blockIndex, useGenesis) ==
    LET seg == segments[s]
        to == IF blockIndex < seg.startIndex THEN 0 ELSE blockIndex - seg.startIndex + 1
        n == Min({count, to})
        skip == IF ~useGenesis /\ to = n /\ n # 0 /\ seg.parent = None THEN 1 ELSE 0
        below == IF n - skip < count /\ seg.parent # None
                 THEN getLastUnits(seg.parent, count - n, Min({blockIndex, getTopBlockIndex(segments, seg.parent)}), useGenesis)
                 ELSE <<>>
    IN below \o SubSeq(seg.blockInfos, to - n + skip + 1, to)

RECURSIVE extractKeyOutputs(_, _, _, _)
\* The outputs with the given sorted global indexes, or an error.
extractKeyOutputs(s, amount, blockIndex, globalIndexes) ==
    IF s = None THEN "INVALID_GLOBAL_INDEX"
    ELSE
      LET seg == segments[s]
          index == seg.keyOutputsGlobalIndexes
          entry == index[amount]
          low == SelectSeq(globalIndexes, LAMBDA g : g < entry.startIndex)
          mine == SelectSeq(globalIndexes, LAMBDA g : g >= entry.startIndex)
          below == IF low = <<>> THEN <<>> ELSE extractKeyOutputs(seg.parent, amount, blockIndex, low)
      IN IF amount \notin DOMAIN index \/ blockIndex < seg.startIndex
         THEN extractKeyOutputs(seg.parent, amount, blockIndex, globalIndexes)
         ELSE IF below = "INVALID_GLOBAL_INDEX" \/ \E i \in DOMAIN mine : mine[i] - entry.startIndex >= Len(entry.outputs)
         THEN "INVALID_GLOBAL_INDEX"
         ELSE below \o [i \in DOMAIN mine |-> entry.outputs[mine[i] - entry.startIndex + 1]]

RECURSIVE getTransactionHashesByPaymentId(_, _)
getTransactionHashesByPaymentId(s, p) ==
    IF s = None THEN {}
    ELSE getTransactionHashesByPaymentId(segments[s].parent, p) \cup {x[2] : x \in {y \in segments[s].paymentIds : y[1] = p}}

RECURSIVE getTransactionCount(_)
getTransactionCount(s) ==
    IF s = None THEN 0 ELSE getTransactionCount(segments[s].parent) + Cardinality(DOMAIN segments[s].transactions)

\* std::lower_bound of a time in a segment whose times grow.
LowerBound(seg, time) == seg.startIndex + Len(SelectSeq(seg.blockInfos, LAMBDA i : i.time < time))

RECURSIVE getTimestampLowerBoundBlockIndex(_, _)
\* -1 is the exception: the time is too large.
getTimestampLowerBoundBlockIndex(s, time) ==
    LET seg == segments[s]
        below == getTimestampLowerBoundBlockIndex(seg.parent, time)
    IN IF Last(seg.blockInfos).time < time THEN -1
       ELSE IF Head(seg.blockInfos).time < time THEN LowerBound(seg, time)
       ELSE IF seg.parent = None THEN 0
       ELSE IF below = -1 THEN seg.startIndex ELSE below

RECURSIVE getBlockHeightForTimestamp(_, _)
\* -1 is failure.
getBlockHeightForTimestamp(s, time) ==
    LET seg == segments[s]
    IN IF Last(seg.blockInfos).time < time THEN -1
       ELSE IF Head(seg.blockInfos).time >= time THEN LowerBound(seg, time)
       ELSE IF seg.parent = None THEN -1
       ELSE getBlockHeightForTimestamp(seg.parent, time)

-----------------------------------------------------------------------------
(* The branch that ends with a segment, and what its queries must say. *)
Branch(s) == FlattenSeq([i \in DOMAIN Path(segments, s) |->
                            [j \in DOMAIN segments[Path(segments, s)[i]].blockInfos |->
                                segments[Path(segments, s)[i]].blockInfos[j].hash]])
TxsTo(branch) == UNION {Range(Block[branch[i]].txs) : i \in DOMAIN branch}

\* Every output of an amount, in the order of the branch.
Outputs(branch, amount) ==
    LET inTx(i, pos) == LET t == Block[branch[i]].txs[pos]
                        IN SelectSeq([o \in 1..Len(Tx[t].outs) |-> [block |-> i - 1, tx |-> pos - 1, out |-> o - 1]],
                                     LAMBDA p : Tx[t].outs[p.out + 1] = amount)
    IN FlattenSeq([i \in DOMAIN branch |-> FlattenSeq([pos \in DOMAIN Block[branch[i]].txs |-> inTx(i, pos)])])

Amounts == UNION {Range(Tx[t].outs) : t \in DOMAIN Tx}
Sorted(S) == SetToSortSeq(S, <)

\* A key image is spent at a height exactly when a block of the branch up to it spends it.
SpentMatchesBranch ==
    \A s \in DOMAIN segments : LET branch == Branch(s) IN
        \A image \in UNION {Block[b].images : b \in DOMAIN Block} : \A h \in 0..(Len(branch) - 1) :
            checkIfSpent(s, image, h) <=> \E i \in 0..h : image \in Block[branch[i + 1]].images

\* Global indexes count the outputs of the branch: they lead to the outputs, each transaction has
\* those of its own, and an index beyond the last is refused.
OutputsMatchBranch ==
    \A s \in DOMAIN segments : LET branch == Branch(s) IN \A a \in Amounts : LET outs == Outputs(branch, a) IN
        /\ \A g \in SUBSET (0..Len(outs)) :
            (g # {} /\ Cardinality(g) < 4) =>
                extractKeyOutputs(s, a, Len(branch) - 1, Sorted(g)) =
                    IF Len(outs) \in g THEN "INVALID_GLOBAL_INDEX" ELSE [i \in 1..Cardinality(g) |-> outs[Sorted(g)[i] + 1]]
        /\ \A i \in DOMAIN outs :
            LET b == branch[outs[i].block + 1]
                owner == Segment(segments, b)
            IN segments[owner].transactions[Block[b].txs[outs[i].tx + 1]].globals[outs[i].out + 1] = i - 1
        /\ \A h \in segments[s].startIndex..Len(branch) :
            getKeyOutputsCountForAmount(segments, s, a, h) = Len(SelectSeq(outs, LAMBDA o : o.block < h))

\* Blocks, hashes and the last units of a height are those of the branch.
UnitsMatchBranch ==
    \A s \in DOMAIN segments :
        LET branch == Branch(s)
            n == Len(branch)
            info(i) == [hash |-> branch[i], time |-> Block[branch[i]].time,
                        cumulativeDifficulty |-> FoldLeft(LAMBDA x, b : x + Block[b].difficulty, 0, SubSeq(branch, 1, i)),
                        alreadyGeneratedTransactions |-> FoldLeft(LAMBDA x, b : x + Len(Block[b].txs), 0, SubSeq(branch, 1, i))]
        IN /\ \A h \in 0..(n - 1) : \A count \in 0..(n + 1) : \A useGenesis \in BOOLEAN :
                LET first == Max({IF useGenesis THEN 1 ELSE 2, h + 2 - count})
                IN getLastUnits(s, count, h, useGenesis) = [i \in 1..(h + 2 - first) |-> info(first + i - 1)]
           /\ \A from \in 0..(n - 1) : \A count \in 0..(n + 1) :
                /\ getBlockHashes(s, from, count) = SubSeq(branch, from + 1, Min({n, from + count}))
                /\ getBlocksByHeight(s, from, from + count) = SubSeq(branch, from + 1, Min({n, from + count}))

\* The transactions of a payment id, and their number, are those of the branch.
PaymentsMatchBranch ==
    \A s \in DOMAIN segments : LET txs == TxsTo(Branch(s)) IN
        /\ getTransactionCount(s) = Cardinality(txs)
        /\ \A p \in {Tx[t].pid : t \in DOMAIN Tx} \ {None} :
            getTransactionHashesByPaymentId(s, p) = {t \in txs : Tx[t].pid = p}

\* The index, from 0, of the first block of the branch with at least the given time.
FirstSince(branch, time) == Min({i - 1 : i \in {j \in DOMAIN branch : Block[branch[j]].time >= time}})
TimesOf(s) == 0..Block[Last(Branch(s))].time

\* The lower bound of a time is the first block of the branch that is not before it.
LowerBoundMatchesBranch ==
    \A s \in DOMAIN segments : \A time \in TimesOf(s) :
        getTimestampLowerBoundBlockIndex(s, time) = FirstSince(Branch(s), time)
=============================================================================
