---------------------------- MODULE DatabaseCache ----------------------------
(***************************************************************************)
(* DatabaseBlockchainCache: the indexes that the root segment keeps in the *)
(* database, one write batch per block pushed or per split, and the values *)
(* it remembers of them.  A batch is atomic.  The database is a record     *)
(* with one function per key prefix; "out" stands for both the packed      *)
(* index and the information of an output, which share their keys.         *)
(***************************************************************************)
EXTENDS Integers, Sequences, SequencesExt, FiniteSets, FiniteSetsExt, Functions, TLC

CONSTANTS
    Block,      \* block -> [prev, time, txs, images, difficulty]
    Tx,         \* transaction -> [outs, pid]: the amounts of its outputs, its payment id or None
    Genesis,
    Day,        \* seconds in a day
    unitsCacheSize,
    RestartAtGenesis,   \* whether the node may be restarted before it has a second block
    None

VARIABLES
    db,
    keyOutputCountsForAmounts,   \* the counts that were asked for since the start
    unitsCache                   \* the information of the last blocks

vars == <<db, keyOutputCountsForAmounts, unitsCache>>

Without(f, keys) == Restrict(f, DOMAIN f \ keys)
Get(f, k, default) == IF k \in DOMAIN f THEN f[k] ELSE default
roundToMidnight(time) == (time \div Day) * Day

Top == db.last

-----------------------------------------------------------------------------
\* pushTransaction, on st: the batch so far, the counts, and the database as it can be read.
PushOutput(st, index, pos, amount) ==
    LET count == Get(st.counts, amount, Get(st.read.outCount, amount, 0))
    IN [st EXCEPT
            !.counts = (amount :> count + 1) @@ @,
            !.db.outCount = (amount :> count + 1) @@ @,
            !.db.out = (<<amount, count>> :> [block |-> index, tx |-> pos, out |-> Len(st.globals)]) @@ @,
            !.globals = Append(@, count)]

\* insertPaymentId takes the count from the database, not from the batch.
insertPaymentId(d, read, t, pid) ==
    LET count == Get(read.pidCount, pid, 0)
    IN [d EXCEPT !.pidCount = (pid :> count + 1) @@ @, !.pid = (<<pid, count>> :> t) @@ @]

pushTransaction(st, index, pos, t) ==
    LET outs == FoldLeft(LAMBDA s, amount : PushOutput(s, index, pos, amount), [st EXCEPT !.globals = <<>>], Tx[t].outs)
        d == [outs.db EXCEPT !.tx = (t :> [block |-> index, pos |-> pos, globals |-> outs.globals]) @@ @,
                             !.txCount = @ + 1]
    IN [outs EXCEPT !.db = IF Tx[t].pid = None THEN d ELSE insertPaymentId(d, st.read, t, Tx[t].pid)]

pushTransactions(st, index, txs) ==
    FoldLeft(LAMBDA s, pos : pushTransaction(s, index, pos - 1, txs[pos]), st, [i \in 1..Len(txs) |-> i])

CachedBlockInfo(b, previous) ==
    [hash |-> b, time |-> Block[b].time, cumulativeDifficulty |-> previous.cumulativeDifficulty + Block[b].difficulty,
     alreadyGeneratedTransactions |-> previous.alreadyGeneratedTransactions + Len(Block[b].txs)]

insertCachedBlock(d, index, info) ==
    [d EXCEPT !.info = (index :> info) @@ @, !.index = (info.hash :> index) @@ @, !.raw = (index :> info.hash) @@ @,
              !.last = index]

insertSpentKeyImages(d, index, images) ==
    [d EXCEPT !.imagesOf = (index :> images) @@ @, !.spent = [k \in images |-> index] @@ @]

insertClosestAlways(d, day, index) == [d EXCEPT !.closest = (day :> index) @@ @]
\* The first block of a day, if it has none yet.
insertClosest(d, day, index) ==
    [d EXCEPT !.closest = IF day \in DOMAIN @ THEN @ ELSE (day :> index) @@ @]
insertBlockTimestamp(d, time, b) == [d EXCEPT !.stamps = (time :> Append(Get(@, time, <<>>), b)) @@ @]

pushBlock(b) ==
    LET index == Top + 1
        info == CachedBlockInfo(b, db.info[Top])
        d0 == insertCachedBlock(insertSpentKeyImages(db, index, Block[b].images), index, info)
        st == pushTransactions([db |-> d0, counts |-> keyOutputCountsForAmounts, read |-> db, globals |-> <<>>],
                               index, Block[b].txs)
        d1 == insertClosest(st.db, roundToMidnight(Block[b].time), index)
    IN /\ Block[b].prev = db.info[Top].hash
       /\ db' = insertBlockTimestamp(d1, Block[b].time, b)
       /\ keyOutputCountsForAmounts' = st.counts
       /\ unitsCache' = IF Len(unitsCache) < unitsCacheSize THEN Append(unitsCache, info) ELSE Append(Tail(unitsCache), info)

-----------------------------------------------------------------------------
\* The parts of split, from the first block that goes.
Removed(from) == from..Top

requestRemoveTimestamp(stamps, from) ==
    LET times == {db.info[i].time : i \in Removed(from)} \cap DOMAIN stamps
        \* the batch holds one value per time: that of the last request, for the lowest block
        rest(time) == LET i == Min({j \in Removed(from) : db.info[j].time = time})
                      IN SelectSeq(stamps[time], LAMBDA h : h # db.info[i].hash)
    IN [time \in {t \in DOMAIN stamps : t \notin times \/ rest(t) # <<>>} |->
            IF time \in times THEN rest(time) ELSE stamps[time]]

RemovedTxs(from) == UNION {Range(Block[db.raw[i]].txs) : i \in Removed(from)}

requestDeletePaymentIds(d, txs) ==
    LET ids == {Tx[t].pid : t \in txs} \ {None}
        left(p) == d.pidCount[p] - Cardinality({t \in txs : Tx[t].pid = p})
    IN [d EXCEPT !.pidCount = [p \in ids |-> left(p)] @@ @, !.pid = Without(@, {<<p, left(p)>> : p \in ids})]

AmountsOf(txs) == UNION {Range(Tx[t].outs) : t \in txs}
\* mergeOutputsSplitBoundaries of getMinGlobalIndexesByAmount.
Boundary(txs, amount) ==
    Min(UNION {{db.tx[t].globals[i] : i \in {j \in DOMAIN Tx[t].outs : Tx[t].outs[j] = amount}} : t \in txs})

requestDeleteKeyOutputs(d, txs) ==
    [d EXCEPT !.outCount = [a \in AmountsOf(txs) |-> Boundary(txs, a)] @@ @,
              !.out = Without(@, {k \in DOMAIN @ : k[1] \in AmountsOf(txs) /\ k[2] >= Boundary(txs, k[1])})]

\* The day of the first block that goes, unless it began before it, and the days that follow one another.
deleteClosestTimestampBlockIndex(d, from) ==
    LET day == roundToMidnight(d.info[from].time)
        first == IF d.closest[day] = from THEN day ELSE day + Day
        last == CHOOSE n \in 0..Cardinality(DOMAIN d.closest) :
                    /\ first + n * Day \notin DOMAIN d.closest
                    /\ \A m \in 0..(n - 1) : first + m * Day \in DOMAIN d.closest
    IN [d EXCEPT !.closest = Without(@, {first + n * Day : n \in 0..(last - 1)})]

keepSpentOutputs(spent, from) == spent
requestDeleteSpentOutputs(spent, from) == Without(spent, UNION {db.imagesOf[i] : i \in Removed(from)})

removeBlocks(d, from) ==
    [d EXCEPT !.info = Without(@, Removed(from)), !.raw = Without(@, Removed(from)),
              !.index = Without(@, {d.info[i].hash : i \in Removed(from)}),
              !.imagesOf = Without(@, Removed(from)), !.spent = requestDeleteSpentOutputs(@, from),
              !.stamps = requestRemoveTimestamp(@, from),
              !.tx = Without(@, RemovedTxs(from)), !.txCount = @ - Cardinality(RemovedTxs(from)),
              !.last = from - 1]

\* updateKeyOutputCount by the outputs that go.
updateKeyOutputCounts(counts, txs) ==
    [a \in AmountsOf(txs) |-> Get(counts, a, db.outCount[a]) + Boundary(txs, a) - db.outCount[a]] @@ counts

cutTail(units, count) == IF count >= Len(units) THEN <<>> ELSE SubSeq(units, 1, Len(units) - count)

split(from) ==
    LET txs == RemovedTxs(from)
        d == deleteClosestTimestampBlockIndex(db, from)
    IN /\ db' = removeBlocks(requestDeleteKeyOutputs(requestDeletePaymentIds(d, txs), txs), from)
       /\ keyOutputCountsForAmounts' = updateKeyOutputCounts(keyOutputCountsForAmounts, txs)
       /\ unitsCache' = cutTail(unitsCache, Top + 1 - from)

-----------------------------------------------------------------------------
\* addGenesisBlock, on a database that may have it.
addGenesisBlock(d, counts) ==
    LET info == [hash |-> Genesis, time |-> Block[Genesis].time, cumulativeDifficulty |-> 1, alreadyGeneratedTransactions |-> 1]
        st == pushTransactions([db |-> d, counts |-> counts, read |-> d, globals |-> <<>>], 0, Block[Genesis].txs)
        d1 == insertCachedBlock(st.db, 0, info)
    IN [db |-> insertClosestAlways(d1, roundToMidnight(Block[Genesis].time), 0), counts |-> st.counts, units |-> <<info>>]

Nothing == [x \in {} |-> x]
EmptyDatabase ==
    [info |-> Nothing, index |-> Nothing, raw |-> Nothing, last |-> 0, imagesOf |-> Nothing, spent |-> Nothing,
     tx |-> Nothing, txCount |-> 0, outCount |-> Nothing, out |-> Nothing, pidCount |-> Nothing, pid |-> Nothing,
     closest |-> Nothing, stamps |-> Nothing]

\* The constructor: the genesis block is added when the top index is 0, the value of an empty database too.
Open(d) ==
    LET st == IF d.last = 0 THEN addGenesisBlock(d, Nothing) ELSE [db |-> d, counts |-> Nothing, units |-> <<>>]
    IN db' = st.db /\ keyOutputCountsForAmounts' = st.counts /\ unitsCache' = st.units

Restart ==
    /\ Top > 0 \/ RestartAtGenesis
    /\ Open(db)

Init ==
    LET st == addGenesisBlock(EmptyDatabase, Nothing)
    IN db = st.db /\ keyOutputCountsForAmounts = st.counts /\ unitsCache = st.units

Next ==
    \/ \E b \in DOMAIN Block : pushBlock(b)
    \/ \E i \in 1..Top : split(i)
    \/ Restart

Spec == Init /\ [][Next]_vars

-----------------------------------------------------------------------------
(* Queries. *)

\* getLastCachedUnits, getLastDbUnits and getLastUnits.
getLastCachedUnits(blockIndex, count, useGenesis) ==
    LET start == Top + 1 - Len(unitsCache)
        n == Min({Len(unitsCache), count, blockIndex - start + 1})
        offset == blockIndex + 1 - n - start
        skip == IF ~useGenesis /\ start = 0 /\ offset = 0 THEN 1 ELSE 0
    IN IF start > blockIndex \/ Min({Len(unitsCache), count}) = 0 THEN <<>>
       ELSE SubSeq(unitsCache, offset + skip + 1, offset + n)

getLastDbUnits(blockIndex, count, useGenesis) ==
    LET from == blockIndex + 1 - Min({blockIndex + 1, count})
        first == IF from = 0 /\ ~useGenesis THEN 1 ELSE from
    IN [i \in 1..(blockIndex - first + 1) |-> db.info[first + i - 1]]

getLastUnits(count, blockIndex, useGenesis) ==
    LET cached == getLastCachedUnits(blockIndex, count, useGenesis)
        available == IF useGenesis THEN blockIndex + 1 ELSE blockIndex
    IN IF available = Len(cached) THEN cached
       ELSE getLastDbUnits(blockIndex - Len(cached), count - Len(cached), useGenesis) \o cached

getTimestampLowerBoundBlockIndex(time) ==
    LET days == {d \in DOMAIN db.closest : d <= roundToMidnight(time) /\ d > 0}
    IN IF days = {} THEN 0 ELSE db.closest[Max(days)]

getKeyOutputsCountForAmount(amount, blockIndex) ==
    LET count == Get(db.outCount, amount, 0)
    IN Min({count} \cup {i \in 0..(count - 1) : db.out[<<amount, i>>].block >= blockIndex})

getTransactionHashesByPaymentId(p) == {Get(db.pid, <<p, i>>, None) : i \in 0..(db.pidCount[p] - 1)}

checkIfSpent(image, blockIndex) == image \in DOMAIN db.spent /\ db.spent[image] <= blockIndex

-----------------------------------------------------------------------------
(* The chain that the raw blocks are, and what the indexes must say of it. *)
Chain == [i \in 0..Top |-> db.raw[i]]
TxsOf(i) == Block[Chain[i]].txs

\* Every output of an amount, in the order of the chain.
Outputs(amount) ==
    LET inTx(i, pos) == LET t == TxsOf(i)[pos]
                        IN SelectSeq([o \in 1..Len(Tx[t].outs) |-> [block |-> i, tx |-> pos - 1, out |-> o - 1]],
                                     LAMBDA p : Tx[t].outs[p.out + 1] = amount)
        inBlock(i) == FlattenSeq([pos \in 1..Len(TxsOf(i)) |-> inTx(i, pos)])
    IN FlattenSeq([i \in 1..(Top + 1) |-> inBlock(i - 1)])

Amounts == UNION {Range(Tx[t].outs) : t \in DOMAIN Tx}

\* The global index of an output is its place among all outputs of its amount, in the database, in
\* the transactions and in the counts that are remembered.
OutputsMatchChain ==
    \A a \in Amounts :
        LET outs == Outputs(a)
        IN /\ Get(db.outCount, a, 0) = Len(outs)
           /\ Get(keyOutputCountsForAmounts, a, Len(outs)) = Len(outs)
           /\ \A i \in 1..Len(outs) :
                /\ db.out[<<a, i - 1>>] = outs[i]
                /\ db.tx[TxsOf(outs[i].block)[outs[i].tx + 1]].globals[outs[i].out + 1] = i - 1
           /\ \A h \in 0..(Top + 1) : getKeyOutputsCountForAmount(a, h) = Len(SelectSeq(outs, LAMBDA o : o.block < h))
           /\ \A k \in DOMAIN db.out : k[1] = a => k[2] < Len(outs)

\* A key image is spent at a height exactly when a block up to it spends it.
SpentMatchesChain ==
    \A image \in UNION {Block[b].images : b \in DOMAIN Block} : \A h \in 0..Top :
        checkIfSpent(image, h) <=> \E i \in 0..h : image \in Block[Chain[i]].images

\* The transactions with a payment id are those of the chain.
PaymentsMatchChain ==
    /\ \A p \in {Tx[t].pid : t \in DOMAIN Tx} \ {None} :
        (IF p \in DOMAIN db.pidCount THEN getTransactionHashesByPaymentId(p) ELSE {}) =
            {t \in UNION {Range(TxsOf(i)) : i \in 0..Top} : Tx[t].pid = p}
    /\ db.txCount = FoldFunction(+, 0, [i \in 0..Top |-> Len(TxsOf(i))])
    /\ DOMAIN db.tx = UNION {Range(TxsOf(i)) : i \in 0..Top}

\* The blocks of a second are the blocks of the chain with that time (the first block is not listed).
TimestampsMatchChain ==
    \A time \in {Block[b].time : b \in DOMAIN Block} :
        Get(db.stamps, time, <<>>) = SelectSeq([i \in 1..Top |-> Chain[i]], LAMBDA b : Block[b].time = time)

\* A day leads to its first block, and a time to the first block of its day or of the last one before.
DaysMatchChain ==
    LET daysOf == {roundToMidnight(Block[Chain[i]].time) : i \in 0..Top}
    IN /\ \A b \in DOMAIN Block : getTimestampLowerBoundBlockIndex(Block[b].time) <= Top
       /\ DOMAIN db.closest = daysOf
       /\ \A d \in daysOf : db.closest[d] = Min({i \in 0..Top : roundToMidnight(Block[Chain[i]].time) = d})

\* The last units of a block are those of the blocks up to it, whether they are remembered or read.
UnitsMatchChain ==
    \A i \in 0..Top : \A count \in 0..(Top + 2) : \A useGenesis \in BOOLEAN :
        LET low == IF useGenesis THEN 0 ELSE 1
            first == Max({low, i + 1 - count})
        IN getLastUnits(count, i, useGenesis) = [j \in 1..(i + 1 - first) |-> db.info[first + j - 1]]
=============================================================================
