-------------------------- MODULE TransfersConsumer ---------------------------
(***************************************************************************)
(* TransfersConsumer: the addresses of one view key, fed with blocks and   *)
(* pool transactions by the BlockchainSynchronizer.  Each method is one    *)
(* action; the threads inside onNewBlocks are in BlockPreprocessing, of    *)
(* which only the order of the preprocessing is left here.                 *)
(***************************************************************************)
EXTENDS TransfersContainer, TLC

CONSTANTS
    Sub, OutSub,        \* subscriptions, and the one each output pays
    Block, Parent,      \* the tree of blocks; Parent of the first is NoBlock
    NoBlock, BlockTxs,  \* BlockTxs[b]: its transactions, in order
    NoKey,              \* transactions without a public key
    Filtered,           \* blocks without a body or from before the wallet's time
    MaxBatch,           \* how many blocks come at once
    FindFails,          \* whether finding the outputs of a transaction may fail
    OwnSends,           \* transactions the wallet itself adds before they are in a pool
    DetachHeights       \* heights the chain is cut to

NoTx == "no transaction"    \* a hash that is no transaction's

VARIABLES
    subs,       \* m_subscriptions: the container of each
    poolTxs,    \* m_poolTxs
    seen,       \* transactions_hash_seen and public_keys_seen
    chain,      \* the blocks the consumer has taken; chain[h + 1] has height h
    failed      \* the transactions whose confirmation failed in the last call

vars == <<subs, poolTxs, seen, chain, failed>>

Init ==
    /\ subs = [s \in Sub |-> EmptyContainer]
    /\ poolTxs = {} /\ seen = [txs |-> {}, keys |-> {}]
    /\ chain = <<>> /\ failed = {}

SubSeq1 == SetToSeq(Sub)
UnconfirmedBlock == [height |-> UnconfirmedHeight, index |-> 0]

-----------------------------------------------------------------------------
(* preprocessOutputs and createTransfers: which outputs of t count.  The   *)
(* addresses of t come in the order of a hash table, fixed here; by the    *)
(* second the hash of t has been seen.                                     *)

OutputsOf(t) == {o \in Output : OutTx[o] = t}

FirstSubs(t) == {OutSub[o] : o \in OutputsOf(t)}
Accepts(sn, t, first) ==
    {o \in OutputsOf(t) : t \in sn.txs \/ OutSub[o] # first \/ OutKey[o] \notin sn.keys}
SeenWith(sn, t, first) ==
    [txs |-> sn.txs \cup {t},
     keys |-> IF t \in sn.txs THEN sn.keys ELSE sn.keys \cup {OutKey[o] : o \in {p \in OutputsOf(t) : OutSub[p] = first}}]

\* r: what is seen and, for the transactions done so far, the outputs taken.
Preprocess(r, t) ==
    IF OutputsOf(t) = {} \/ t \in r.unfound
    THEN r
    ELSE LET first == CHOOSE s \in FirstSubs(t) : TRUE
         IN [r EXCEPT !.outs[t] = Accepts(r.seen, t, first), !.seen = SeenWith(@, t, first)]

NoOuts == [t \in Tx |-> {}]
PreprocessAll(order, unfound) ==
    FoldLeft(Preprocess, [seen |-> seen, outs |-> NoOuts, unfound |-> unfound], order)
\* The threads take the transactions in any order; that of those that pay nothing is no matter.
Paying(txs) == {t \in txs : OutputsOf(t) # {}}

-----------------------------------------------------------------------------
(* processTransaction, for all addresses, until one throws.                *)

processOutputs(c, block, t, outs, unfound) ==
    CASE t \in DOMAIN c.txs /\ c.txs[t] = UnconfirmedHeight /\ block.height # UnconfirmedHeight ->
            markTransactionConfirmed(c, block, t, IF t \in unfound THEN OutputsOf(t) ELSE {})
      [] t \in DOMAIN c.txs /\ (c.txs[t] # UnconfirmedHeight \/ block.height = UnconfirmedHeight) -> Returns(c)
      [] OTHER -> addTransaction(c, block, t, outs)

\* r: [subs, threw]; block and t with the outputs it pays.
Update(r, s, p) == [r EXCEPT !.threw = p.threw, !.subs[s] = p.c]
processTransaction(r, block, t, outs, unfound) ==
    FoldLeft(LAMBDA q, s :
                IF q.threw THEN q
                ELSE Update(q, s, processOutputs(q.subs[s], block, t, {o \in outs : OutSub[o] = s}, unfound)),
             r, SubSeq1)

\* The transactions of a batch that starts at height start, in the order of the chain.
Items(batch, start) ==
    FlattenSeq([i \in 1..Len(batch) |->
        IF batch[i] \in Filtered THEN <<>>
        ELSE SelectSeq([j \in 1..Len(BlockTxs[batch[i]]) |->
                [t |-> BlockTxs[batch[i]][j], last |-> j = Len(BlockTxs[batch[i]]),
                 block |-> [height |-> start + i - 1, index |-> j - 1]]], LAMBDA it : it.t \notin NoKey)])

emptyBlockCount(batch) == Cardinality({i \in 1..Len(batch) : batch[i] \in Filtered})

\* One transaction of the batch: r is [subs, threw, n, failed], q what processing it came to.
TookItem(r, item, start, q) ==
    LET n == IF item.last THEN r.n + 1 ELSE r.n
        tall == IF item.last THEN [s \in Sub |-> advanceHeight(q.subs[s], start + n - 1)] ELSE q.subs
    IN IF q.threw THEN [r EXCEPT !.subs = q.subs, !.threw = TRUE, !.failed = {item.t}]
       ELSE [r EXCEPT !.subs = tall, !.n = n]
ProcessItem(r, item, outs, unfound, start) ==
    IF r.threw THEN r
    ELSE TookItem(r, item, start, processTransaction([subs |-> r.subs, threw |-> FALSE], item.block, item.t,
                                                     outs[item.t], unfound))

ProcessBatch(batch, start, outs, unfound) ==
    FoldLeft(LAMBDA r, item : ProcessItem(r, item, outs, unfound, start),
             [subs |-> subs, threw |-> FALSE, n |-> emptyBlockCount(batch), failed |-> {}],
             Items(batch, start))

DetachAll(cs, height) == [s \in Sub |-> detach(cs[s], height)]
KeepPartial(cs, n, batch, start) == cs
DropPartial(cs, n, batch, start) == IF n < Len(batch) THEN DetachAll(cs, start + n) ELSE cs

-----------------------------------------------------------------------------
(* The methods.                                                            *)

Tip == IF chain = <<>> THEN NoBlock ELSE Last(chain)
\* What the node may send next: blocks on top of the last one taken.
Batches ==
    LET next(b) == {c \in Block : Parent[c] = b}
        Path(n) == {p \in [1..n -> Block] : p[1] \in next(Tip) /\ \A i \in 2..n : Parent[p[i]] = p[i - 1]}
    IN UNION {Path(n) : n \in 1..MaxBatch}
TxsIn(batch) == {it.t : it \in Range(Items(batch, 0))}

\* MarkTransactionConfirmedException does not keep the hash it is made with.
CaughtHash(t) == Tx \cup {NoTx}

\* onNewBlocks, where every transaction could be preprocessed.  One that throws is, if it was
\* being confirmed, to be removed; the blocks from the first incomplete one on are taken back.
NewBlocks(batch) ==
    LET start == Len(chain)
        txs == TxsIn(batch)
    IN \E order \in SetToSeqs(Paying(txs)), unfound \in (IF FindFails THEN {S \in SUBSET txs : Cardinality(S) <= 1} ELSE {{}}) :
        \E pre \in {PreprocessAll(order, unfound)} : \E r \in {ProcessBatch(batch, start, pre.outs, unfound)} :
        LET confirming == \E t \in r.failed, s \in Sub : t \in DOMAIN r.subs[s].txs
        IN \E h \in IF confirming THEN CaughtHash(r.failed) ELSE {NoTx} :
            /\ subs' = DropPartial([s \in Sub |-> deleteUnconfirmedTransaction(r.subs[s], h)], r.n, batch, start)
            /\ poolTxs' = poolTxs \ {h}
            /\ seen' = pre.seen
            /\ chain' = chain \o SubSeq(batch, 1, r.n)
            /\ failed' = IF confirming THEN r.failed ELSE {}

\* onNewBlocks, where the node failed to give the indices of some transaction; the others
\* may have been preprocessed by then.
NewBlocksFail(batch) ==
    /\ \E order \in SetToSeqs(Paying(TxsIn(batch))) : \E done \in 0..(Len(order) - 1) :
        seen' = PreprocessAll(SubSeq(order, 1, done), {}).seen
    /\ subs' = DetachAll(subs, Len(chain))
    /\ failed' = {}
    /\ UNCHANGED <<poolTxs, chain>>

onBlockchainDetach(height) ==
    /\ height < Len(chain)
    /\ subs' = DetachAll(subs, height)
    /\ chain' = SubSeq(chain, 1, height)
    /\ failed' = {}
    /\ UNCHANGED <<poolTxs, seen>>

AddPool(r, t) ==
    LET pre == Preprocess([seen |-> r.seen, outs |-> NoOuts, unfound |-> {}], t)
        q == processTransaction([subs |-> r.subs, threw |-> r.threw], UnconfirmedBlock, t, pre.outs[t], {})
    IN [seen |-> pre.seen, subs |-> q.subs, threw |-> q.threw]
StartPool == [seen |-> seen, subs |-> subs, threw |-> FALSE]

DropDeleted(cs, deleted) ==
    [s \in Sub |-> FoldSet(LAMBDA t, c : deleteUnconfirmedTransaction(c, t), cs[s], deleted)]

onPoolUpdated(pool) ==
    \E r \in {FoldLeft(AddPool, StartPool, SetToSeq(pool \ poolTxs))} :
       /\ ~r.threw
       /\ subs' = DropDeleted(r.subs, poolTxs \ pool)
       /\ seen' = r.seen /\ poolTxs' = pool /\ failed' = {}
       /\ UNCHANGED chain

addUnconfirmedTransaction(t) ==
    \E r \in {AddPool(StartPool, t)} :
       /\ ~r.threw
       /\ subs' = r.subs /\ seen' = r.seen /\ failed' = {}
       /\ UNCHANGED <<poolTxs, chain>>

\* The wallet takes a transaction back that no node has accepted.
removeUnconfirmedTransaction(t) ==
    /\ t \notin poolTxs
    /\ subs' = DropDeleted(subs, {t}) /\ failed' = {}
    /\ UNCHANGED <<poolTxs, seen, chain>>

-----------------------------------------------------------------------------
(* What a node can send.  A block or a pool spends only what the chain     *)
(* below it pays, and nothing twice.                                       *)

TxsOf(blocks) == UNION {Range(BlockTxs[b]) : b \in blocks}
KeysSpentBy(txs) == {i.key : i \in UNION {Range(Ins[t]) : t \in txs}}
KeysPaidBy(txs) == {OutKey[o] : o \in {p \in Output : OutTx[p] \in txs}}
PoolOf(txs) ==
    {P \in SUBSET (Tx \ txs) :
        /\ KeysSpentBy(P) \subseteq KeysPaidBy(txs) \ KeysSpentBy(txs)
        /\ \A t, u \in P : t # u => KeysSpentBy({t}) \cap KeysSpentBy({u}) = {}}
Unconfirmed == {t \in Tx : \E s \in Sub : t \in DOMAIN subs[s].txs /\ subs[s].txs[t] = UnconfirmedHeight}
\* The wallet does not spend what it has already spent.
Compatible(P) == \A t \in P, u \in Unconfirmed : t # u => KeysSpentBy({t}) \cap KeysSpentBy({u}) = {}

Next ==
    \/ \E batch \in Batches : Compatible(TxsOf(Range(batch))) /\ (NewBlocks(batch) \/ NewBlocksFail(batch))
    \/ \E height \in DetachHeights : onBlockchainDetach(height)
    \/ \E P \in PoolOf(TxsOf(Range(chain))) : Compatible(P) /\ onPoolUpdated(P)
    \/ \E t \in OwnSends :
        /\ t \notin TxsOf(Range(chain)) /\ KeysSpentBy({t}) \subseteq KeysPaidBy(TxsOf(Range(chain)))
        /\ KeysSpentBy({t}) \cap KeysSpentBy(TxsOf(Range(chain)) \cup (Unconfirmed \ {t})) = {}
        /\ addUnconfirmedTransaction(t) \/ removeUnconfirmedTransaction(t)

Spec == Init /\ [][Next]_vars

-----------------------------------------------------------------------------

Scanned == [h \in {i - 1 : i \in {j \in DOMAIN chain : chain[j] \notin Filtered}} |-> chain[h + 1]]
ScannedTxs == TxsOf(Range(Scanned)) \ NoKey
HeightOf(t) == CHOOSE h \in DOMAIN Scanned : t \in Range(BlockTxs[Scanned[h]])

\* What a wallet that scanned this chain from the start, and knew of the same pool
\* transactions, would have for address s.
Fresh(s, pending) ==
    LET paid == {o \in Output : OutSub[o] = s /\ OutTx[o] \in ScannedTxs}
        spenders(o) == {t \in ScannedTxs \cup pending : OutKey[o] \in KeysSpentBy({t})}
        spent == {o \in paid : spenders(o) # {}}
    IN [available |-> [o \in paid \ spent |-> HeightOf(OutTx[o])],
        spent |-> [o \in spent |-> <<HeightOf(OutTx[o]), CHOOSE t \in spenders(o) : TRUE>>],
        unconfirmed |-> {o \in Output : OutSub[o] = s /\ OutTx[o] \in pending},
        txs |-> [t \in {u \in ScannedTxs : \E o \in paid : OutTx[o] = u \/ OutKey[o] \in KeysSpentBy({u})} |-> HeightOf(t)]]

\* Whatever blocks, forks, pool changes, failures and sends of its own the wallet has gone
\* through, each address has the outputs, the spends and the transactions that a fresh scan
\* of its present chain finds, at the right heights, and all of them are visible.
MatchesChain ==
    \A s \in Sub :
        LET c == subs[s]
            pending == {t \in DOMAIN c.txs : c.txs[t] = UnconfirmedHeight}
        IN /\ Fresh(s, pending) =
                [available |-> [o \in DOMAIN c.available |-> c.available[o].height],
                 spent |-> [o \in DOMAIN c.spent |-> <<c.spent[o].height, c.spent[o].by>>],
                 unconfirmed |-> c.unconfirmed,
                 txs |-> [t \in DOMAIN c.txs \ pending |-> c.txs[t]]]
           /\ c.visible = c.unconfirmed \cup Confirmed(c)

\* Of the outputs that share a key image, of which the network lets only one be spent, the
\* balance counts one and not more, whichever the wallet came to know first; and a spent
\* one hides the others.
CountedOnce ==
    \A s \in Sub :
        LET c == subs[s]
            same(o) == {p \in c.unconfirmed \cup Confirmed(c) : OutKey[p] = OutKey[o]}
        IN /\ \A o \in Confirmed(c) : Cardinality(same(o) \cap c.visible) = 1
           /\ \A o \in DOMAIN c.spent : o \in c.visible
=============================================================================
