----------------------- MODULE BlockchainSynchronizer -----------------------
(***************************************************************************)
(* The thread that keeps the consumers of a wallet in step with a node:    *)
(* its states, the requests it sends, and what it makes of the answers.    *)
(* The node changes its chain and its pool and tells its observers; it,    *)
(* and the consumers, may fail a bounded number of times.  Positions in    *)
(* chains count from 0 in the comments, as in the code, and from 1 in      *)
(* sequences.                                                              *)
(***************************************************************************)
EXTENDS Integers, Sequences, SequencesExt, FiniteSets, Functions

CONSTANTS
    Consumer,
    Chains,      \* the chains the node may have, all from the same first block
    First,       \* the one it has at first
    Tx,          \* transactions of its pool
    Dense,       \* how many blocks getShortHistory lists before its steps grow: 10
    Batch,       \* the most blocks in an answer
    MaxFails, MaxStops, MaxPool, MaxCalls, MaxRemoves,
    FewestAdded  \* a consumer that fails adds no block, or at least so many

VARIABLES
    node,       \* [chain, local, pool]: local is the height that the node's proxy knows of
    current, future,
    worker,     \* what the working thread does, with its request and the answer
    consumer,   \* those added, with [state, got, pool]: SynchronizationState, the blocks given by
                \* height, the pool known
    lastBlockId,
    observing,  \* the node has us for an observer
    wasStarted,
    completed,  \* the last synchronizationCompleted: "none", "ok" or "error"
    task,       \* the call whose promise its one caller waits for: [op, tx], or NoTask
    left        \* the failures, stops, changes of the pool and calls that are left

vars == <<node, current, future, worker, consumer, lastBlockId, observing, wasStarted, completed, task, left>>
world == <<node, wasStarted, task, observing>>

NoTask == [op |-> "none"]

idle == 0
poolSync == 1
blockchainSync == 2
deleteOldTxs == 3
stopped == 4

MinNat(a, b) == IF a < b THEN a ELSE b

-----------------------------------------------------------------------------
\* SynchronizationState::getShortHistory, newest first.
getShortHistory(state, localHeight) ==
    LET sz == MinNat(Len(state), localHeight + 1)
        offset[i \in Nat] == IF i <= Dense THEN i + 1 ELSE offset[i - 1] + 2^(i - Dense)
        used == {i \in 0..sz : offset[i] < sz}
    IN IF sz = 0 THEN <<>>
       ELSE Append([i \in 1..Cardinality(used) |-> state[sz - offset[i - 1] + 1]], state[1])

\* SynchronizationState::checkInterval: the first block that differs, or the first that is new.
checkInterval(state, start, blocks) ==
    LET end == start + Len(blocks)
        differ == {i \in start..(MinNat(Len(state), end) - 1) : state[i + 1] # blocks[i - start + 1]}
    IN IF differ # {}
       THEN LET i == CHOOSE j \in differ : \A k \in differ : j <= k
            IN [detach |-> TRUE, hasNew |-> TRUE, height |-> i]
       ELSE [detach |-> FALSE, hasNew |-> end > Len(state), height |-> Len(state)]

\* The blocks a consumer has, by height.
DetachGot(got, height) == Restrict(got, {h \in DOMAIN got : h < height})
AddGot(got, height, blocks) ==
    [h \in DOMAIN got \cup {height + i - 1 : i \in DOMAIN blocks} |->
        IF h >= height /\ h < height + Len(blocks) THEN blocks[h - height + 1] ELSE got[h]]

updateNoDetach(k, start, blocks, lost) ==
    LET r == checkInterval(k.state, start, blocks)
        height == IF r.height = 1 THEN 0 ELSE r.height
        from == IF height = 0 THEN 0 ELSE height - start
        new == IF r.hasNew THEN SubSeq(blocks, from + 1, Len(blocks) - lost) ELSE <<>>
    IN [k EXCEPT !.state = SubSeq(@, 1, r.height) \o new, !.got = AddGot(@, height, new)]
\* What updateConsumers does to one consumer, which adds all but the last lost of its blocks.
\* Blocks that are new from height 1 on are given from the start of the interval, as of height 0.
updateConsumer(k, start, blocks, lost) ==
    LET r == checkInterval(k.state, start, blocks)
        height == IF r.height = 1 THEN 0 ELSE r.height
        from == IF height = 0 THEN 0 ELSE height - start
        new == IF r.hasNew THEN SubSeq(blocks, from + 1, Len(blocks) - lost) ELSE <<>>
        kept == IF r.detach THEN SubSeq(k.state, 1, r.height) ELSE k.state
    IN [k EXCEPT !.state = kept \o new,
                 !.got = AddGot(IF r.detach THEN DetachGot(@, r.height) ELSE @, height, new)]

\* The blocks of an interval that are offered to a consumer, and the index of its last one.
Offered(k, start, blocks) ==
    LET r == checkInterval(k.state, start, blocks)
        from == IF r.height <= 1 THEN 0 ELSE r.height - start
    IN IF r.hasNew THEN Len(blocks) - from ELSE 0

-----------------------------------------------------------------------------
\* The node (Core::queryBlocks and getPoolChanges, through its proxy).
CommonIndex(chain, history) ==
    LET i == CHOOSE j \in DOMAIN history : history[j] \in Range(chain) /\ \A k \in 1..(j - 1) : history[k] \notin Range(chain)
    IN (CHOOSE h \in DOMAIN chain : chain[h] = history[i]) - 1

QueryBlocks(history) ==
    LET start == CommonIndex(node.chain, history)
    IN [start |-> start, blocks |-> SubSeq(node.chain, start + 1, MinNat(Len(node.chain), start + Batch))]

PoolChanges(known) ==
    [actual |-> lastBlockId = Last(node.chain), new |-> node.pool \ known, deleted |-> known \ node.pool]

\* setFutureState, and the form used after an error.
setFutureState(s) == future' = IF s > future THEN s ELSE future
setIdle == future' = IF future = stopped THEN future ELSE idle

Goto(pc) == worker' = [worker EXCEPT !.pc = pc]
Complete(result) == completed' = result
Fail == left.fails > 0 /\ left' = [left EXCEPT !.fails = @ - 1]

-----------------------------------------------------------------------------
Added == DOMAIN consumer
PoolUnion == UNION {consumer[c].pool : c \in Added}
PoolIntersection == {t \in Tx : \A c \in Added : t \in consumer[c].pool}

SetPools(set, P(_)) == consumer' = [c \in Added |-> IF c \in set THEN [consumer[c] EXCEPT !.pool = P(@)] ELSE consumer[c]]
ProperSubsets(S) == SUBSET S \ {S}

\* doAddUnconfirmedTransaction, which takes the transaction back from the consumers before one
\* that refuses it, and doRemoveUnconfirmedTransaction.
doAddUnconfirmedTransaction(t) ==
    \/ SetPools(Added, LAMBDA p : p \cup {t}) /\ UNCHANGED left
    \/ Fail /\ \E before \in ProperSubsets(Added) : SetPools(before, LAMBDA p : p \ {t})
doRemoveUnconfirmedTransaction(t) == SetPools(Added, LAMBDA p : p \ {t}) /\ UNCHANGED left

getCommonHistory ==
    LET c == CHOOSE d \in Added : \A e \in Added : Len(consumer[d].state) <= Len(consumer[e].state)
    IN getShortHistory(consumer[c].state, node.local)

\* actualizeFutureState: the observer and the task, under the lock, then what the state asks for.
HandleTask ==
    /\ worker.pc = "loop" /\ task # NoTask
    /\ IF task.op = "add" THEN doAddUnconfirmedTransaction(task.tx) ELSE doRemoveUnconfirmedTransaction(task.tx)
    /\ task' = NoTask
    /\ UNCHANGED <<node, current, future, worker, lastBlockId, observing, wasStarted, completed>>

actualizeFutureState ==
    /\ worker.pc = "loop" /\ task = NoTask
    /\ observing' = (future # stopped /\ (observing \/ current = stopped))
    /\ current' = future
    /\ \/ future = stopped /\ Goto("ended") /\ UNCHANGED future
       \/ future = deleteOldTxs /\ future' = blockchainSync /\ worker' = [worker EXCEPT !.pc = "outdated", !.known = PoolUnion]
       \/ future = blockchainSync /\ future' = poolSync /\ worker' = [worker EXCEPT !.pc = "query", !.history = getCommonHistory]
       \/ /\ future = poolSync /\ future' = idle
          /\ worker' = [worker EXCEPT !.pc = "pool", !.known = PoolUnion, !.common = PoolIntersection]
       \/ future = idle /\ Goto("idle") /\ UNCHANGED future
    /\ UNCHANGED <<node, consumer, lastBlockId, wasStarted, completed, task, left>>

\* The end of the wait.
Resume ==
    /\ worker.pc = "idle" /\ (future # idle \/ task # NoTask)
    /\ Goto("loop") /\ UNCHANGED <<world, current, future, consumer, lastBlockId, completed, left>>

\* startBlockchainSync gets its answer, or an error.
QueryAnswered ==
    /\ worker.pc = "query"
    /\ \/ worker' = [worker EXCEPT !.pc = "process", !.answer = QueryBlocks(worker.history)] /\ UNCHANGED <<future, completed, left>>
       \/ Fail /\ setIdle /\ Complete("error") /\ Goto("loop")
    /\ UNCHANGED <<world, current, consumer, lastBlockId>>

\* updateConsumers; each consumer loses its last lost blocks, a failure if there are any.
updateConsumers(start, blocks, lost) ==
    LET offered == [c \in Added |-> Offered(consumer[c], start, blocks)]
        grown == {c \in Added : offered[c] > lost[c]}
    IN /\ \A c \in Added : lost[c] \in {0, offered[c]} \cup 0..(offered[c] - FewestAdded)
       /\ consumer' = [c \in Added |-> updateConsumer(consumer[c], start, blocks, lost[c])]
       /\ lastBlockId' = IF grown = {} THEN lastBlockId
                         ELSE LET c == CHOOSE d \in grown : \A e \in grown : lost[d] >= lost[e]
                              IN blocks[Len(blocks) - lost[c]]
       /\ IF \E c \in Added : lost[c] > 0 THEN Fail /\ setIdle /\ Complete("error")
          ELSE /\ IF grown # {} THEN setFutureState(blockchainSync) ELSE UNCHANGED future
               /\ completed' = IF future = stopped THEN "error" ELSE completed
               /\ UNCHANGED left

\* processBlocks.  When the synchronizer is stopped before the update, there is none.
processBlocks ==
    /\ worker.pc = "process" /\ Goto("loop")
    /\ \/ \E lost \in [Added -> 0..Batch] : updateConsumers(worker.answer.start, worker.answer.blocks, lost)
       \/ future = stopped /\ Complete("error") /\ UNCHANGED <<future, consumer, lastBlockId, left>>
    /\ UNCHANGED <<world, current>>

\* removeOutdatedTransactions.  After an error it sleeps, and tries again unless it is stopped.
removeOutdatedTransactions ==
    LET deleted == PoolChanges(worker.known).deleted
    IN /\ worker.pc = "outdated"
       /\ \/ SetPools(Added, LAMBDA p : p \ deleted) /\ Goto("loop") /\ UNCHANGED <<completed, left>>
          \/ /\ Fail /\ Complete("error") /\ Goto("retry")
             /\ \E done \in ProperSubsets(Added) : SetPools(done, LAMBDA p : p \ deleted)
       /\ UNCHANGED <<world, current, future, lastBlockId>>

Retry ==
    /\ worker.pc = "retry" /\ Goto("loop")
    /\ future' = IF future = stopped THEN stopped ELSE deleteOldTxs
    /\ UNCHANGED <<world, current, consumer, lastBlockId, completed, left>>

\* processPoolTxs: the consumers in turn, until one fails or the synchronizer is to stop.
processPoolTxs(new, deleted) ==
    \/ SetPools(Added, LAMBDA p : (p \ deleted) \cup new) /\ Complete("ok") /\ UNCHANGED left
    \/ /\ IF future = stopped THEN UNCHANGED left ELSE Fail
       /\ Complete("error")
       /\ \E done \in ProperSubsets(Added) : SetPools(done, LAMBDA p : (p \ deleted) \cup new)

\* startPoolSync, from the answer to its first request on.
PoolAnswered ==
    LET r == PoolChanges(worker.known)
    IN /\ worker.pc = "pool"
       /\ \/ Fail /\ setIdle /\ Complete("error") /\ Goto("loop") /\ UNCHANGED consumer
          \/ ~r.actual /\ setFutureState(blockchainSync) /\ Goto("loop") /\ UNCHANGED <<consumer, completed, left>>
          \/ /\ r.actual /\ worker.known = worker.common
             /\ processPoolTxs(r.new, r.deleted) /\ Goto("loop") /\ UNCHANGED future
          \/ /\ r.actual /\ worker.known # worker.common
             /\ worker' = [worker EXCEPT !.pc = "pool2", !.deleted = r.deleted]
             /\ UNCHANGED <<future, consumer, completed, left>>
       /\ UNCHANGED <<world, current, lastBlockId>>

\* The second stage asks with what all consumers know, and keeps the deletions of the first.
PoolAnsweredAgain ==
    LET r == PoolChanges(worker.common)
    IN /\ worker.pc = "pool2" /\ Goto("loop")
       /\ \/ Fail /\ setIdle /\ Complete("error") /\ UNCHANGED consumer
          \/ ~r.actual /\ setFutureState(blockchainSync) /\ UNCHANGED <<consumer, completed, left>>
          \/ r.actual /\ processPoolTxs(r.new, worker.deleted) /\ UNCHANGED future
       /\ UNCHANGED <<world, current, lastBlockId>>

-----------------------------------------------------------------------------
Stopped == current = stopped /\ future = stopped /\ worker.pc = "off"

\* addConsumer and removeConsumer need the synchronizer stopped.
addConsumer(c) ==
    /\ Stopped /\ c \notin Added
    /\ consumer' = [d \in Added \cup {c} |->
                        IF d = c THEN [state |-> <<First[1]>>, got |-> [h \in {} |-> First[1]], pool |-> {}] ELSE consumer[d]]
    /\ UNCHANGED <<world, current, future, worker, lastBlockId, completed, left>>
removeConsumer(c) ==
    /\ Stopped /\ c \in Added /\ left.removes > 0
    /\ consumer' = Restrict(consumer, Added \ {c}) /\ left' = [left EXCEPT !.removes = @ - 1]
    /\ UNCHANGED <<world, current, future, worker, lastBlockId, completed>>

start ==
    /\ Stopped /\ Added # {}
    /\ future' = IF wasStarted THEN blockchainSync ELSE deleteOldTxs
    /\ wasStarted' = TRUE /\ Goto("loop")
    /\ UNCHANGED <<node, current, consumer, lastBlockId, observing, completed, task, left>>

\* stop sets the state, and joins the thread later.
stop ==
    /\ worker.pc # "off" /\ future # stopped /\ left.stops > 0
    /\ left' = [left EXCEPT !.stops = @ - 1] /\ setFutureState(stopped)
    /\ UNCHANGED <<world, current, worker, consumer, lastBlockId, completed>>
Join ==
    /\ worker.pc = "ended" /\ Goto("off")
    /\ UNCHANGED <<world, current, future, consumer, lastBlockId, completed, left>>

\* addUnconfirmedTransaction and removeUnconfirmedTransaction; the caller waits for the future.
CallTask(op, t) ==
    /\ current # stopped /\ future # stopped /\ task = NoTask /\ left.calls > 0
    /\ task' = [op |-> op, tx |-> t] /\ left' = [left EXCEPT !.calls = @ - 1]
    /\ UNCHANGED <<node, current, future, worker, consumer, lastBlockId, observing, wasStarted, completed>>

\* The chain of the node, its proxy, which tells the observers, and its pool.
ChainChanges ==
    /\ \E s \in Chains : Len(s) > Len(node.chain) /\ node' = [node EXCEPT !.chain = s]
    /\ UNCHANGED <<current, future, worker, consumer, lastBlockId, observing, wasStarted, completed, task, left>>
localBlockchainUpdated ==
    /\ node.local # Len(node.chain) - 1
    /\ node' = [node EXCEPT !.local = Len(node.chain) - 1]
    /\ IF observing THEN setFutureState(blockchainSync) ELSE UNCHANGED future
    /\ UNCHANGED <<current, worker, consumer, lastBlockId, observing, wasStarted, completed, task, left>>
poolChanged ==
    /\ left.pool > 0 /\ left' = [left EXCEPT !.pool = @ - 1]
    /\ \E p \in SUBSET Tx : p # node.pool /\ node' = [node EXCEPT !.pool = p]
    /\ IF observing THEN setFutureState(poolSync) ELSE UNCHANGED future
    /\ UNCHANGED <<current, worker, consumer, lastBlockId, observing, wasStarted, completed, task>>

Init ==
    /\ node = [chain |-> First, local |-> Len(First) - 1, pool |-> {}]
    /\ current = stopped /\ future = stopped
    /\ worker = [pc |-> "off", history |-> <<>>, answer |-> [start |-> 0, blocks |-> <<>>], known |-> {}, common |-> {}, deleted |-> {}]
    /\ consumer = [c \in {} |-> 0]
    /\ lastBlockId = First[1] /\ observing = FALSE /\ wasStarted = FALSE /\ completed = "none"
    /\ task = NoTask
    /\ left = [fails |-> MaxFails, stops |-> MaxStops, pool |-> MaxPool, calls |-> MaxCalls, removes |-> MaxRemoves]

Work ==
    \/ HandleTask \/ actualizeFutureState \/ Resume \/ QueryAnswered \/ processBlocks
    \/ removeOutdatedTransactions \/ Retry \/ PoolAnswered \/ PoolAnsweredAgain

Next ==
    \/ Work \/ start \/ stop \/ Join
    \/ \E c \in Consumer : addConsumer(c) \/ removeConsumer(c)
    \/ \E t \in Tx, op \in {"add", "remove"} : CallTask(op, t)
    \/ ChainChanges \/ localBlockchainUpdated \/ poolChanged

Spec == Init /\ [][Next]_vars

\* The thread runs, the node answers and its proxy learns of its chain; the synchronizer is
\* started again after a stop.
FairSpec == Spec /\ WF_vars(Work) /\ WF_vars(localBlockchainUpdated) /\ WF_vars(start) /\ WF_vars(Join)

-----------------------------------------------------------------------------
HasChain(c, s) == consumer[c].got = [h \in 0..(Len(s) - 1) |-> s[h + 1]]

\* A consumer has the blocks of one chain, at their heights, from the first one on.
ConsumersOnChain ==
    \A c \in Added : \E s \in Chains : \E n \in 0..Len(s) : HasChain(c, SubSeq(s, 1, n))

\* When it waits for work and the node's last event was seen, either the consumers have the chain of
\* the node, or its observers were told of an error by the last completion.
IdleIsInStep ==
    (worker.pc = "idle" /\ future = idle /\ task = NoTask /\ node.local = Len(node.chain) - 1) =>
        completed = "error" \/ \A c \in Added : HasChain(c, node.chain)

\* stop returns.
StopReturns == (future = stopped /\ worker.pc # "off") ~> worker.pc = "off"
=============================================================================
