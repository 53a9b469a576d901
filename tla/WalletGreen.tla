----------------------------- MODULE WalletGreen -----------------------------
(***************************************************************************)
(* The container of addresses that the wallet service keeps (WalletGreen,  *)
(* WalletSerializerV2).  The synchronizer's thread changes the containers  *)
(* of outputs, one per address, and spawns a call on the wallet's          *)
(* dispatcher for each change; the calls and the user's operations each    *)
(* hold m_readyEvent.  The wallet caches, per address and in total, the    *)
(* balances it last read from the containers, and keeps a list of          *)
(* transactions of its own, whose positions are the ids of the delayed     *)
(* transactions.  Addresses are written to the file at once, the rest on   *)
(* save; a restart may come at any step.                                   *)
(*                                                                         *)
(* Heights are block indices: the genesis block has 0.                     *)
(***************************************************************************)
EXTENDS Integers, Sequences, SequencesExt, FiniteSets, FiniteSetsExt

CONSTANTS
    Addr,           \* spend keys
    Tx,             \* transactions that concern the wallet
    Made,           \* those the wallet itself makes
    Out,            \* Out[t][a]: what t pays to a
    Spends,         \* Spends[t]: the transactions whose outputs t spends
    Age,            \* m_transactionSoftLockTime
    Start,          \* the addresses of the new container
    Mined,          \* the transactions of the first block, there from the start
    Deletable,      \* the addresses that are deleted or added
    MaxTip, MaxReorgs, MaxFailures, MaxRestarts, MaxChanges    \* bounds, the last
                    \* of addresses deleted and added; failures include transactions the pool drops

Absent == -1
Unconfirmed == MaxTip + 1           \* WALLET_UNCONFIRMED_TRANSACTION_HEIGHT
Levels == {"ALL", "KEYS_AND_TRANSACTIONS", "KEYS"}

VARIABLES
    node,       \* the daemon: where each transaction is, and its top block
    sync,       \* the synchronizer: containers, height, pool, agreement with the daemon
    phase,      \* "rest", or "blocks" between the first and the last step of onNewBlocks
    calls,      \* calls spawned on the dispatcher
    w,          \* the members of WalletGreen
    op,         \* the operation that holds m_readyEvent
    disk,       \* the file: keys and the last saved cache
    used        \* how often the bounded faults have happened

vars == <<node, sync, phase, calls, w, op, disk, used>>

Idle == [kind |-> "idle", id |-> 0, t |-> Absent, at |-> "", reached |-> FALSE]
NoContainer == [t \in Tx |-> Absent]
NewSync == [cont |-> [a \in Addr |-> NoContainer], height |-> 0, agreed |-> 0, pool |-> {}]
NoBalance == [a \in Addr |-> [actual |-> 0, pending |-> 0]]
NewWallet(keys) ==
    [keys |-> keys, balance |-> NoBalance, total |-> [actual |-> 0, pending |-> 0],
     txs |-> <<>>, uncommitted |-> {}, jobs |-> {}, blocks |-> 1, events |-> {}]

Init ==
    /\ node = [at |-> [t \in Tx |-> IF t \in Mined THEN 1 ELSE Absent], tip |-> 1]
    /\ sync = NewSync /\ phase = "rest" /\ calls = <<>>
    /\ w = NewWallet(Start) /\ op = Idle
    /\ disk = [keys |-> Start, level |-> "NONE", sync |-> NewSync, w |-> NewWallet(Start)]
    /\ used = [reorgs |-> 0, failures |-> 0, restarts |-> 0, changes |-> 0]

-----------------------------------------------------------------------------
(* The containers of outputs.                                              *)

InContainer(c, t) == c[t] # Absent
Spent(c, s) == \E t \in Tx : s \in Spends[t] /\ InContainer(c, t)
IsUnlocked(c, height, t) == InContainer(c, t) /\ c[t] # Unconfirmed /\ c[t] + Age <= height
Total(ts, a) == FoldSet(LAMBDA t, sum : sum + Out[t][a], 0, ts)
balance(s, a) ==
    LET c == s.cont[a]
        unspent == {t \in Tx : InContainer(c, t) /\ ~Spent(c, t)}
        unlocked == {t \in unspent : IsUnlocked(c, s.height, t)}
    IN [actual |-> Total(unlocked, a), pending |-> Total(unspent \ unlocked, a)]

\* Whether the container of a takes t: a payment to a, or an output it knows is spent.
Takes(s, a, t) == Out[t][a] > 0 \/ \E o \in Spends[t] : Out[o][a] > 0 /\ InContainer(s.cont[a], o)

\* processTransaction at height h, in the containers of keys.
Holders(s, keys, t) == {a \in keys : InContainer(s.cont[a], t)}
Added(s, keys, t, h) ==
    [s EXCEPT !.cont = [a \in Addr |->
        IF a \in keys /\ Takes(s, a, t) /\ @[a][t] \in {Absent, Unconfirmed} THEN [@[a] EXCEPT ![t] = h] ELSE @[a]]]
UpdatedCall(s, keys, t) == <<"updated", t, s.cont[CHOOSE a \in Holders(s, keys, t) : TRUE][t], Holders(s, keys, t)>>
processTransaction(r, keys, t, h) ==
    LET s == Added(r.sync, keys, t, h)
    IN IF s = r.sync THEN r ELSE [sync |-> s, calls |-> Append(r.calls, UpdatedCall(s, keys, t))]

\* A transaction leaves the container of each address in as: a call for each.
Removed(s, pairs) ==
    [s EXCEPT !.cont = [a \in Addr |-> [t \in Tx |-> IF <<a, t>> \in pairs THEN Absent ELSE @[a][t]]]]
DeletedCalls(pairs) == SetToSeq({<<"deleted", p[2], p[1]>> : p \in pairs})

UnconfirmedIn(s, t) == {<<a, t>> : a \in {b \in Addr : s.cont[b][t] = Unconfirmed}}
\* TransfersContainer::detach: from height h on, and what spends from there unconfirmed.
DetachedIn(s, h) ==
    {p \in Addr \X Tx :
        LET c == s.cont[p[1]]
            gone(t) == InContainer(c, t) /\ c[t] # Unconfirmed /\ c[t] >= h
        IN gone(p[2]) \/ (c[p[2]] = Unconfirmed /\ \E o \in Spends[p[2]] : Out[o][p[1]] > 0 /\ gone(o))}

-----------------------------------------------------------------------------
(* The daemon.                                                             *)

Confirmed(n, t) == n.at[t] \in 0..MaxTip
Synced == sync.agreed = sync.height /\ sync.height = node.tip
NodeUnchanged == UNCHANGED <<sync, phase, calls, w, op, disk, used>>

NodeMines(ts) ==
    /\ node.tip < MaxTip
    /\ \A t \in ts : /\ node.at[t] = Unconfirmed \/ (t \notin Made /\ node.at[t] = Absent)
                     /\ \A o \in Spends[t] : Confirmed(node, o)
    /\ node' = [at |-> [t \in Tx |-> IF t \in ts THEN node.tip + 1 ELSE node.at[t]], tip |-> node.tip + 1]
    /\ NodeUnchanged

NodePool(t) ==
    /\ t \notin Made /\ node.at[t] = Absent
    /\ node' = [node EXCEPT !.at[t] = Unconfirmed]
    /\ NodeUnchanged

NodeDrops(t) ==
    /\ node.at[t] = Unconfirmed /\ used.failures < MaxFailures
    /\ node' = [node EXCEPT !.at[t] = Absent]
    /\ used' = [used EXCEPT !.failures = @ + 1]
    /\ UNCHANGED <<sync, phase, calls, w, op, disk>>

\* Blocks above h are replaced by one more; their transactions go back to the pool.
NodeReorg(h) ==
    /\ used.reorgs < MaxReorgs /\ h < node.tip /\ node.tip < MaxTip
    /\ node' = [at |-> [t \in Tx |-> IF Confirmed(node, t) /\ node.at[t] > h THEN Unconfirmed ELSE node.at[t]],
                tip |-> node.tip + 1]
    /\ sync' = [sync EXCEPT !.agreed = Min({@, h})]
    /\ disk' = [disk EXCEPT !.sync.agreed = Min({@, h})]
    /\ used' = [used EXCEPT !.reorgs = @ + 1]
    /\ UNCHANGED <<phase, calls, w, op>>

-----------------------------------------------------------------------------
(* The synchronizer's thread, which runs while there are addresses.        *)

SyncUnchanged == UNCHANGED <<node, w, op, disk, used>>

onBlockchainDetach ==
    /\ phase = "rest" /\ w.keys # {} /\ sync.agreed < sync.height
    /\ LET gone == DetachedIn(sync, sync.agreed + 1)
       IN /\ sync' = [Removed(sync, gone) EXCEPT !.height = sync.agreed]
          /\ calls' = calls \o <<<<"rollback", sync.agreed + 1>>>> \o DeletedCalls(gone)
    /\ UNCHANGED phase /\ SyncUnchanged

\* The next block: its transactions, then the height of the containers and the progress.
onNewBlocks ==
    /\ phase = "rest" /\ w.keys # {} /\ sync.agreed = sync.height /\ sync.height < node.tip
    /\ LET h == sync.height + 1
           r == FoldLeft(LAMBDA q, t : processTransaction(q, w.keys, t, h),
                         [sync |-> sync, calls |-> Append(calls, <<"added">>)],
                         SetToSeq({t \in Tx : node.at[t] = h}))
       IN sync' = [r.sync EXCEPT !.agreed = h] /\ calls' = r.calls
    /\ phase' = "blocks" /\ SyncUnchanged

advanceHeight ==
    /\ phase = "blocks"
    /\ sync' = [sync EXCEPT !.height = @ + 1]
    /\ calls' = Append(calls, <<"progress", sync.height + 1>>)
    /\ phase' = "rest" /\ SyncUnchanged

onPoolUpdatedAdd(t) ==
    /\ phase = "rest" /\ w.keys # {} /\ Synced /\ node.at[t] = Unconfirmed /\ t \notin sync.pool
    /\ LET r == processTransaction([sync |-> sync, calls |-> calls], w.keys, t, Unconfirmed)
       IN sync' = [r.sync EXCEPT !.pool = @ \cup {t}] /\ calls' = r.calls
    /\ UNCHANGED phase /\ SyncUnchanged

onPoolUpdatedDelete(t) ==
    /\ phase = "rest" /\ w.keys # {} /\ Synced /\ node.at[t] # Unconfirmed /\ t \in sync.pool
    /\ sync' = [Removed(sync, UnconfirmedIn(sync, t)) EXCEPT !.pool = @ \ {t}]
    /\ calls' = calls \o DeletedCalls(UnconfirmedIn(sync, t))
    /\ UNCHANGED phase /\ SyncUnchanged

-----------------------------------------------------------------------------
(* What the calls and operations do to the wallet's members.               *)

IdOf(v, t) == IF \E i \in DOMAIN v.txs : v.txs[i].hash = t
              THEN CHOOSE i \in DOMAIN v.txs : v.txs[i].hash = t ELSE 0
PushEvent(v, ids) == [v EXCEPT !.events = @ \cup ids]
Forgotten(v, ids) == [v EXCEPT !.uncommitted = {p \in @ : p[1] \notin ids}]

Adjusted(total, old, new) == total + new - old
updateBalance(v, s, a) ==
    IF a \notin v.keys THEN v
    ELSE LET b == balance(s, a)
         IN [v EXCEPT !.balance[a] = b,
                      !.total.actual = Adjusted(@, v.balance[a].actual, b.actual),
                      !.total.pending = Adjusted(@, v.balance[a].pending, b.pending)]
UpdateBalances(v, s, as) == FoldSet(LAMBDA a, u : updateBalance(u, s, a), v, as)

updateTransactionState(v, id, state) ==
    IF v.txs[id].state = state THEN v
    ELSE PushEvent([v EXCEPT !.txs[id].state = state], {id})

WasSent(state) == state \notin {"CREATED", "FAILED"}
InfoState(state, h) == IF WasSent(state) \/ h # Unconfirmed THEN "SUCCEEDED" ELSE state
updateWalletTransactionInfo(tx, h) == [tx EXCEPT !.height = h, !.state = InfoState(@, h)]
insertBlockchainTransaction(v, t, h) ==
    [v EXCEPT !.txs = Append(@, [hash |-> t, state |-> "SUCCEEDED", height |-> h, own |-> {}])]

UnlockHeight(h) == h + Age
InsertJobs(v, t, h, as) ==
    IF h = Unconfirmed THEN v ELSE [v EXCEPT !.jobs = @ \cup {<<UnlockHeight(h), a, t>> : a \in as}]

ChangedTx(old, new) == old # new
ForgetConfirmed(v, id, h) == IF h = Unconfirmed THEN v ELSE Forgotten(v, {id})

transactionUpdated(v, s, t, h, as) ==
    LET new == IdOf(v, t) = 0
        v1 == IF new THEN insertBlockchainTransaction(v, t, h) ELSE v
        id == IdOf(v1, t)
        tx == [updateWalletTransactionInfo(v1.txs[id], h) EXCEPT !.own = as]
        v2 == [v1 EXCEPT !.txs[id] = tx]
        v3 == ForgetConfirmed(v2, id, h)
        v4 == InsertJobs(UpdateBalances(v3, s, as), t, h, as)
    IN IF new \/ ChangedTx(v1.txs[id], tx) THEN PushEvent(v4, {id}) ELSE v4

Cancelled(tx) == [tx EXCEPT !.state = IF @ \in {"CREATED", "SUCCEEDED"} THEN "CANCELLED" ELSE @,
                            !.height = Unconfirmed]
transactionDeleted(v, s, t, a) ==
    LET id == IdOf(v, t)
        v1 == [updateBalance(v, s, a) EXCEPT !.jobs = {j \in @ : j[3] # t}, !.txs[id] = Cancelled(@)]
    IN IF id = 0 THEN v ELSE IF ChangedTx(v.txs[id], v1.txs[id]) THEN PushEvent(v1, {id}) ELSE v1

DueJobs(v, h) == {j \in v.jobs : j[1] <= h}
unlockBalances(v, s, h) ==
    [UpdateBalances(v, s, {j[2] : j \in DueJobs(v, h)}) EXCEPT !.jobs = @ \ DueJobs(v, h)]

blocksRollback(v, h) == [v EXCEPT !.blocks = h]

HandledCall(v, s, c) ==
    CASE c[1] = "updated" -> transactionUpdated(v, s, c[2], c[3], c[4])
      [] c[1] = "deleted" -> transactionDeleted(v, s, c[2], c[3])
      [] c[1] = "added" -> [v EXCEPT !.blocks = @ + 1]
      [] c[1] = "rollback" -> blocksRollback(v, c[2])
      [] OTHER -> unlockBalances(v, s, c[2])

HandleCall ==
    /\ op = Idle /\ calls # <<>>
    /\ w' = HandledCall(w, sync, Head(calls))
    /\ calls' = Tail(calls)
    /\ UNCHANGED <<node, sync, phase, op, disk, used>>

\* The service takes what is in m_events.
getEvent ==
    /\ w.events # {}
    /\ w' = [w EXCEPT !.events = {}]
    /\ UNCHANGED <<node, sync, phase, calls, op, disk, used>>

-----------------------------------------------------------------------------
(* Making, sending, committing and rolling back transactions.              *)

Spendable(t) ==
    \A o \in Spends[t] : \E a \in w.keys :
        /\ Out[o][a] > 0 /\ IsUnlocked(sync.cont[a], sync.height, o) /\ ~Spent(sync.cont[a], o)

insertOutgoingTransaction(v, t) ==
    PushEvent([v EXCEPT !.txs = Append(@, [hash |-> t, state |-> "CREATED", height |-> Unconfirmed,
                                           own |-> {a \in v.keys : Out[t][a] > 0}])], {Len(v.txs) + 1})

\* transfer and makeTransaction as far as adding the transaction to the containers.
MakeTransaction(t, send) ==
    /\ op = Idle /\ w.keys # {} /\ t \in Made /\ IdOf(w, t) = 0 /\ Spendable(t)
    /\ w' = insertOutgoingTransaction(w, t)
    /\ op' = [kind |-> IF send THEN "send" ELSE "make", id |-> Len(w.txs) + 1, t |-> t, at |-> "add", reached |-> FALSE]
    /\ UNCHANGED <<node, sync, phase, calls, disk, used>>

\* A map keeps the entry it has under an id.
Delayed(v, id, t) ==
    IF \E p \in v.uncommitted : p[1] = id THEN v ELSE [v EXCEPT !.uncommitted = @ \cup {<<id, t>>}]

addUnconfirmedTransaction ==
    /\ op.at = "add" /\ phase = "rest"
    /\ LET r == processTransaction([sync |-> sync, calls |-> calls], w.keys, op.t, Unconfirmed)
       IN sync' = r.sync /\ calls' = r.calls
    /\ IF op.kind = "send" THEN op' = [op EXCEPT !.at = "relay"] /\ UNCHANGED w
       ELSE w' = Delayed(w, op.id, op.t) /\ op' = Idle
    /\ UNCHANGED <<node, phase, disk, used>>

AddFails ==
    /\ op.at = "add" /\ phase = "rest" /\ used.failures < MaxFailures
    /\ used' = [used EXCEPT !.failures = @ + 1]
    /\ w' = updateTransactionState(w, op.id, "FAILED") /\ op' = Idle
    /\ UNCHANGED <<node, sync, phase, calls, disk>>

commitTransaction(p) ==
    /\ op = Idle /\ p[1] <= Len(w.txs) /\ w.txs[p[1]].state = "CREATED"
    /\ op' = [kind |-> "commit", id |-> p[1], t |-> p[2], at |-> "relay", reached |-> FALSE]
    /\ UNCHANGED <<node, sync, phase, calls, w, disk, used>>

\* The daemon gets the transaction that is relayed; its answer comes later, or not.
RelayReaches ==
    /\ op.at = "relay" /\ ~op.reached
    /\ node' = [node EXCEPT !.at[op.t] = IF @ = Absent THEN Unconfirmed ELSE @]
    /\ op' = [op EXCEPT !.reached = TRUE]
    /\ UNCHANGED <<sync, phase, calls, w, disk, used>>

RelayDone ==
    /\ op.at = "relay" /\ op.reached
    /\ LET v == updateTransactionState(w, op.id, "SUCCEEDED")
       IN w' = IF op.kind = "commit" THEN Forgotten(v, {op.id}) ELSE v
    /\ op' = Idle
    /\ UNCHANGED <<node, sync, phase, calls, disk, used>>

\* An error undoes a transfer; commitTransaction leaves the transaction delayed.
RelayFails ==
    /\ op.at = "relay" /\ phase = "rest" /\ used.failures < MaxFailures
    /\ used' = [used EXCEPT !.failures = @ + 1]
    /\ IF op.kind = "send"
       THEN /\ sync' = Removed(sync, UnconfirmedIn(sync, op.t))
            /\ calls' = calls \o DeletedCalls(UnconfirmedIn(sync, op.t))
            /\ w' = updateTransactionState(w, op.id, "FAILED")
       ELSE UNCHANGED <<sync, calls, w>>
    /\ op' = Idle
    /\ UNCHANGED <<node, phase, disk>>

rollbackUncommitedTransaction(p) ==
    /\ op = Idle /\ phase = "rest" /\ p[1] <= Len(w.txs) /\ w.txs[p[1]].state = "CREATED"
    /\ sync' = Removed(sync, UnconfirmedIn(sync, p[2]))
    /\ calls' = calls \o DeletedCalls(UnconfirmedIn(sync, p[2]))
    /\ w' = Forgotten(w, {p[1]})
    /\ UNCHANGED <<node, phase, op, disk, used>>

-----------------------------------------------------------------------------
(* Addresses, saving and loading.  Stopping the synchronizer waits for its *)
(* thread and for the calls it has spawned.                                *)

SyncStops == op = Idle /\ phase = "rest" /\ calls = <<>>

\* deleteTransfersForAddress and deleteFromUncommitedTransactions.
DeleteTransfers(v, a) ==
    LET gone == {i \in DOMAIN v.txs : (v.txs[i].own \ {a}) \cap v.keys = {}}
        changed == {i \in DOMAIN v.txs : a \in v.txs[i].own}
        txs == [i \in DOMAIN v.txs |->
                  IF i \in gone THEN [v.txs[i] EXCEPT !.state = "DELETED", !.height = Unconfirmed, !.own = @ \ {a}]
                  ELSE [v.txs[i] EXCEPT !.own = @ \ {a}]]
    IN [ids |-> changed, w |-> Forgotten([v EXCEPT !.txs = txs], gone)]

TotalWithout(v, a) == [actual |-> v.total.actual - v.balance[a].actual, pending |-> v.total.pending - v.balance[a].pending]

deleteAddress(a) ==
    /\ SyncStops /\ a \in w.keys \cap Deletable /\ used.changes < MaxChanges
    /\ used' = [used EXCEPT !.changes = @ + 1]
    /\ LET v1 == [w EXCEPT !.total = TotalWithout(w, a), !.balance[a] = NoBalance[a], !.jobs = {j \in @ : j[2] # a}]
           r == DeleteTransfers(v1, a)
           last == w.keys = {a}
           v2 == [r.w EXCEPT !.keys = @ \ {a}, !.blocks = IF last THEN 1 ELSE @]
       IN /\ w' = PushEvent(v2, r.ids)
          /\ sync' = IF last THEN NewSync ELSE [sync EXCEPT !.cont[a] = NoContainer]
    /\ disk' = [disk EXCEPT !.keys = @ \ {a}]
    /\ UNCHANGED <<node, phase, calls, op>>

Kept(level, txs) ==
    CASE level = "ALL" -> SelectSeq(txs, LAMBDA tx : tx.state # "DELETED")
      [] level = "KEYS_AND_TRANSACTIONS" ->
            [i \in 1..Len(SelectSeq(txs, LAMBDA tx : tx.state \notin {"CREATED", "DELETED"})) |->
                [SelectSeq(txs, LAMBDA tx : tx.state \notin {"CREATED", "DELETED"})[i]
                    EXCEPT !.state = "CANCELLED", !.height = Unconfirmed]]
      [] OTHER -> <<>>

\* saveWalletCache
SavedCache(d, v, s, level) ==
    [d EXCEPT !.level = level,
              !.sync = IF level = "ALL" THEN s ELSE NewSync,
              !.w = IF level = "ALL" THEN [v EXCEPT !.txs = Kept(level, @), !.events = {}, !.blocks = 0]
                    ELSE [NewWallet(v.keys) EXCEPT !.txs = Kept(level, v.txs)]]

\* The members after load: what the cache says of the addresses in the file.
CachedBalance(d, a) == IF a \in d.keys \cap d.w.keys THEN d.w.balance[a] ELSE NoBalance[a]
OwnSync(d) ==
    IF d.keys = {} THEN NewSync
    ELSE [d.sync EXCEPT !.cont = [a \in Addr |-> IF a \in d.keys \cap d.w.keys THEN @[a] ELSE NoContainer]]
FromCache(d) ==
    [d.w EXCEPT !.keys = d.keys, !.balance = [a \in Addr |-> CachedBalance(d, a)],
                !.total = [actual |-> FoldSet(LAMBDA a, n : n + CachedBalance(d, a).actual, 0, Addr),
                           pending |-> FoldSet(LAMBDA a, n : n + CachedBalance(d, a).pending, 0, Addr)],
                !.jobs = {j \in @ : j[2] \in d.keys}]
ClearedData(v) ==
    [NewWallet(v.keys) EXCEPT !.txs = [i \in DOMAIN v.txs |->
        [v.txs[i] EXCEPT !.state = "CANCELLED", !.height = Unconfirmed]]]
deleteOrphanTransactions(v, as) == FoldSet(LAMBDA a, u : DeleteTransfers(u, a).w, v, as)

LoadedCache(d) ==
    LET added == d.keys \ d.w.keys
        deleted == d.w.keys \ d.keys
        v1 == IF added = {} THEN FromCache(d) ELSE ClearedData(FromCache(d))
        s == IF added = {} THEN OwnSync(d) ELSE NewSync
        v2 == deleteOrphanTransactions(v1, deleted)
    IN [w |-> v2, sync |-> s, disk |-> IF added \cup deleted = {} THEN d ELSE SavedCache(d, v2, s, "ALL")]
initBlockchain(s) == s.height + 1
Loaded(d) ==
    LET r == IF d.level = "NONE" THEN [w |-> NewWallet(d.keys), sync |-> NewSync, disk |-> d] ELSE LoadedCache(d)
        pool == {t \in Tx : UnconfirmedIn(r.sync, t) # {} /\ \A p \in r.w.uncommitted : p[2] # t}
    IN [r EXCEPT !.w.blocks = initBlockchain(r.sync), !.sync.pool = pool]

LoadFrom(d) ==
    /\ w' = Loaded(d).w /\ sync' = Loaded(d).sync /\ disk' = Loaded(d).disk

\* Only what a later restart reads is saved.
save(level) ==
    /\ SyncStops /\ used.restarts < MaxRestarts
    /\ disk' = SavedCache(disk, w, sync, level)
    /\ UNCHANGED <<node, sync, phase, calls, w, op, used>>

Restart ==
    /\ used.restarts < MaxRestarts
    /\ used' = [used EXCEPT !.restarts = @ + 1]
    /\ LoadFrom(disk)
    /\ phase' = "rest" /\ calls' = <<>> /\ op' = Idle
    /\ UNCHANGED node

\* doCreateAddressList: an address to scan from earlier than the others resets the wallet.
createAddress(a, reset) ==
    /\ SyncStops /\ a \in Deletable \ w.keys /\ (reset => w.keys # {}) /\ used.changes < MaxChanges
    /\ used' = [used EXCEPT !.changes = @ + 1]
    /\ LET v == [w EXCEPT !.keys = @ \cup {a}]
           d == [disk EXCEPT !.keys = @ \cup {a}]
       IN IF reset THEN LoadFrom(SavedCache(d, v, sync, "KEYS_AND_TRANSACTIONS"))
          ELSE w' = v /\ disk' = d /\ UNCHANGED sync
    /\ UNCHANGED <<node, phase, calls, op>>

-----------------------------------------------------------------------------
Next ==
    \/ \E ts \in SUBSET Tx : NodeMines(ts)
    \/ \E t \in Tx : \/ NodePool(t) \/ NodeDrops(t)
                     \/ onPoolUpdatedAdd(t) \/ onPoolUpdatedDelete(t)
                     \/ \E send \in BOOLEAN : MakeTransaction(t, send)
    \/ \E h \in 0..MaxTip : NodeReorg(h)
    \/ onBlockchainDetach \/ onNewBlocks \/ advanceHeight
    \/ HandleCall \/ getEvent
    \/ addUnconfirmedTransaction \/ AddFails
    \/ RelayReaches \/ RelayDone \/ RelayFails
    \/ \E p \in w.uncommitted : commitTransaction(p) \/ rollbackUncommitedTransaction(p)
    \/ \E a \in Addr : deleteAddress(a) \/ \E reset \in BOOLEAN : createAddress(a, reset)
    \/ \E level \in Levels : save(level)
    \/ Restart

Spec == Init /\ [][Next]_vars

\* Bounded activity of the daemon and the user; the thread and the dispatcher run.
FairSpec ==
    /\ Spec /\ WF_vars(onBlockchainDetach) /\ WF_vars(onNewBlocks) /\ WF_vars(advanceHeight)
    /\ WF_vars(HandleCall) /\ WF_vars(addUnconfirmedTransaction) /\ WF_vars(RelayReaches) /\ WF_vars(RelayDone)

-----------------------------------------------------------------------------
Settled == op = Idle /\ phase = "rest" /\ calls = <<>>


\* Once the calls are handled and the chain is taken, the cached balances
\* are those of the containers, through saves, restarts and crashes too.
CachedFresh ==
    Settled /\ Synced => \A a \in w.keys : w.balance[a] = balance(sync, a)

\* m_blockchain has the blocks the synchronizer knows of.
BlocksMatch == Settled => w.blocks = sync.height + 1

\* A step that changes the state or height of a listed transaction leaves an
\* event of it in m_events; deleting and loading do not.
Tells(v, u) ==
    \A i \in DOMAIN v.txs \cap DOMAIN u.txs :
        \/ u.txs[i].state = v.txs[i].state /\ u.txs[i].height = v.txs[i].height
        \/ i \in u.events \/ u.txs[i].state = "DELETED"
Announced == [][used'.restarts = used.restarts /\ Cardinality(w'.keys) <= Cardinality(w.keys) => Tells(w, w')]_vars


\* In the end every transaction in a block that an address of the wallet
\* holds is listed as succeeded at its height.
Listed(t) ==
    \E i \in DOMAIN w.txs : w.txs[i].hash = t /\ w.txs[i].state = "SUCCEEDED" /\ w.txs[i].height = node.at[t]
=============================================================================
