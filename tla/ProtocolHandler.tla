--------------------------- MODULE ProtocolHandler ---------------------------
(***************************************************************************)
(* CryptoNoteProtocolHandler on every node of a small network, under the   *)
(* part of NodeServer that opens and closes connections, reads commands    *)
(* and relays.  What one node holds about a connection is a record, a      *)
(* handler is an operator on it, and one action handles one command, as    *)
(* the dispatcher of a node runs one context at a time.  Only the adding   *)
(* of downloaded blocks yields in the middle.                              *)
(*                                                                         *)
(* Blocks are valid; work and the choice of the tip are as in BlockTree.   *)
(* Transactions are independent of each other.                             *)
(***************************************************************************)
EXTENDS Integers, FiniteSets, SequencesExt

CONSTANTS
    Node,
    Links,               \* pairs <<a, b>>: a opens connections to b
    Block, Genesis, Prev, WorkOf,
    Tx, TxsIn,           \* TxsIn[b]: the transactions of block b
    Holds,               \* Holds[n]: the blocks that n starts with, and its tip
    MinedBy,             \* MinedBy[b]: the node that finds b, for the blocks found while we look
    SentTo,              \* SentTo[t]: the node that gets transaction t from its user
    MaxIds, MaxBlocks,   \* BLOCKS_IDS_SYNCHRONIZING_DEFAULT_COUNT, BLOCKS_SYNCHRONIZING_DEFAULT_COUNT
    MaxLosses            \* how often the network breaks a connection

Pair == Links \cup {<<l[2], l[1]>> : l \in Links}
NoBlock == <<>>


VARIABLES
    core,    \* core[n]: [known, tip, pool]
    ctx,     \* ctx[<<n, m>>]: the context of n's connection with m
    net,     \* net[<<n, m>>]: messages from n to m, in order
    relays,  \* relays[n]: what has been given to remoteSpawn and not run
    losses

vars == <<core, ctx, net, relays, losses>>

-----------------------------------------------------------------------------
(* The core: chains, sparse chains, blocks and the pool.                   *)

ChainTo[b \in Block] == IF b = Genesis THEN <<b>> ELSE Append(ChainTo[Prev[b]], b)
Height(c) == Len(ChainTo[c.tip])
MainTxs(tip) == UNION {TxsIn[b] : b \in Range(ChainTo[tip])}

buildSparseChain(c) ==
    LET chain == ChainTo[c.tip]
        index == Len(chain) - 1
        powers == SetToSortSeq({k \in 0..index : 2^k < index}, <)
    IN <<c.tip>> \o [i \in DOMAIN powers |-> chain[index - 2^powers[i] + 1]]
                 \o (IF c.tip = Genesis THEN <<>> ELSE <<Genesis>>)

\* The index of the first of the ids that is on the main chain.
findBlockchainSupplement(c, ids) ==
    LET chain == ChainTo[c.tip]
        first == ids[CHOOSE i \in DOMAIN ids :
                        ids[i] \in Range(chain) /\ \A j \in 1..(i - 1) : ids[j] \notin Range(chain)]
    IN (CHOOSE i \in DOMAIN chain : chain[i] = first) - 1

AddResultNoSwitch(c, b) ==
    CASE b \in c.known -> "exists"
      [] b \notin c.known /\ Prev[b] \notin c.known -> "orphan"
      [] OTHER -> IF Prev[b] = c.tip THEN "main" ELSE "alternative"
AddResult(c, b) ==
    LET childless == \A d \in c.known \ {Genesis} : Prev[d] # Prev[b]
    IN CASE b \in c.known -> "exists"
         [] b \notin c.known /\ Prev[b] \notin c.known -> "orphan"
         [] OTHER -> CASE Prev[b] = c.tip -> "main"
                       [] Prev[b] # c.tip /\ childless /\ WorkOf[b] > WorkOf[c.tip] -> "switched"
                       [] OTHER -> "alternative"

\* The core after addBlock.  A switch returns the transactions of the branch that is left.
addBlock(c, b) ==
    LET r == AddResult(c, b)
        tip == IF r \in {"main", "switched"} THEN b ELSE c.tip
    IN [known |-> IF r = "orphan" THEN c.known ELSE c.known \cup {b}, tip |-> tip,
        pool |-> (c.pool \cup (IF r = "switched" THEN MainTxs(c.tip) ELSE {})) \ MainTxs(tip)]

\* Core::getTransaction: a transaction of any block or of the pool.
HasTransaction(c, t) == t \in c.pool \/ \E b \in c.known : t \in TxsIn[b]
\* addTransactionToPool refuses what is in the pool or mined.
Accepted(c, txs) == txs \ (c.pool \cup MainTxs(c.tip))

-----------------------------------------------------------------------------
(* A handler works on a view v of node n: [c, core, out, relays], where c  *)
(* is the context, out what has been posted to the peer and relays what is *)
(* to be sent to others.                                                   *)

Closed == [on |-> "off", state |-> "befor_handshake", remote |-> 0, last |-> 0, needed |-> <<>>,
           requested |-> {}, pending |-> NoBlock, missed |-> {}, busy |-> FALSE, left |-> <<>>]

View(n, m) == [c |-> ctx[<<n, m>>], core |-> core[n], out |-> <<>>, relays |-> <<>>]
Post(v, msg) == [v EXCEPT !.out = Append(@, msg)]
State(v, s) == [v EXCEPT !.c.state = s]

RequestChain(v) == Post(v, [type |-> "request_chain", ids |-> buildSparseChain(v.core)])
requestMissingPoolTransactions(v) == Post(v, [type |-> "request_tx_pool", txs |-> v.core.pool])

\* externalRelayNotifyToList and externalRelayNotifyToAll: sent to the connections in ids, or
\* to all but those in ids, when the spawned procedure runs.
Relay(v, msg, list, ids) == [v EXCEPT !.relays = Append(@, [msg |-> msg, list |-> list, ids |-> ids])]

\* relayBlock picks the connections now, the one the block came from among them.  The version
\* of an accepted connection that has not shaken hands is not initialised: full tells whether
\* it happens to be low.
RelayBlock(v, n, b, height, full) ==
    LET held == {p \in Pair : p[1] = n /\ ctx[p].on \in {"accepted", "pinging", "open"}}
        whole == IF full THEN {p \in held : ctx[p].on = "accepted"} ELSE {}
        Send(w, type, ids) ==
            IF ids = {} THEN w ELSE Relay(w, [type |-> type, b |-> b, height |-> height], TRUE, ids)
    IN Send(Send(v, "new_lite_block", held \ whole), "new_block", whole)

-----------------------------------------------------------------------------
(* Synchronisation.                                                        *)

process_payload_always(v, top, height, initial) ==
    LET s == CASE top \in v.core.known -> IF initial THEN "pool_sync_required" ELSE "normal"
               [] OTHER -> "sync_required"
    IN IF v.c.state = "befor_handshake" /\ ~initial
       THEN v
       ELSE [v EXCEPT !.c.state = s, !.c.remote = height]
process_payload_sync_data(v, top, height, initial) ==
    LET s == CASE v.c.state = "synchronizing" -> "synchronizing"
               [] v.c.state # "synchronizing" /\ top \in v.core.known ->
                    IF initial THEN "pool_sync_required" ELSE "normal"
               [] OTHER -> "sync_required"
    IN IF v.c.state = "befor_handshake" /\ ~initial
       THEN v
       ELSE [v EXCEPT !.c.state = s, !.c.remote = height]

\* What connectionHandler does before it reads the next command.
LoopStart(v) ==
    CASE v.c.state = "sync_required" -> RequestChain(State(v, "synchronizing"))
      [] v.c.state = "pool_sync_required" -> requestMissingPoolTransactions(State(v, "normal"))
      [] OTHER -> v

\* The ids that are asked for next, at most MaxBlocks, and how many of the needed ones
\* they use up; with check, those that have arrived in the meantime are skipped.
Wanted(v, check) ==
    LET idx == {i \in DOMAIN v.c.needed : ~check \/ v.c.needed[i] \notin v.core.known}
        sorted == SetToSortSeq(idx, <)
        taken == SubSeq(sorted, 1, IF Len(sorted) < MaxBlocks THEN Len(sorted) ELSE MaxBlocks)
    IN [blocks |-> [i \in DOMAIN taken |-> v.c.needed[taken[i]]],
        used |-> IF Len(taken) = MaxBlocks THEN Last(taken) ELSE Len(v.c.needed)]

request_missing_objects(v, check) ==
    LET w == Wanted(v, check)
    IN CASE v.c.needed # <<>> ->
                Post([v EXCEPT !.c.needed = SubSeq(@, w.used + 1, Len(@)), !.c.requested = @ \cup Range(w.blocks)],
                     [type |-> "request_get_objects", blocks |-> w.blocks])
         [] v.c.needed = <<>> /\ v.c.last < v.c.remote - 1 -> RequestChain(v)
         [] OTHER ->
                IF v.c.last = v.c.remote - 1 /\ v.c.requested = {}
                THEN State(requestMissingPoolTransactions(v), "normal")
                ELSE v

handle_request_chain(v, ids) ==
    LET chain == ChainTo[v.core.tip]
        start == findBlockchainSupplement(v.core, ids)
        last == IF start + MaxIds < Len(chain) THEN start + MaxIds ELSE Len(chain)
    IN Post(v, [type |-> "response_chain_entry", ids |-> SubSeq(chain, start + 1, last),
                start |-> start, total |-> Len(chain)])

handle_response_chain_entry(v, msg) ==
    LET last == msg.start + Len(msg.ids) - 1
        unknown == {i \in DOMAIN msg.ids : msg.ids[i] \notin v.core.known}
        from == CHOOSE i \in unknown : \A j \in unknown : i <= j
        needed == IF unknown = {} THEN <<>> ELSE SubSeq(msg.ids, from, Len(msg.ids))
        w == [v EXCEPT !.c.remote = msg.total, !.c.last = last, !.c.needed = @ \o needed]
    IN IF msg.ids[1] \notin v.core.known
       THEN State(v, "shutdown")
       ELSE request_missing_objects(IF last > msg.total THEN State(w, "shutdown") ELSE w, FALSE)

handle_request_get_objects(v, blocks) ==
    Post(v, [type |-> "response_get_objects", blocks |-> SelectSeq(blocks, LAMBDA b : b \in v.core.known),
             height |-> Height(v.core)])

GoIdle(v) == [State(v, "idle") EXCEPT !.c.needed = <<>>, !.c.requested = {}, !.c.busy = FALSE, !.c.left = <<>>]

\* One round of processObjects, up to its yield, or what follows its last round.
ProcessObject(v) ==
    LET b == Head(v.c.left)
        r == AddResult(v.core, b)
    IN CASE v.c.left = <<>> ->
                LET w == [v EXCEPT !.c.busy = FALSE]
                IN IF w.c.state = "synchronizing" THEN request_missing_objects(w, TRUE) ELSE w
         [] v.c.left # <<>> /\ r = "orphan" -> State([v EXCEPT !.c.busy = FALSE], "shutdown")
         [] v.c.left # <<>> /\ r = "exists" -> GoIdle(v)
         [] OTHER -> [v EXCEPT !.core = addBlock(@, b), !.c.left = Tail(@)]

\* The second block of a response tells whether another peer was faster.
handle_response_get_objects(v, msg) ==
    LET w == [v EXCEPT !.c.remote = msg.height]
        bs == msg.blocks
    IN CASE v.c.last > msg.height -> State(v, "shutdown")
         [] v.c.last <= msg.height /\ Len(bs) > 1 /\ bs[1] \in v.c.requested /\ bs[2] \in v.core.known -> GoIdle(w)
         [] OTHER ->
                IF Range(bs) = v.c.requested /\ IsInjective(bs)
                THEN ProcessObject([w EXCEPT !.c.requested = {}, !.c.busy = TRUE, !.c.left = bs])
                ELSE State(w, "shutdown")

-----------------------------------------------------------------------------
(* New blocks and transactions.                                            *)

\* What follows the adding of an announced block; relayed is the state after relaying it.
Added(v, b) == [v EXCEPT !.core = addBlock(@, b)]
Announced(v, b, relayed) ==
    LET r == AddResult(v.core, b)
    IN CASE r = "main" -> relayed
         [] r = "switched" -> requestMissingPoolTransactions(relayed)
         [] r = "orphan" -> RequestChain(State(v, "synchronizing"))
         [] OTHER -> Added(v, b)

handle_notify_new_block(v, n, msg, full) ==
    LET w == [v EXCEPT !.c.remote = msg.height]
    IN IF w.c.state # "normal"
       THEN w
       ELSE Announced(w, msg.b, RelayBlock(Added(w, msg.b), n, msg.b, msg.height, full))

NoPending(v) == [v EXCEPT !.c.pending = NoBlock, !.c.missed = {}]
doPushLiteBlock(v, n, m, b, height, provided) ==
    LET lite == [type |-> "new_lite_block", b |-> b, height |-> height]
        need == {t \in TxsIn[b] \ provided : ~HasTransaction(v.core, t)}
    IN CASE v.c.pending # NoBlock /\ ~(v.c.missed \subseteq provided) -> State(NoPending(v), "shutdown")
         [] (v.c.pending = NoBlock \/ v.c.missed \subseteq provided) /\ need = {} ->
                Announced(NoPending(v), b, Relay(Added(NoPending(v), b), lite, FALSE, {<<n, m>>}))
         [] OTHER ->
                IF v.c.pending # NoBlock
                THEN State(NoPending(v), "shutdown")
                ELSE Post([v EXCEPT !.c.pending = <<lite>>, !.c.missed = need], [type |-> "missing_txs", txs |-> need])

handle_notify_new_lite_block(v, n, m, msg) ==
    LET w == [v EXCEPT !.c.remote = msg.height]
    IN IF w.c.state # "normal" THEN w ELSE doPushLiteBlock(w, n, m, msg.b, msg.height, {})

handle_notify_new_transactions(v, n, m, txs) ==
    LET new == Accepted(v.core, txs)
        w == [v EXCEPT !.core.pool = @ \cup new]
    IN CASE v.c.state # "normal" -> v
         [] v.c.state = "normal" /\ v.c.pending # NoBlock ->
                doPushLiteBlock(v, n, m, Head(v.c.pending).b, Head(v.c.pending).height, txs)
         [] OTHER -> IF new = {} THEN w ELSE Relay(w, [type |-> "new_transactions", txs |-> new], FALSE, {<<n, m>>})

handleRequestTxPool(v, txs) ==
    IF v.core.pool \subseteq txs THEN v ELSE Post(v, [type |-> "new_transactions", txs |-> v.core.pool \ txs])

\* Transactions are looked for in the blocks, not in the pool.
handle_notify_missing_txs(v, txs) ==
    IF txs \subseteq UNION {TxsIn[b] : b \in v.core.known}
    THEN Post(v, [type |-> "new_transactions", txs |-> txs])
    ELSE State(v, "shutdown")

-----------------------------------------------------------------------------
(* Commands and the connections they come through.                         *)

SyncData(n) == [top |-> core[n].tip, height |-> Height(core[n])]
Sync(type, data) == [type |-> type, top |-> data.top, height |-> data.height]

handle_timed_sync(v, n, msg) ==
    Post(process_payload_sync_data(v, msg.top, msg.height, FALSE), Sync("timed_sync_reply", SyncData(n)))

handleCommand(v, n, m, msg, full) ==
    CASE msg.type = "new_block" -> handle_notify_new_block(v, n, msg, full)
      [] msg.type = "new_lite_block" -> handle_notify_new_lite_block(v, n, m, msg)
      [] msg.type = "new_transactions" -> handle_notify_new_transactions(v, n, m, msg.txs)
      [] msg.type = "missing_txs" -> handle_notify_missing_txs(v, msg.txs)
      [] msg.type = "request_chain" -> handle_request_chain(v, msg.ids)
      [] msg.type = "response_chain_entry" -> handle_response_chain_entry(v, msg)
      [] msg.type = "request_get_objects" -> handle_request_get_objects(v, msg.blocks)
      [] msg.type = "response_get_objects" -> handle_response_get_objects(v, msg)
      [] msg.type = "request_tx_pool" -> handleRequestTxPool(v, msg.txs)
      [] msg.type = "timed_sync" -> handle_timed_sync(v, n, msg)
      [] msg.type = "timed_sync_reply" -> process_payload_sync_data(v, msg.top, msg.height, FALSE)

\* A closed connection is not in the lists of relays any more.
Forget(rs, ps) == [i \in DOMAIN rs |-> [rs[i] EXCEPT !.ids = @ \ ps]]
EOF == [type |-> "eof"]

\* The view v of connection <<n, m>> becomes the state.  A handler that asked for shutdown
\* closes the connection; of what it had not written yet a part is lost.
Apply(n, m, v, rest) ==
    LET p == <<n, m>>
        q == <<m, n>>
    IN /\ core' = [core EXCEPT ![n] = v.core]
       /\ IF v.c.state = "shutdown"
          THEN /\ ctx' = [ctx EXCEPT ![p] = Closed]
               /\ \E k \in 0..Len(v.out) :
                    net' = [net EXCEPT ![p] = IF ctx[q].on = "off" THEN <<>> ELSE @ \o SubSeq(v.out, 1, k) \o <<EOF>>,
                                       ![q] = <<>>]
               /\ relays' = [relays EXCEPT ![n] = Forget(@ \o v.relays, {p})]
          ELSE /\ ctx' = [ctx EXCEPT ![p] = v.c]
               /\ net' = [net EXCEPT ![p] = @ \o v.out, ![q] = rest]
               /\ relays' = [relays EXCEPT ![n] = @ \o v.relays]
       /\ UNCHANGED losses

\* connectionHandler reads a command, handles it and is back at the head of its loop.
HandleCommand(n, m) ==
    LET q == net[<<m, n>>]
    IN /\ ctx[<<n, m>>].on = "open" /\ ~ctx[<<n, m>>].busy
       /\ q # <<>> /\ Head(q) # EOF
       /\ \E full \in BOOLEAN : Apply(n, m, LoopStart(handleCommand(View(n, m), n, m, Head(q), full)), Tail(q))

\* processObjects gets the processor back after its yield.
ProcessObjects(n, m) ==
    /\ ctx[<<n, m>>].busy
    /\ Apply(n, m, LoopStart(ProcessObject(View(n, m))), net[<<m, n>>])

-----------------------------------------------------------------------------
(* Opening and closing.                                                    *)

\* try_to_connect_and_handshake_with_new_peer up to the answer, and acceptLoop of the other.
Connect(l) ==
    LET p == <<l[1], l[2]>>
        q == <<l[2], l[1]>>
    IN /\ ctx[p].on = "off" /\ ctx[q].on = "off" /\ net[p] = <<>> /\ net[q] = <<>>
       /\ ctx' = [ctx EXCEPT ![p].on = "shaking", ![q].on = "accepted"]
       /\ net' = [net EXCEPT ![p] = <<Sync("handshake", SyncData(l[1]))>>]
       /\ UNCHANGED <<core, relays, losses>>

\* handle_handshake up to the ping of the peer, and from there to the head of the loop.
HandleHandshake(n, m) ==
    LET q == net[<<m, n>>]
        v == View(n, m)
    IN \/ /\ v.c.on = "accepted" /\ q # <<>> /\ Head(q).type = "handshake"
          /\ Apply(n, m, process_payload_sync_data([v EXCEPT !.c.on = "pinging"], Head(q).top, Head(q).height, TRUE),
                   Tail(q))
       \/ /\ v.c.on = "pinging"
          /\ Apply(n, m, LoopStart(Post([v EXCEPT !.c.on = "open"], Sync("handshake_reply", SyncData(n)))), q)

\* handshake gets its answer; the handler of the connection runs later.
FinishHandshake(n, m) ==
    LET q == net[<<m, n>>]
        v == View(n, m)
    IN \/ /\ v.c.on = "shaking" /\ q # <<>> /\ Head(q).type = "handshake_reply"
          /\ Apply(n, m, process_payload_sync_data([v EXCEPT !.c.on = "open"], Head(q).top, Head(q).height, TRUE),
                   Tail(q))
       \/ /\ v.c.on = "open" /\ v.c.state \in {"sync_required", "pool_sync_required"}
          /\ Apply(n, m, LoopStart(v), q)

\* The other side has closed the connection: on_connection_close, erase.
Close(n, m) ==
    LET p == <<n, m>>
        q == <<m, n>>
    IN /\ ctx[p].on # "pinging" /\ ~ctx[p].busy
       /\ net[q] # <<>> /\ Head(net[q]) = EOF
       /\ ctx' = [ctx EXCEPT ![p] = Closed]
       /\ net' = [net EXCEPT ![p] = IF ctx[q].on = "off" THEN <<>> ELSE <<EOF>>, ![q] = <<>>]
       /\ relays' = [relays EXCEPT ![n] = Forget(@, {p})]
       /\ UNCHANGED <<core, losses>>

\* The network drops a connection, with all that is under way.
Break(l) ==
    LET p == <<l[1], l[2]>>
        q == <<l[2], l[1]>>
    IN /\ losses < MaxLosses
       /\ ctx[p].on # "off" /\ ctx[q].on # "off"
       /\ losses' = losses + 1
       /\ net' = [net EXCEPT ![p] = <<EOF>>, ![q] = <<EOF>>]
       /\ UNCHANGED <<core, ctx, relays>>

\* A node is killed and started again: its blocks are on disk, its pool is not.
Restart(n) ==
    LET mine == {p \in Pair : p[1] = n}
        Back(p) == <<p[2], p[1]>>
    IN /\ losses < MaxLosses
       /\ losses' = losses + 1
       /\ core' = [core EXCEPT ![n].pool = {}]
       /\ ctx' = [p \in Pair |-> IF p \in mine THEN Closed ELSE ctx[p]]
       /\ net' = [p \in Pair |->
                    CASE p \in mine -> IF ctx[Back(p)].on = "off" THEN <<>> ELSE <<EOF>>
                      [] p[2] = n -> <<>>
                      [] OTHER -> net[p]]
       /\ relays' = [relays EXCEPT ![n] = <<>>]

-----------------------------------------------------------------------------
(* What a node does by itself.                                             *)

\* relay_notify_to_all and the procedure spawned by externalRelayNotifyToList.
RunRelay(n) ==
    LET r == Head(relays[n])
        to == {p \in Pair : /\ p[1] = n /\ ctx[p].on = "open" /\ ctx[p].state \in {"normal", "synchronizing"}
                            /\ r.list <=> p \in r.ids}
    IN /\ relays[n] # <<>>
       /\ net' = [p \in Pair |-> IF p \in to THEN Append(net[p], r.msg) ELSE net[p]]
       /\ relays' = [relays EXCEPT ![n] = Tail(@)]
       /\ UNCHANGED <<core, ctx, losses>>

\* timedSyncLoop wakes up; the commands of the last round have been answered by then.
TimedSync(n) ==
    LET to == {p \in Pair : p[1] = n /\ ctx[p].on = "open" /\ ctx[p].state \in {"normal", "idle"}}
        Under(p, type) == \E i \in DOMAIN net[p] : net[p][i].type = type
    IN /\ to # {}
       /\ \A p \in to : ~Under(p, "timed_sync") /\ ~Under(<<p[2], p[1]>>, "timed_sync_reply")
       /\ net' = [p \in Pair |-> IF p \in to THEN Append(net[p], Sync("timed_sync", SyncData(n))) ELSE net[p]]
       /\ UNCHANGED <<core, ctx, relays, losses>>

\* on_submitblock: a block found on top of a block of this node, with transactions of its pool.
SubmitBlock(b) ==
    LET n == MinedBy[b]
        r == AddResult(core[n], b)
        c == addBlock(core[n], b)
        v == [c |-> Closed, core |-> c, out |-> <<>>, relays |-> <<>>]
    IN /\ b \notin core[n].known /\ Prev[b] \in core[n].known
       /\ TxsIn[b] \subseteq core[n].pool
       /\ core' = [core EXCEPT ![n] = c]
       /\ \E full \in BOOLEAN :
            relays' = [relays EXCEPT ![n] =
                        IF r = "alternative" THEN @ ELSE @ \o RelayBlock(v, n, b, Height(c), full).relays]
       /\ UNCHANGED <<ctx, net, losses>>

\* on_send_raw_tx.
SendRawTx(t) ==
    LET n == SentTo[t]
    IN /\ t \in Accepted(core[n], {t})
       /\ core' = [core EXCEPT ![n].pool = @ \cup {t}]
       /\ relays' = [relays EXCEPT ![n] =
                        Append(@, [msg |-> [type |-> "new_transactions", txs |-> {t}], list |-> FALSE, ids |-> {}])]
       /\ UNCHANGED <<ctx, net, losses>>

-----------------------------------------------------------------------------
Init ==
    /\ core = [n \in Node |-> [known |-> Holds[n].known, tip |-> Holds[n].tip, pool |-> {}]]
    /\ ctx = [p \in Pair |-> Closed]
    /\ net = [p \in Pair |-> <<>>]
    /\ relays = [n \in Node |-> <<>>]
    /\ losses = 0

Serve(p) ==
    \/ HandleCommand(p[1], p[2])
    \/ ProcessObjects(p[1], p[2])
    \/ HandleHandshake(p[1], p[2])
    \/ FinishHandshake(p[1], p[2])
    \/ Close(p[1], p[2])

Next ==
    \/ \E p \in Pair : Serve(p)
    \/ \E l \in Links : Connect(l) \/ Break(l)
    \/ \E n \in Node : RunRelay(n) \/ TimedSync(n) \/ Restart(n)
    \/ \E b \in DOMAIN MinedBy : SubmitBlock(b)
    \/ \E t \in Tx : SendRawTx(t)

Spec == Init /\ [][Next]_vars

\* The dispatcher runs every context that can run, and the timers go off again and again.
Fairness ==
    /\ \A p \in Pair : WF_vars(Serve(p))
    /\ \A l \in Links : WF_vars(Connect(l))
    /\ \A n \in Node : WF_vars(RunRelay(n)) /\ WF_vars(TimedSync(n))

FairSpec == Spec /\ Fairness

-----------------------------------------------------------------------------
MsgType == {"handshake", "handshake_reply", "timed_sync", "timed_sync_reply", "new_block", "new_lite_block",
            "new_transactions", "missing_txs", "request_chain", "response_chain_entry", "request_get_objects",
            "response_get_objects", "request_tx_pool", "eof"}

\* The shape of the state; a node has all blocks of its main chain.
TypeOK ==
    /\ core \in [Node -> [known : SUBSET Block, tip : Block, pool : SUBSET Tx]]
    /\ \A n \in Node : Range(ChainTo[core[n].tip]) \subseteq core[n].known
    /\ \A p \in Pair :
         /\ ctx[p].on \in {"off", "shaking", "accepted", "pinging", "open"}
         /\ ctx[p].state \in {"befor_handshake", "synchronizing", "idle", "normal", "sync_required",
                              "pool_sync_required"}
         /\ ctx[p].requested \subseteq Block /\ ctx[p].missed \subseteq Tx
         /\ \A i \in DOMAIN net[p] : net[p][i].type \in MsgType

\* Both ends of the connection are there and nobody has closed it.
Up(p) ==
    LET q == <<p[2], p[1]>>
    IN /\ ctx[p].on = "open" /\ ctx[q].on # "off"
       /\ \A i \in DOMAIN net[p] : net[p][i] # EOF
       /\ \A i \in DOMAIN net[q] : net[q][i] # EOF

\* The requests of p that are under way, their answers and the blocks being added.
Outstanding(p) ==
    LET q == <<p[2], p[1]>>
        Asked == {i \in DOMAIN net[p] : net[p][i].type \in {"request_chain", "request_get_objects"}}
        Answered == {i \in DOMAIN net[q] : net[q][i].type \in {"response_chain_entry", "response_get_objects"}}
    IN Cardinality(Asked) + Cardinality(Answered) + (IF ctx[p].busy THEN 1 ELSE 0)

\* A connection that is synchronizing waits for exactly one thing, so it neither hangs nor
\* talks over itself: nothing but an answer ever takes it out of that state.
OneRequest ==
    \A p \in Pair : Up(p) /\ ctx[p].state = "synchronizing" => Outstanding(p) = 1

\* A connection that is not synchronizing has no list of wanted blocks and no answer coming,
\* which start_sync asserts before it sends the first request.
StartsClean ==
    \A p \in Pair : Up(p) /\ ctx[p].state # "synchronizing" =>
        Outstanding(p) = 0 /\ ctx[p].needed = <<>> /\ ctx[p].requested = {}


\* Nodes that stay linked end up on chains of the same work, through forks, lost connections,
\* restarts and downloads from several peers at once.
Agreed == \A p \in Pair : WorkOf[core[p[1]].tip] = WorkOf[core[p[2]].tip]
Agree == <>[]Agreed
=============================================================================
