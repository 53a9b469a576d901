--------------------------- MODULE WalletService ---------------------------
(***************************************************************************)
(* The payment service (WalletService.cpp behind                            *)
(* PaymentServiceJsonRpcServer.cpp) over one wallet container.  Requests    *)
(* run as contexts of one dispatcher; each takes readyEvent, so they run    *)
(* one after another and meet, where they yield, only the refresh context   *)
(* and the container's synchronization.  refresh reads the container's      *)
(* events and keeps transactionIdIndex, from hash to id, by which delayed   *)
(* transactions are sent and deleted.  The container is modelled as far as  *)
(* the service sees it; WalletGreen.tla has the whole of it.                *)
(***************************************************************************)
EXTENDS Integers, Sequences, FiniteSets, SequencesExt

CONSTANTS
    Clients,        \* connections to the service
    Requests,       \* the requests they make
    Own,            \* addresses the wallet may hold
    First,          \* those it holds when the service starts
    BadAddress,     \* a string that is no address
    NodeAddress,    \* m_node_address: where a node fee goes, or NoAddress
    NoAddress,      \* the empty string
    Saved,          \* the transactions in the wallet file
    Password,       \* the password the service is configured with
    LegacySecurity, \* no password is asked for
    MaxTx,          \* bound: transactions made or received
    MaxBlocks       \* bound: blocks after the genesis block

VARIABLES
    txs,            \* m_transactions
    uncommitted,    \* m_uncommitedTransactions: ids
    addresses,      \* m_walletsContainer: addresses in order, with or without a spend key
    bc,             \* the size of m_blockchain
    stopped,        \* m_stopped
    events,         \* m_events: the ids of created transactions
    deletions,      \* calls of transactionDeleted that wait for the container
    index,          \* transactionIdIndex
    refreshing,     \* whether the refresh context runs
    client,         \* what each connection is doing
    ready,          \* readyEvent: the connection that took it, or None
    chain,          \* per block after the genesis block, the wallet's transactions in it
    pool,           \* transactions the daemon got and has in no block
    made            \* number of transactions that exist: their hashes are 1 .. made

wvars == <<txs, uncommitted, addresses, bc, stopped, events, deletions>>
vars == <<wvars, index, refreshing, client, ready, chain, pool, made>>

None == [none |-> TRUE]
NoId == <<>>
Unconfirmed == -1
Genesis == 0

Reply(error, value) == [error |-> error, value |-> value]
Ok(value) == Reply("ok", value)
Error(error) == Reply(error, {})

---------------------------------------------------------------------------
\* Strings.  A payment id is a pair of its value and the case it is written
\* in; an integrated address is an address with a payment id in it.

toupper(pid) == IF pid = NoId THEN NoId ELSE <<pid[1], "upper">>
Plain(a) == [addr |-> a, pid |-> NoId]
IsPlain(s) == s.addr # BadAddress /\ s.pid = NoId

validateAddresses(set) == BadAddress \notin set

\* createIntegratedAddress: the payment id goes in as it was written.
Integrated(a, pid) == [addr |-> a, pid |-> pid]

\* The payment ids of the integrated addresses among the destinations, in order.
PaymentIDs(dests) ==
    LET Decoded == SelectSeq(dests, LAMBDA s : ~IsPlain(s))
    IN  [i \in 1 .. Len(Decoded) |-> Decoded[i].pid]

\* The first error met in the list of destinations, or "ok".
DecodeError(dests, pid) ==
    LET Wrong(i) == \/ dests[i].addr = BadAddress
                    \/ dests[i].pid # NoId /\ pid # NoId /\ pid # dests[i].pid
        FirstOf(i) == Wrong(i) /\ \A j \in 1 .. i - 1 : ~Wrong(j)
    IN  IF \A i \in DOMAIN dests : ~Wrong(i) THEN "ok"
        ELSE LET i == CHOOSE i \in DOMAIN dests : FirstOf(i)
             IN  IF dests[i].addr = BadAddress THEN "BAD_ADDRESS" ELSE "CONFLICTING_PAYMENT_IDS"

AllEqual(seq) == \A i \in 1 .. Len(seq) - 1 : seq[i] = seq[i + 1]

\* The payment id of a transaction, from the request and its integrated addresses.
ResolvePaymentId(r) ==
    LET pid == toupper(r.pid)
        ids == PaymentIDs(r.dests)
    IN  IF DecodeError(r.dests, pid) # "ok" THEN Error(DecodeError(r.dests, pid))
        ELSE IF ids = <<>> THEN Ok(pid)
        ELSE IF ~AllEqual(ids) THEN Error("CONFLICTING_PAYMENT_IDS")
        ELSE Ok(ids[1])

\* Destinations of the transaction: the node's fee first.
Orders(dests) ==
    (IF NodeAddress = NoAddress THEN <<>> ELSE <<NodeAddress>>)
        \o [i \in DOMAIN dests |-> dests[i].addr]

---------------------------------------------------------------------------
\* The container.

Ids == 0 .. Len(txs) - 1
Tx(i) == txs[i + 1]
IdOf(h) == CHOOSE i \in Ids : Tx(i).hash = h
Known(h) == \E i \in Ids : Tx(i).hash = h
AddressSet == {addresses[i].addr : i \in DOMAIN addresses}
Tracking == addresses # <<>> /\ ~addresses[1].secret

WithState(i, state) == [txs EXCEPT ![i + 1].state = state]

validateChangeDestination(src, change) ==
    IF change = NoAddress
    THEN IF Cardinality(src) > 1 \/ (src = {} /\ Len(addresses) > 1)
         THEN "CHANGE_ADDRESS_REQUIRED" ELSE "ok"
    ELSE IF change \in AddressSet THEN "ok" ELSE "CHANGE_ADDRESS_NOT_FOUND"

validateTransactionParameters(r) ==
    IF Orders(r.dests) = <<>> THEN "ZERO_DESTINATION"
    ELSE IF ~(r.src \subseteq AddressSet) THEN "BAD_ADDRESS"
    ELSE validateChangeDestination(r.src, r.change)

\* Where the change goes, for parameters that passed the checks above.
getChangeDestination(r) ==
    IF r.change # NoAddress THEN r.change
    ELSE IF Len(addresses) = 1 THEN addresses[1].addr
    ELSE CHOOSE a \in r.src : TRUE

\* The addresses in the transfers of a transaction made for r.
TransferAddresses(r) ==
    (IF r.src = {} THEN AddressSet ELSE r.src) \cup ToSet(Orders(r.dests))
        \cup {getChangeDestination(r)}

insertTransaction(h, state, height, pid, addrs) ==
    /\ txs' = Append(txs, [hash |-> h, state |-> state, height |-> height,
                           pid |-> IF pid = NoId THEN NoId ELSE <<pid[1]>>, addrs |-> addrs])
    /\ events' = Append(events, Len(txs))

Locked == \E c \in Clients : client[c].at \in
              {"mixing", "adding", "relaying", "committing", "removing", "saving", "shutting"}

\* A transaction of a block is reported: a known one is confirmed, another is inserted.
transactionUpdated(t, height) ==
    IF Known(t.hash)
    THEN /\ txs' = [txs EXCEPT ![IdOf(t.hash) + 1].state = "SUCCEEDED",
                               ![IdOf(t.hash) + 1].height = height]
         /\ uncommitted' = uncommitted \ {IdOf(t.hash)}
         /\ UNCHANGED events
    ELSE /\ insertTransaction(t.hash, "SUCCEEDED", height, t.pid, t.addrs)
         /\ UNCHANGED uncommitted

\* The next block reaches the container.
onBlocksAdded ==
    /\ ~Locked /\ addresses # <<>>
    /\ bc <= Len(chain)
    /\ bc' = bc + 1
    /\ LET mine == {t \in chain[bc] : t.addrs \cap AddressSet # {}}
       IN  IF mine = {} THEN UNCHANGED <<txs, uncommitted, events>>
           ELSE transactionUpdated(CHOOSE t \in mine : TRUE, bc)
    /\ UNCHANGED <<addresses, stopped, deletions, index, refreshing, client, ready, chain, pool,
                   made>>

transactionDeleted ==
    /\ ~Locked
    /\ \E h \in deletions :
          /\ deletions' = deletions \ {h}
          /\ txs' = IF ~Known(h) THEN txs
                    ELSE [txs EXCEPT ![IdOf(h) + 1].height = Unconfirmed,
                                     ![IdOf(h) + 1].state =
                                         IF @ \in {"CREATED", "SUCCEEDED"} THEN "CANCELLED" ELSE @]
    /\ UNCHANGED <<uncommitted, addresses, bc, stopped, events, index, refreshing, client, ready,
                   chain, pool, made>>

\* A block is found: with one of the daemon's transactions, with one that pays the
\* wallet, or with none of the wallet's.
Mine ==
    /\ Len(chain) < MaxBlocks
    /\ \/ \E t \in pool : chain' = Append(chain, {t}) /\ pool' = pool \ {t} /\ UNCHANGED made
       \/ \E a \in First : /\ made < MaxTx
                            /\ chain' = Append(chain, {[hash |-> made + 1, pid |-> NoId, addrs |-> {a}]})
                            /\ made' = made + 1 /\ UNCHANGED pool
       \/ chain' = Append(chain, {}) /\ UNCHANGED <<pool, made>>
    /\ UNCHANGED <<wvars, index, refreshing, client, ready>>

---------------------------------------------------------------------------
\* The refresh context.

Emplace(h, i) == IF h \in DOMAIN index THEN index
                 ELSE [x \in DOMAIN index \cup {h} |-> IF x = h THEN i ELSE index[x]]

\* getEvent throws once the container is stopped, and that ends the context.
refresh ==
    /\ refreshing
    /\ IF stopped THEN refreshing' = FALSE /\ UNCHANGED <<events, index>>
       ELSE /\ events # <<>>
            /\ events' = Tail(events)
            /\ index' = Emplace(Tx(Head(events)).hash, Head(events))
            /\ UNCHANGED refreshing
    /\ UNCHANGED <<txs, uncommitted, addresses, bc, stopped, deletions, client, ready, chain, pool,
                   made>>

---------------------------------------------------------------------------
\* Queries of the container and the service.

Matches(t, filter) ==
    /\ filter.pid # NoId => t.pid = <<filter.pid[1]>>
    /\ filter.addrs # {} => t.addrs \cap filter.addrs # {}

\* Per block of the range its label, which is the hash before it in m_blockchain,
\* and its transactions that succeeded.
getTransactionsInBlocks(first, count) ==
    [k \in 1 .. (IF first + count < bc THEN first + count ELSE bc) - first |->
        [label |-> first + k - 2,
         ids |-> {i \in Ids : Tx(i).height = first + k - 1 /\ Tx(i).state = "SUCCEEDED"}]]

\* Blocks without transactions are left out; a block whose transactions the filter
\* takes out is not.
filterTransactions(blocks, filter) ==
    LET Filtered == [k \in DOMAIN blocks |->
            [label |-> blocks[k].label,
             hashes |-> {Tx(i).hash : i \in {j \in blocks[k].ids : Matches(Tx(j), filter)}},
             any |-> blocks[k].ids # {}]]
    IN  SelectSeq(Filtered, LAMBDA b : b.any)

\* The service's getTransactionHashes and getTransactions, by index or by block hash
\* (the hash of the block at index n is n).
getTransactionHashes(r) ==
    IF ~validateAddresses(r.filter.addrs) THEN Error("BAD_ADDRESS")
    ELSE IF r.byHash /\ r.first >= bc THEN Error("OBJECT_NOT_FOUND")
    ELSE IF r.count = 0 \/ r.first = 0 THEN Error("WRONG_PARAMETERS")
    ELSE IF r.first >= bc THEN Error("OBJECT_NOT_FOUND")
    ELSE LET found == filterTransactions(getTransactionsInBlocks(r.first, r.count), r.filter)
         IN  Ok({<<found[k].label, found[k].hashes>> : k \in DOMAIN found})

getTransaction(r) ==
    IF ~Known(r.hash) \/ Tx(IdOf(r.hash)).state = "DELETED" THEN Error("OBJECT_NOT_FOUND")
    ELSE Ok({r.hash})

getUnconfirmedTransactionHashes(r) ==
    IF ~validateAddresses(r.filter.addrs) THEN Error("BAD_ADDRESS")
    ELSE Ok({Tx(i).hash : i \in {j \in Ids : /\ Tx(j).height = Unconfirmed
                                             /\ Tx(j).state = "SUCCEEDED"
                                             /\ Matches(Tx(j), r.filter)}})

getDelayedTransactionHashes ==
    IF Tracking THEN Error("TRACKING_MODE") ELSE Ok({Tx(i).hash : i \in uncommitted})

getBlockHashes(r) ==
    Ok({n \in Genesis .. bc - 1 : r.first <= n /\ n < r.first + r.count})

getStatus == Ok({bc - 1})
getAddresses == Ok(AddressSet)
getSpendkeys(r) ==
    IF r.addr \notin AddressSet THEN Error("OBJECT_NOT_FOUND")
    ELSE Ok({addresses[i].secret : i \in {j \in DOMAIN addresses : addresses[j].addr = r.addr}})

createIntegratedAddress(r) ==
    IF ~validateAddresses({r.addr}) THEN Error("BAD_ADDRESS") ELSE Ok({Integrated(r.addr, r.pid)})

Query(r) ==
    CASE r.m = "getTransactionHashes" -> getTransactionHashes(r)
      [] r.m = "getTransaction" -> getTransaction(r)
      [] r.m = "getUnconfirmedTransactionHashes" -> getUnconfirmedTransactionHashes(r)
      [] r.m = "getDelayedTransactionHashes" -> getDelayedTransactionHashes
      [] r.m = "getBlockHashes" -> getBlockHashes(r)
      [] r.m = "getStatus" -> getStatus
      [] r.m = "getAddresses" -> getAddresses
      [] r.m = "getSpendKeys" -> getSpendkeys(r)
      [] r.m = "createIntegratedAddress" -> createIntegratedAddress(r)

Queries == {"getTransactionHashes", "getTransaction", "getUnconfirmedTransactionHashes",
            "getDelayedTransactionHashes", "getBlockHashes", "getStatus", "getAddresses",
            "getSpendKeys", "createIntegratedAddress"}

---------------------------------------------------------------------------
\* Addresses.

\* What addWallet says of an address with or without a spend key.
addWallet(list, a, secret) ==
    IF list # <<>> /\ list[1].secret # secret THEN "WRONG_PARAMETERS"
    ELSE IF \E i \in DOMAIN list : list[i].addr = a THEN "ADDRESS_ALREADY_EXISTS"
    ELSE "ok"

\* The addresses after the list is added, up to the first that cannot be.
AddedUpTo(keys) ==
    LET RECURSIVE Add(_, _)
        Add(list, rest) ==
            IF rest = <<>> THEN [list |-> list, error |-> "ok"]
            ELSE LET e == addWallet(list, rest[1].addr, rest[1].secret)
                 IN  IF e # "ok" THEN [list |-> list, error |-> e]
                     ELSE Add(Append(list, rest[1]), Tail(rest))
    IN  Add(addresses, keys)

\* A scan from the start: what SAVE_KEYS_AND_TRANSACTIONS keeps, loaded again.
Rescanned ==
    LET kept == SelectSeq(txs, LAMBDA t : t.state \notin {"CREATED", "DELETED"})
    IN  [i \in DOMAIN kept |-> [kept[i] EXCEPT !.state = "CANCELLED", !.height = Unconfirmed]]

Finish(c, reply) ==
    /\ client' = [client EXCEPT ![c] = [at |-> "idle", r |-> client[c].r, id |-> 0, reply |-> reply]]
    /\ ready' = None

\* doCreateAddressList, for keys that are well formed; older says whether the scan of
\* the new addresses begins before that of the others.
createAddressList(c, keys, older) ==
    LET added == AddedUpTo(keys)
        rescan == older /\ addresses # <<>> /\ added.error = "ok"
    IN  /\ addresses' = added.list
        /\ IF rescan
           THEN /\ txs' = Rescanned /\ uncommitted' = {} /\ events' = <<>> /\ deletions' = {}
                /\ bc' = 1
           ELSE UNCHANGED <<txs, uncommitted, events, deletions, bc>>
        /\ Finish(c, IF added.error = "ok" THEN Ok({}) ELSE Error(added.error))
        /\ UNCHANGED <<stopped, index, refreshing, chain, pool, made>>

UsedAddresses == First \cup AddressSet \cup UNION {Tx(i).addrs : i \in Ids}
                   \cup UNION {t.addrs : t \in pool}
                   \cup UNION {UNION {t.addrs : t \in chain[n]} : n \in DOMAIN chain}

createAddress(c) ==
    \E a \in Own \ UsedAddresses : createAddressList(c, <<[addr |-> a, secret |-> TRUE]>>, FALSE)

createAddressListRequest(c) ==
    LET r == client[c].r IN
    IF \E i, j \in DOMAIN r.keys : i < j /\ r.keys[i] = r.keys[j]
    THEN Finish(c, Error("DUPLICATE_KEY"))
         /\ UNCHANGED <<wvars, index, refreshing, chain, pool, made>>
    ELSE createAddressList(c, r.keys, r.older)

\* A tracking address is always added as a new one, whatever the request says.
createTrackingAddress(c) ==
    createAddressList(c, <<[addr |-> client[c].r.addr, secret |-> FALSE]>>, FALSE)

\* Transactions with no transfer left for an address of the wallet are deleted.
deleteAddress(c) ==
    LET r == client[c].r
        left == SelectSeq(addresses, LAMBDA w : w.addr # r.addr)
        rest == {left[i].addr : i \in DOMAIN left}
        gone == {i \in Ids : Tx(i).addrs \cap rest = {}}
    IN  IF r.addr \notin AddressSet
        THEN /\ Finish(c, Error("OBJECT_NOT_FOUND"))
             /\ UNCHANGED <<wvars, index, refreshing, chain, pool, made>>
        ELSE /\ addresses' = left
             /\ txs' = [n \in DOMAIN txs |-> IF n - 1 \in gone
                          THEN [txs[n] EXCEPT !.state = "DELETED", !.height = Unconfirmed] ELSE txs[n]]
             /\ uncommitted' = uncommitted \ gone
             /\ bc' = IF left = <<>> THEN 1 ELSE bc
             /\ Finish(c, Ok({}))
             /\ UNCHANGED <<stopped, events, deletions, index, refreshing, chain, pool, made>>

---------------------------------------------------------------------------
\* Requests.

Goes(c, at, id) == client' = [client EXCEPT ![c].at = at, ![c].id = id]
Waiting(c, m) == client[c].at = "wait" /\ client[c].r.m = m /\ ready = None
OnlyReplies(c, reply) ==
    Finish(c, reply) /\ UNCHANGED <<wvars, index, refreshing, chain, pool, made>>

KnownMethods == Queries \cup {"save", "export", "reset", "createAddress", "createAddressList",
    "createTrackingAddress", "deleteAddress", "sendTransaction", "createDelayedTransaction",
    "sendFusionTransaction", "sendDelayedTransaction", "deleteDelayedTransaction"}

\* The checks before a handler runs.
CheckRequest(r) ==
    IF ~LegacySecurity /\ r.password # Password THEN "INVALID_PASSWORD"
    ELSE IF r.m \notin KnownMethods THEN "METHOD_NOT_FOUND"
    ELSE "ok"

processJsonRpcRequest(c) ==
    \E r \in Requests :
        /\ client[c].at = "idle"
        /\ r.m = "createAddress" => Own \ UsedAddresses # {}
        /\ client' = [client EXCEPT ![c] =
              IF CheckRequest(r) = "ok" THEN [at |-> "wait", r |-> r, id |-> 0, reply |-> None]
              ELSE [at |-> "idle", r |-> r, id |-> 0, reply |-> Error(CheckRequest(r))]]
        /\ UNCHANGED <<wvars, index, refreshing, ready, chain, pool, made>>

AnswerQuery(c) == /\ \E m \in Queries : Waiting(c, m)
                  /\ OnlyReplies(c, Query(client[c].r))

saveWallet(c) == (Waiting(c, "save") \/ Waiting(c, "export")) /\ OnlyReplies(c, Ok({}))

AddressRequest(c) ==
    \/ Waiting(c, "createAddress") /\ createAddress(c)
    \/ Waiting(c, "createAddressList") /\ createAddressListRequest(c)
    \/ Waiting(c, "createTrackingAddress") /\ createTrackingAddress(c)
    \/ Waiting(c, "deleteAddress") /\ deleteAddress(c)

\* What is wrong with a request that makes a transaction, before inputs are chosen.
SendError(r) ==
    LET named == {r.dests[i].addr : i \in DOMAIN r.dests}
    IN  IF ResolvePaymentId(r).error # "ok" THEN ResolvePaymentId(r).error
        ELSE IF ~validateAddresses(r.src \cup named \cup {r.change}) THEN "BAD_ADDRESS"
        ELSE IF Tracking THEN "TRACKING_MODE"
        ELSE validateTransactionParameters(r)

\* A fusion transaction pays one of the wallet's own addresses.
FusionError(r) ==
    IF ~validateAddresses(r.src \cup {r.change}) THEN "BAD_ADDRESS"
    ELSE IF Tracking THEN "TRACKING_MODE"
    ELSE IF ~(r.src \subseteq AddressSet) THEN "BAD_ADDRESS"
    ELSE validateChangeDestination(r.src, r.change)

sendTransaction(c) ==
    LET r == client[c].r
        e == IF r.m = "sendFusionTransaction" THEN FusionError(r) ELSE SendError(r)
    IN  /\ \E m \in {"sendTransaction", "createDelayedTransaction", "sendFusionTransaction"} :
              Waiting(c, m)
        /\ IF e # "ok" THEN OnlyReplies(c, Error(e))
           ELSE /\ Goes(c, "mixing", 0) /\ ready' = c
                /\ UNCHANGED <<wvars, index, refreshing, chain, pool, made>>

\* Inputs and random outputs are chosen, or there are not enough of them.
prepareTransaction(c) ==
    LET r == client[c].r
        fusion == r.m = "sendFusionTransaction"
        pid == IF fusion THEN NoId ELSE ResolvePaymentId(r).value
        addrs == IF fusion THEN (IF r.src = {} THEN AddressSet ELSE r.src) \cup {getChangeDestination(r)}
                 ELSE TransferAddresses(r)
    IN  /\ client[c].at = "mixing"
        /\ \/ /\ made < MaxTx /\ addresses # <<>>
              /\ made' = made + 1
              /\ insertTransaction(made + 1, "CREATED", Unconfirmed, pid, addrs)
              /\ Goes(c, "adding", Len(txs))
              /\ UNCHANGED <<uncommitted, addresses, bc, stopped, deletions, index, refreshing,
                             ready, chain, pool>>
           \/ OnlyReplies(c, Error("WRONG_AMOUNT"))

\* The transaction is with the synchronizer; a delayed one waits there.
addUnconfirmedTransaction(c) ==
    LET id == client[c].id IN
    /\ client[c].at = "adding"
    /\ \/ /\ IF client[c].r.m = "createDelayedTransaction"
              THEN uncommitted' = uncommitted \cup {id} /\ Goes(c, "yielding", id)
              ELSE UNCHANGED uncommitted /\ Goes(c, "relaying", id)
          /\ UNCHANGED <<txs, ready>>
       \/ /\ txs' = WithState(id, "FAILED") /\ Finish(c, Error("INTERNAL_WALLET_ERROR"))
          /\ UNCHANGED uncommitted
    /\ UNCHANGED <<addresses, bc, stopped, events, deletions, index, refreshing, chain, pool, made>>

Sent(id) == [hash |-> Tx(id).hash, pid |-> Tx(id).pid, addrs |-> Tx(id).addrs]

\* The daemon takes the transaction, refuses it, or takes it and the answer is lost.
Relay(c) ==
    LET id == client[c].id IN
    /\ client[c].at = "relaying"
    /\ \/ /\ txs' = WithState(id, "SUCCEEDED") /\ pool' = pool \cup {Sent(id)}
          /\ Goes(c, "yielding", id)
          /\ UNCHANGED <<deletions, ready>>
       \/ /\ txs' = WithState(id, "FAILED") /\ pool' \in {pool, pool \cup {Sent(id)}}
          /\ deletions' = deletions \cup {Tx(id).hash}
          /\ Finish(c, Error("NETWORK"))
    /\ UNCHANGED <<uncommitted, addresses, bc, stopped, events, index, refreshing, chain, made>>


\* The scope's yield lets refresh, woken by the event, go first.
Yielded(c) ==
    /\ client[c].at = "yielding"
    /\ refreshing => client[c].id \notin ToSet(events)
    /\ OnlyReplies(c, Ok({Tx(client[c].id).hash}))

\* What is wrong with a request that names a delayed transaction.
DelayedError(r, error) ==
    IF r.hash \notin DOMAIN index THEN "OBJECT_NOT_FOUND"
    ELSE IF Tracking THEN "TRACKING_MODE"
    ELSE IF index[r.hash] >= Len(txs) THEN "INDEX_OUT_OF_RANGE"
    ELSE IF index[r.hash] \notin uncommitted \/ Tx(index[r.hash]).state # "CREATED" THEN error
    ELSE "ok"

StartDelayed(c, error, at) ==
    LET e == DelayedError(client[c].r, error) IN
    IF e # "ok" THEN OnlyReplies(c, Error(e))
    ELSE /\ Goes(c, at, index[client[c].r.hash]) /\ ready' = c
         /\ UNCHANGED <<wvars, index, refreshing, chain, pool, made>>

sendDelayedTransaction(c) ==
    Waiting(c, "sendDelayedTransaction") /\ StartDelayed(c, "TX_TRANSFER_IMPOSSIBLE", "committing")

commitTransaction(c) ==
    LET id == client[c].id IN
    /\ client[c].at = "committing"
    /\ \/ /\ txs' = WithState(id, "SUCCEEDED") /\ uncommitted' = uncommitted \ {id}
          /\ pool' = pool \cup {Sent(id)}
          /\ Finish(c, Ok({client[c].r.hash}))
       \/ /\ pool' \in {pool, pool \cup {Sent(id)}}
          /\ Finish(c, Error("NETWORK"))
          /\ UNCHANGED <<txs, uncommitted>>
    /\ UNCHANGED <<addresses, bc, stopped, events, deletions, index, refreshing, chain, made>>

deleteDelayedTransaction(c) ==
    Waiting(c, "deleteDelayedTransaction") /\ StartDelayed(c, "TX_CANCEL_IMPOSSIBLE", "removing")


rollbackUncommitedTransaction(c) ==
    LET id == client[c].id IN
    /\ client[c].at = "removing"
    /\ uncommitted' = uncommitted \ {id}
    /\ deletions' = deletions \cup {Tx(id).hash}
    /\ Finish(c, Ok({client[c].r.hash}))
    /\ UNCHANGED <<txs, addresses, bc, stopped, events, index, refreshing, chain, pool, made>>

\* reset stops the container, starts it to save the keys, stops it and loads it anew.
reset(c) ==
    /\ Waiting(c, "reset")
    /\ Goes(c, "saving", 0) /\ ready' = c
    /\ UNCHANGED <<wvars, index, refreshing, chain, pool, made>>

StopAfterSave(c) ==
    /\ client[c].at = "saving"
    /\ stopped' = TRUE
    /\ Goes(c, "shutting", 0)
    /\ UNCHANGED <<txs, uncommitted, addresses, bc, events, deletions, index, refreshing, ready,
                   chain, pool, made>>

\* Shutting down yields, so refresh, woken by stop, has run before it is over.
shutdownAndLoad(c) ==
    /\ client[c].at = "shutting" /\ ~refreshing
    /\ txs' = <<>> /\ uncommitted' = {} /\ events' = <<>> /\ deletions' = {} /\ bc' = 1
    /\ stopped' = FALSE
    /\ Finish(c, Ok({}))
    /\ UNCHANGED <<addresses, index, refreshing, chain, pool, made>>

---------------------------------------------------------------------------
loadTransactionIdIndex == [h \in {t.hash : t \in ToSet(Saved)} |->
    (CHOOSE n \in DOMAIN Saved : Saved[n].hash = h) - 1]

\* init: the wallet is loaded, the index filled, refresh started.
Init ==
    /\ txs = Saved
    /\ uncommitted = {i \in 0 .. Len(Saved) - 1 : Saved[i + 1].state = "CREATED"}
    /\ addresses = SetToSeq({[addr |-> a, secret |-> TRUE] : a \in First})
    /\ bc = 1 /\ stopped = FALSE /\ events = <<>> /\ deletions = {}
    /\ index = loadTransactionIdIndex /\ refreshing = TRUE
    /\ client = [c \in Clients |-> [at |-> "idle", r |-> None, id |-> 0, reply |-> None]]
    /\ ready = None
    /\ chain = <<>> /\ pool = {} /\ made = Len(Saved)

Step(c) == \/ AnswerQuery(c) \/ saveWallet(c) \/ AddressRequest(c) \/ sendTransaction(c)
           \/ prepareTransaction(c) \/ addUnconfirmedTransaction(c) \/ Relay(c) \/ Yielded(c)
           \/ sendDelayedTransaction(c) \/ commitTransaction(c) \/ deleteDelayedTransaction(c)
           \/ rollbackUncommitedTransaction(c) \/ reset(c) \/ StopAfterSave(c)
           \/ shutdownAndLoad(c)

Next == \/ \E c \in Clients : processJsonRpcRequest(c) \/ Step(c)
        \/ refresh \/ onBlocksAdded \/ transactionDeleted \/ Mine

Spec == Init /\ [][Next]_vars

\* The dispatcher runs what is ready; waiters of readyEvent get it in turn.
FairSpec == Spec /\ WF_vars(refresh) /\ \A c \in Clients : SF_vars(Step(c))

---------------------------------------------------------------------------
Stages == {"idle", "wait", "mixing", "adding", "relaying", "yielding", "committing", "removing",
           "saving", "shutting"}

TypeOK ==
    /\ \A i \in Ids : /\ Tx(i).hash \in 1 .. made
                      /\ Tx(i).height \in {Unconfirmed} \cup 1 .. bc - 1
    /\ uncommitted \subseteq Ids
    /\ bc \in 1 .. Len(chain) + 1
    /\ \A c \in Clients : client[c].at \in Stages
    /\ \A n \in DOMAIN events : events[n] \in Ids

\* transactionIdIndex names, for each hash in it, the transaction with that hash: ids
\* are given out by the container and written down later by refresh.
IndexRight == \A h \in DOMAIN index : index[h] \in Ids /\ Tx(index[h]).hash = h


\* Nothing reaches the daemon, and no delayed transaction is dropped, but the one the
\* request at work is about.
About(c, h) == \/ client[c].at = "relaying" /\ Tx(client[c].id).hash = h
               \/ client[c].at \in {"committing", "removing"} /\ client[c].r.hash = h

\* A transaction carries the payment id that the request and all its integrated
\* addresses name, and none if they name none.
NamedIds(r) == {p[1] : p \in ({r.pid} \cup {r.dests[i].pid : i \in DOMAIN r.dests}) \ {NoId}}
PaymentIdKept ==
    \A c \in Clients :
        client[c].at = "mixing" /\ client'[c].at = "adding" /\ client[c].r.m # "sendFusionTransaction" =>
            {p : p \in {txs'[Len(txs')].pid} \ {NoId}} = {<<p>> : p \in NamedIds(client[c].r)}

\* Asking for a range of blocks gives what asking for each of them gives.
RangesAdd ==
    \A c \in Clients :
        LET r == client[c].r IN
        /\ client[c].at = "wait" /\ r.m = "getTransactionHashes"
        /\ client'[c].at = "idle" /\ client'[c].reply.error = "ok"
        => client'[c].reply.value =
             UNION {getTransactionHashes([r EXCEPT !.first = n, !.count = 1]).value :
                        n \in {m \in r.first .. r.first + r.count - 1 : m < bc}}

\* Addresses are not listed twice, and either all or none of them can spend.
AddressesSound ==
    \A i, j \in DOMAIN addresses :
        /\ addresses[i].secret = addresses[j].secret
        /\ i # j => addresses[i].addr # addresses[j].addr

\* Every request is answered.
RequestsAnswered == \A c \in Clients : client[c].at # "idle" ~> client[c].at = "idle"
====
