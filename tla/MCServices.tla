----------------------------- MODULE MCServices -----------------------------
(***************************************************************************)
(* Instances for TLC of the servers that hold a wallet for their clients:   *)
(* the wallet API (ApiDispatcher) and turtle-service (WalletService).       *)
(***************************************************************************)
EXTENDS Integers, Sequences, FiniteSets

CONSTANTS c1, c2, f1, f2, a1, a2, a3, bad, node, none, foreign, t1, t2, s1, s2, p1, p2

VARIABLES
    scenario,       \* the instance that the behaviour is of
    \* ApiDispatcher
    backend, files, thread, owed, crashed,
    \* WalletService
    txs, uncommitted, addresses, bc, stopped, events, deletions, index, refreshing, client,
    ready, chain, pool, made

---------------------------------------------------------------------------
\* The wallet API's files, transactions and requests.

Files == {f1, f2}
Addresses == {a1, a2, a3}
Nothing == [f \in Files |-> [none |-> TRUE]]
Wallet(view) == [file |-> f1, view |-> view, primary |-> a1, addrs |-> {a1}, sent |-> {},
                 keys |-> {}, good |-> TRUE]
OneFile == {[Nothing EXCEPT ![f1] = Wallet(view)] : view \in BOOLEAN}

Txs == {[hash |-> t1, height |-> 1, addrs |-> {a1, a2}], [hash |-> t2, height |-> 3, addrs |-> {a2}]}
Outgoing == {[hash |-> s1, addrs |-> {a1}], [hash |-> s2, addrs |-> {a2}]}

Calls(ops) == {[op |-> o, key |-> TRUE] : o \in ops}
AddressCalls(ops, addrs) == {[op |-> o, key |-> TRUE, address |-> a] : o \in ops, a \in addrs}
Opens(ops, fs, addrs) ==
    {[op |-> o, key |-> TRUE, file |-> f, address |-> a, password |-> p] :
        o \in ops, f \in fs, a \in addrs, p \in BOOLEAN}
HashCalls(ops) == {[op |-> o, key |-> TRUE, hash |-> h] : o \in ops, h \in {t1, s1}}

Reads == Calls({"getNodeInfo", "getPrivateViewKey", "getStatus", "getAddresses",
                "getPrimaryAddress", "getTransactions", "getUnconfirmed", "getBalance",
                "getBalances"})
           \cup HashCalls({"getTransactionDetails", "getTxPrivateKey"})
           \cup AddressCalls({"validateAddress", "getSpendKeys", "getMnemonicSeed",
                              "createIntegratedAddress", "getBalanceForAddress"}, {a2, bad})
Ranges ==
    {[op |-> "getTransactionsFromHeight", key |-> TRUE, from |-> h] : h \in {0, 1, 2}}
      \cup {[op |-> "getTransactionsFromHeightToHeight", key |-> TRUE, from |-> h, to |-> k] :
              h \in {1, 2}, k \in {2, 3}}
      \cup {[op |-> "getTransactionsFromHeightWithAddress", key |-> TRUE, address |-> a,
             from |-> h] : a \in {a1, bad}, h \in {0, 2}}
      \cup {[op |-> "getTransactionsFromHeightToHeightWithAddress", key |-> TRUE,
             address |-> a, from |-> 1, to |-> k] : a \in {a1, a2}, k \in {1, 4}}
Manage == Calls({"createAddress", "closeWallet", "saveWallet", "resetWallet", "setNodeInfo"})
            \cup AddressCalls({"importAddress", "importViewAddress", "deleteAddress"}, {a2, bad})
Spend == Calls({"sendBasicTransaction", "sendAdvancedTransaction", "sendBasicFusionTransaction",
                "sendAdvancedFusionTransaction"})
OpenAny == Opens({"openWallet", "importViewWallet"}, {f1, f2}, {a1})
             \cup Opens({"createWallet", "seedImportWallet", "keyImportWallet"}, {f2}, {a3, bad})

\* Every request, by one client.
EveryRequest == Reads \cup Ranges \cup Manage \cup Spend \cup OpenAny
                  \cup {[op |-> "getStatus", key |-> FALSE]}

\* Requests that leave the wallet open, by several.
SharedRequests == Calls({"createAddress", "saveWallet", "resetWallet", "getAddresses",
                         "sendBasicTransaction"})
                    \cup AddressCalls({"deleteAddress"}, {a2})
                    \cup AddressCalls({"getUnconfirmedTransactionsForAddress"}, {a1})

\* Opening and closing, by several: a wallet may be gone when a handler comes to use it.
ClosingRequests == Opens({"openWallet"}, {f1}, {a1}) \cup Calls({"closeWallet", "getAddresses"})

---------------------------------------------------------------------------
\* turtle-service's wallets and requests.

NoId == <<>>
Req(m) == [m |-> m, password |-> "secret"]
Plain(a) == [addr |-> a, pid |-> NoId]
Integrated(a, pid) == [addr |-> a, pid |-> pid]
Lower(p) == <<p, "lower">>
Upper(p) == <<p, "upper">>
Make(m, src, dests, change, pid) ==
    [m |-> m, password |-> "secret", src |-> src, dests |-> dests, change |-> change, pid |-> pid]
Hashed(m, h) == [m |-> m, password |-> "secret", hash |-> h]
BlockRange(first, count, byHash, addrs, pid) ==
    [m |-> "getTransactionHashes", password |-> "secret", first |-> first, count |-> count,
     byHash |-> byHash, filter |-> [addrs |-> addrs, pid |-> pid]]
Address(m, a) == [m |-> m, password |-> "secret", addr |-> a]
List(keys, older) ==
    [m |-> "createAddressList", password |-> "secret", keys |-> keys, older |-> older]
Key(a) == [addr |-> a, secret |-> TRUE]

\* One stored transaction that was delayed when the wallet was saved.
SavedDelayed == <<[hash |-> 1, state |-> "CREATED", height |-> -1, pid |-> NoId,
                   addrs |-> {a1, foreign}]>>

\* Delayed transactions, and addresses deleted and added around them.
DelayedRequests ==
    {Make("createDelayedTransaction", {}, <<Plain(foreign)>>, a1, NoId)}
      \cup {Hashed(m, h) : m \in {"sendDelayedTransaction", "deleteDelayedTransaction"}, h \in 1 .. 2}
      \cup {Req("getDelayedTransactionHashes")}
      \cup {Address("deleteAddress", a2), List(<<Key(a2)>>, FALSE), Req("save"),
            Make("sendTransaction", {a2}, <<Plain(foreign)>>, none, NoId),
            Make("sendFusionTransaction", {}, <<>>, a1, NoId)}

\* Delayed transactions and a reset, by two clients.
ResetRequests ==
    {Make("createDelayedTransaction", {}, <<Plain(foreign)>>, a1, NoId), Req("reset"),
     Hashed("sendDelayedTransaction", 1), Hashed("deleteDelayedTransaction", 1)}

\* Payment ids: in the request, in one destination, in two.
Destinations == {<<Plain(foreign)>>, <<Integrated(foreign, Upper(p1))>>, <<Plain(bad)>>,
    <<Integrated(foreign, Upper(p1)), Integrated(a1, Upper(p1))>>,
    <<Integrated(foreign, Upper(p1)), Plain(a1), Integrated(foreign, Upper(p2))>>}
PaymentRequests ==
    {Make("sendTransaction", src, d, change, pid) :
        src \in {{}, {a1, a2}, {foreign}}, d \in Destinations,
        change \in {none, a2, foreign, bad},
        pid \in {NoId, Lower(p1), Upper(p2)}}
      \cup {Make("sendTransaction", {}, <<>>, a1, NoId), Req("getVersion"),
            [m |-> "save", password |-> "other"]}

\* Queries over a chain of a few blocks.
QueryRequests ==
    {BlockRange(f, n, h, {}, NoId) : f \in 0 .. 3, n \in {0, 2}, h \in BOOLEAN}
      \cup {BlockRange(1, 3, FALSE, addrs, pid) : addrs \in {{}, {a2}, {bad}}, pid \in {NoId, Lower(p1)}}
      \cup {Make("sendTransaction", {a1}, <<Plain(foreign)>>, none, Lower(p1))}
      \cup {[m |-> "getUnconfirmedTransactionHashes", password |-> "secret",
             filter |-> [addrs |-> {a1}, pid |-> NoId]], Hashed("getTransaction", 1)}
      \cup {[m |-> "getBlockHashes", password |-> "secret", first |-> 1, count |-> 2]}

\* The requests about addresses.
AddressRequests ==
    {Req("getStatus"), Req("getAddresses"), Req("createAddress"), Req("getDelayedTransactionHashes"),
     List(<<Key(a2), Key(a3)>>, FALSE), List(<<Key(a2), Key(a2)>>, FALSE), List(<<Key(a2)>>, TRUE),
     Address("createTrackingAddress", a3), Address("deleteAddress", a1), Address("deleteAddress", a2),
     Address("deleteAddress", a3), Address("getSpendKeys", a2),
     Make("sendTransaction", {}, <<Plain(foreign)>>, none, NoId)}
      \cup {[m |-> "createIntegratedAddress", password |-> "secret", addr |-> a, pid |-> Lower(p1)] :
               a \in {a1, bad}}

----------------------------------------------------------------------------
\* The instances.

OneClient == INSTANCE ApiDispatcher WITH Clients <- {c1}, InitialFiles <- OneFile,
    BadAddress <- bad, Requests <- EveryRequest, RangeLength <- 2, SaveMayFail <- FALSE
TwoClients == INSTANCE ApiDispatcher WITH Clients <- {c1, c2}, InitialFiles <- OneFile,
    BadAddress <- bad, Requests <- SharedRequests, RangeLength <- 2, SaveMayFail <- FALSE
Closing == INSTANCE ApiDispatcher WITH Clients <- {c1, c2}, InitialFiles <- OneFile,
    BadAddress <- bad, Requests <- ClosingRequests, RangeLength <- 2, SaveMayFail <- FALSE
Delayed == INSTANCE WalletService WITH Clients <- {c1}, Requests <- DelayedRequests, Own <-
    {a1, a2, a3}, First <- {a1, a2}, BadAddress <- bad, NodeAddress <- node, NoAddress <-
    none, Saved <- SavedDelayed, Password <- "secret", LegacySecurity <- FALSE, MaxTx <- 2,
    MaxBlocks <- 1
Reset == INSTANCE WalletService WITH Clients <- {c1, c2}, Requests <- ResetRequests, Own <-
    {a1, a2, a3}, First <- {a1}, BadAddress <- bad, NodeAddress <- node, NoAddress <- none,
    Saved <- <<>>, Password <- "secret", LegacySecurity <- FALSE, MaxTx <- 1, MaxBlocks <- 1
Payments == INSTANCE WalletService WITH Clients <- {c1}, Requests <- PaymentRequests, Own <-
    {a1, a2, a3}, First <- {a1, a2}, BadAddress <- bad, NodeAddress <- node, NoAddress <-
    none, Saved <- <<>>, Password <- "secret", LegacySecurity <- FALSE, MaxTx <- 1,
    MaxBlocks <- 0
Queries == INSTANCE WalletService WITH Clients <- {c1}, Requests <- QueryRequests, Own <-
    {a1, a2, a3}, First <- {a1}, BadAddress <- bad, NodeAddress <- node, NoAddress <- none,
    Saved <- <<>>, Password <- "secret", LegacySecurity <- FALSE, MaxTx <- 2, MaxBlocks <- 3
Listed == INSTANCE WalletService WITH Clients <- {c1}, Requests <- AddressRequests, Own <-
    {a1, a2, a3}, First <- {a1}, BadAddress <- bad, NodeAddress <- node, NoAddress <- none,
    Saved <- <<>>, Password <- "secret", LegacySecurity <- FALSE, MaxTx <- 1, MaxBlocks <- 1

\* A component that no instance of runs keeps this value in its variables.
Unused == "unused"
ApiVars == <<backend, files, thread, owed, crashed>>
ApiUnused == backend = Unused /\ files = Unused /\ thread = Unused /\ owed = Unused /\
    crashed = Unused
ServiceVars == <<txs, uncommitted, addresses, bc, stopped, events, deletions, index,
    refreshing, client, ready, chain, pool, made>>
ServiceUnused == txs = Unused /\ uncommitted = Unused /\ addresses = Unused /\ bc = Unused
    /\ stopped = Unused /\ events = Unused /\ deletions = Unused /\ index = Unused /\
    refreshing = Unused /\ client = Unused /\ ready = Unused /\ chain = Unused /\ pool =
    Unused /\ made = Unused

allVars == <<scenario, ApiVars, ServiceVars>>

Init ==
    \/ scenario = "OneClient" /\ OneClient!Init /\ ServiceUnused
    \/ scenario = "TwoClients" /\ TwoClients!Opened /\ ServiceUnused
    \/ scenario = "Closing" /\ Closing!Init /\ ServiceUnused
    \/ scenario = "Delayed" /\ Delayed!Init /\ ApiUnused
    \/ scenario = "Reset" /\ Reset!Init /\ ApiUnused
    \/ scenario = "Payments" /\ Payments!Init /\ ApiUnused
    \/ scenario = "Queries" /\ Queries!Init /\ ApiUnused
    \/ scenario = "Listed" /\ Listed!Init /\ ApiUnused

OneClientNext ==
    /\ scenario = "OneClient" /\ OneClient!Next
    /\ UNCHANGED <<scenario, ServiceVars>>
TwoClientsNext ==
    /\ scenario = "TwoClients" /\ TwoClients!Next
    /\ UNCHANGED <<scenario, ServiceVars>>
ClosingNext ==
    /\ scenario = "Closing" /\ Closing!Next
    /\ UNCHANGED <<scenario, ServiceVars>>
DelayedNext ==
    /\ scenario = "Delayed" /\ Delayed!Next
    /\ UNCHANGED <<scenario, ApiVars>>
ResetNext ==
    /\ scenario = "Reset" /\ Reset!Next
    /\ UNCHANGED <<scenario, ApiVars>>
PaymentsNext ==
    /\ scenario = "Payments" /\ Payments!Next
    /\ UNCHANGED <<scenario, ApiVars>>
QueriesNext ==
    /\ scenario = "Queries" /\ Queries!Next
    /\ UNCHANGED <<scenario, ApiVars>>
ListedNext ==
    /\ scenario = "Listed" /\ Listed!Next
    /\ UNCHANGED <<scenario, ApiVars>>

Next == OneClientNext \/ TwoClientsNext \/ ClosingNext \/ DelayedNext \/ ResetNext \/
        PaymentsNext \/ QueriesNext \/ ListedNext

Spec == Init /\ [][Next]_allVars

----------------------------------------------------------------------------
\* Properties: what each component promises, in its own instances.



=============================================================================
