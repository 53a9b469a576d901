--------------------------- MODULE ApiDispatcher ---------------------------
(***************************************************************************)
(* The wallet API server (WalletApi/ApiDispatcher.cpp) over one wallet      *)
(* (WalletBackend).  Each connection is served by a thread of its own: the  *)
(* middleware checks the key, whether a wallet is open and whether it is a  *)
(* view wallet, then the handler runs; handlers that open, close, save or   *)
(* reset hold m_mutex, the others do not.  A handler reaches the wallet     *)
(* through the shared m_walletBackend without holding a reference, so a     *)
(* wallet closed meanwhile is used after it is gone.  Handlers under        *)
(* m_mutex are single steps, the others a call into the wallet and its end. *)
(***************************************************************************)
EXTENDS Integers, Sequences, FiniteSets, FiniteSetsExt

CONSTANTS
    Clients,        \* the connections
    Files,          \* wallet file names
    Addresses,      \* all addresses; BadAddress has the form of one but a wrong checksum
    BadAddress,
    Txs,            \* confirmed transactions of the chain: hash, height, addresses
    InitialFiles,   \* what the files may hold when the server starts
    Outgoing,       \* transactions that may be sent: hash, addresses
    Requests,       \* the requests clients make
    RangeLength,    \* 1000 in the code
    SaveMayFail     \* whether a wallet file may fail to be written

VARIABLES
    backend,        \* m_walletBackend: the open wallet, or None
    files,          \* what each wallet file holds, or None
    thread,         \* the state of each connection
    owed,           \* per file, the addresses clients were told they have
    crashed         \* a wallet was used that was not there

avars == <<backend, files, thread, owed, crashed>>

None == [none |-> TRUE]

MustBeClosed == {"openWallet", "keyImportWallet", "seedImportWallet", "importViewWallet",
                 "createWallet"}
DoesntMatter == {"validateAddress"}
ViewBanned == {"createAddress", "importAddress", "sendBasicTransaction",
               "sendAdvancedTransaction", "sendBasicFusionTransaction",
               "sendAdvancedFusionTransaction", "getSpendKeys", "getMnemonicSeed",
               "getTxPrivateKey"}
Locked == MustBeClosed \cup {"closeWallet", "saveWallet", "resetWallet", "setNodeInfo"}
Sends == {"sendBasicTransaction", "sendAdvancedTransaction", "sendBasicFusionTransaction",
          "sendAdvancedFusionTransaction"}

Reply(status, body) == [status |-> status, body |-> body]
Ok(body) == Reply(200, body)
Created(body) == Reply(201, body)
Failed == Reply(400, {})
Threw == Reply(500, {})

---------------------------------------------------------------------------
\* Wallets.

NewWallet(file, view, primary) ==
    [file |-> file, view |-> view, primary |-> primary, addrs |-> {primary}, sent |-> {},
     keys |-> {}, good |-> TRUE]

InUse == (IF backend = None THEN {} ELSE backend.addrs)
           \cup UNION {IF files[f] = None THEN {} ELSE files[f].addrs : f \in Files}

\* The transactions the wallet knows, and those of them that are not confirmed.
getTransactions(w) == {t \in Txs : t.addrs \cap w.addrs # {}}
getUnconfirmedTransactions(w) == {t \in Outgoing : t \in w.sent /\ t.addrs \cap w.addrs # {}}

\* Transactions of the blocks from .. to - 1.
getTransactionsRange(w, from, to) ==
    {t \in getTransactions(w) : from <= t.height /\ t.height < to}

Hashes(txs) == {t.hash : t \in txs}
WithAddress(txs, w, a) == {t \in txs : a \in t.addrs \cap w.addrs}

validateAddresses(a) == a # BadAddress

---------------------------------------------------------------------------
\* Opening a wallet: an outcome is a reply, the wallet to use, and the files.

Outcome(reply, w, fs) == [reply |-> reply, wallet |-> w, files |-> fs]
NotOpened == Outcome(Failed, None, files)

\* A new wallet is written at once; it is returned also when that fails.  A file of a
\* format version that is not supported gives a wallet that was never initialised.
Saved(w) ==
    {Outcome(Ok({}), w, [files EXCEPT ![w.file] = w])}
      \cup (IF SaveMayFail THEN {Outcome(Failed, w, files)} ELSE {})

checkNewWalletFilename(r) == files[r.file] = None

openWallet(r) ==
    IF files[r.file] = None \/ ~r.password THEN {NotOpened}
    ELSE {Outcome(IF files[r.file].good THEN Ok({}) ELSE Failed, files[r.file], files)}

importWalletFromKeys(r) ==
    IF ~checkNewWalletFilename(r) \/ r.address = BadAddress THEN {NotOpened}
    ELSE Saved(NewWallet(r.file, FALSE, r.address))
importWalletFromSeed(r) ==
    IF ~checkNewWalletFilename(r) \/ r.address = BadAddress THEN {NotOpened}
    ELSE Saved(NewWallet(r.file, FALSE, r.address))
importViewWallet(r) ==
    IF ~checkNewWalletFilename(r) \/ ~validateAddresses(r.address) THEN {NotOpened}
    ELSE Saved(NewWallet(r.file, TRUE, r.address))
createWallet(r) ==
    IF ~checkNewWalletFilename(r) THEN {NotOpened}
    ELSE UNION {Saved(NewWallet(r.file, FALSE, a)) : a \in Addresses \ InUse}

OpenOutcomes(r) ==
    CASE r.op = "openWallet" -> openWallet(r)
      [] r.op = "keyImportWallet" -> importWalletFromKeys(r)
      [] r.op = "seedImportWallet" -> importWalletFromSeed(r)
      [] r.op = "importViewWallet" -> importViewWallet(r)
      [] r.op = "createWallet" -> createWallet(r)

---------------------------------------------------------------------------
\* Handlers that change the wallet: the replies and wallets they may end with.

Change(reply, w) == [reply |-> reply, wallet |-> w]

\* addSubWallet refuses on a view wallet, and the empty address it returns has no keys.
createAddress(w) ==
    IF w.view THEN {Change(Threw, w)}
    ELSE {Change(Created({a}), [w EXCEPT !.addrs = @ \cup {a}]) : a \in Addresses \ InUse}

\* The transactions are forgotten if the wallet must be scanned again for the address.
Forgotten(w) == [w EXCEPT !.sent = {}, !.keys = {}]
AddressAdded(w, a) ==
    IF a \in w.addrs THEN {Change(Failed, w)}
    ELSE {Change(Created({a}), [v EXCEPT !.addrs = @ \cup {a}]) : v \in {w, Forgotten(w)}}
importAddress(w, a) ==
    IF w.view \/ a = BadAddress THEN {Change(Failed, w)} ELSE AddressAdded(w, a)
importViewAddress(w, a) ==
    IF ~w.view \/ a = BadAddress THEN {Change(Failed, w)} ELSE AddressAdded(w, a)

deleteAddress(w, a) ==
    IF ~validateAddresses(a) \/ a \notin w.addrs \/ a = w.primary THEN {Change(Failed, w)}
    ELSE {Change(Ok({}), [w EXCEPT !.addrs = @ \ {a},
                                   !.sent = {t \in @ : t.addrs \cap (w.addrs \ {a}) # {}}])}

\* The transaction is relayed and remembered until it is confirmed.
Send(w, status) ==
    IF w.view THEN {Change(Threw, w)}
    ELSE {Change(Reply(status, {t.hash}), [w EXCEPT !.sent = @ \cup {t}, !.keys = @ \cup {t.hash}]) :
            t \in {u \in Outgoing : u.addrs \cap w.addrs # {}}} \cup {Change(Failed, w)}
sendBasicTransaction(w) == Send(w, 201)
sendAdvancedTransaction(w) == Send(w, 200)
sendBasicFusionTransaction(w) == Send(w, 201)
sendAdvancedFusionTransaction(w) == Send(w, 201)

resetWallet(w) == Change(Ok({}), Forgotten(w))
setNodeInfo(w) == Change(Reply(202, {}), w)

---------------------------------------------------------------------------
\* Handlers that only read.

validateAddress(a) == IF validateAddresses(a) THEN Ok({a}) ELSE Failed
getNodeInfo(w) == Ok({})
getPrivateViewKey(w) == Ok({w.primary})
getStatus(w) == Ok({w.view})
getAddresses(w) == Ok(w.addrs)
getPrimaryAddress(w) == Ok({w.primary})
getSpendKeys(w, a) ==
    IF ~validateAddresses(a) THEN Failed
    ELSE IF w.view THEN Threw
    ELSE IF a \notin w.addrs THEN Failed ELSE Ok({a})
\* Only the primary address derives from the seed.
getMnemonicSeed(w, a) ==
    IF getSpendKeys(w, a).status # 200 THEN getSpendKeys(w, a)
    ELSE IF a = w.primary THEN Ok({a}) ELSE Failed
createIntegratedAddress(a) == IF validateAddresses(a) THEN Ok({a}) ELSE Failed
getUnconfirmed(w) == Ok(Hashes(getUnconfirmedTransactions(w)))
\* The text after "/transactions/unconfirmed" still begins with the slash.
getUnconfirmedTransactionsForAddress(w, a) ==
    Ok(Hashes(WithAddress(getUnconfirmedTransactions(w), w, <<"/", a>>)))
getTransactionsFromHeight(w, from) ==
    Ok(Hashes(getTransactionsRange(w, from, from + RangeLength)))
getTransactionsFromHeightToHeight(w, from, to) ==
    IF from >= to THEN Failed ELSE Ok(Hashes(getTransactionsRange(w, from, to)))
getTransactionsFromHeightWithAddress(w, a, from) ==
    IF ~validateAddresses(a) THEN Failed
    ELSE Ok(Hashes(WithAddress(getTransactionsRange(w, from, from + RangeLength), w, a)))
getTransactionsFromHeightToHeightWithAddress(w, a, from, to) ==
    IF ~validateAddresses(a) \/ from >= to THEN Failed
    ELSE Ok(Hashes(WithAddress(getTransactionsRange(w, from, to), w, a)))
getTransactionDetails(w, h) ==
    IF h \in Hashes(getTransactions(w)) THEN Ok({h}) ELSE Reply(404, {})
getBalance(w) == Ok(w.addrs)
getBalanceForAddress(w, a) ==
    IF ~validateAddresses(a) \/ a \notin w.addrs THEN Failed ELSE Ok({a})
getBalances(w) == Ok(w.addrs)
getTxPrivateKey(w, h) == IF h \in w.keys THEN Ok({h}) ELSE Failed

Read(w, r) ==
    CASE r.op = "validateAddress" -> validateAddress(r.address)
      [] r.op = "getNodeInfo" -> getNodeInfo(w)
      [] r.op = "getPrivateViewKey" -> getPrivateViewKey(w)
      [] r.op = "getStatus" -> getStatus(w)
      [] r.op = "getAddresses" -> getAddresses(w)
      [] r.op = "getPrimaryAddress" -> getPrimaryAddress(w)
      [] r.op = "getSpendKeys" -> getSpendKeys(w, r.address)
      [] r.op = "getMnemonicSeed" -> getMnemonicSeed(w, r.address)
      [] r.op = "createIntegratedAddress" -> createIntegratedAddress(r.address)
      [] r.op = "getTransactions" -> Ok(Hashes(getTransactions(w)))
      [] r.op = "getUnconfirmed" -> getUnconfirmed(w)
      [] r.op = "getUnconfirmedTransactionsForAddress" ->
           getUnconfirmedTransactionsForAddress(w, r.address)
      [] r.op = "getTransactionsFromHeight" -> getTransactionsFromHeight(w, r.from)
      [] r.op = "getTransactionsFromHeightToHeight" ->
           getTransactionsFromHeightToHeight(w, r.from, r.to)
      [] r.op = "getTransactionsFromHeightWithAddress" ->
           getTransactionsFromHeightWithAddress(w, r.address, r.from)
      [] r.op = "getTransactionsFromHeightToHeightWithAddress" ->
           getTransactionsFromHeightToHeightWithAddress(w, r.address, r.from, r.to)
      [] r.op = "getTransactionDetails" -> getTransactionDetails(w, r.hash)
      [] r.op = "getBalance" -> getBalance(w)
      [] r.op = "getBalanceForAddress" -> getBalanceForAddress(w, r.address)
      [] r.op = "getBalances" -> getBalances(w)
      [] r.op = "getTxPrivateKey" -> getTxPrivateKey(w, r.hash)

\* What a handler that holds no lock may end with.
Changes(w, r) ==
    CASE r.op = "createAddress" -> createAddress(w)
      [] r.op = "importAddress" -> importAddress(w, r.address)
      [] r.op = "importViewAddress" -> importViewAddress(w, r.address)
      [] r.op = "deleteAddress" -> deleteAddress(w, r.address)
      [] r.op = "sendBasicTransaction" -> sendBasicTransaction(w)
      [] r.op = "sendAdvancedTransaction" -> sendAdvancedTransaction(w)
      [] r.op = "sendBasicFusionTransaction" -> sendBasicFusionTransaction(w)
      [] r.op = "sendAdvancedFusionTransaction" -> sendAdvancedFusionTransaction(w)
      [] OTHER -> {Change(Read(w, r), w)}

---------------------------------------------------------------------------
\* Serving a request.

Idle == [at |-> "idle", req |-> None, held |-> "no", reply |-> None]

Init ==
    /\ backend = None
    /\ files \in InitialFiles
    /\ thread = [c \in Clients |-> Idle]
    /\ owed = [f \in Files |-> IF files[f] = None THEN {} ELSE files[f].addrs]
    /\ crashed = FALSE

At(c, at) == ~crashed /\ thread[c].at = at
Goto(c, at) == thread' = [thread EXCEPT ![c].at = at]
Answer(c, reply) == thread' = [thread EXCEPT ![c].at = "done", ![c].reply = reply,
                                             ![c].held = "no"]
Unserved == UNCHANGED <<backend, files, owed, crashed>>

\* The bound on addresses: requests that add one arrive while there are enough left.
Adding == MustBeClosed \cup {"createAddress", "importAddress", "importViewAddress"}
AddressLeft ==
    Cardinality({d \in Clients : thread[d].at # "idle" /\ thread[d].req.op \in Adding})
      < Cardinality(Addresses \ InUse)

\* A request arrives on a connection that has none.
Receive(c) ==
    /\ At(c, "idle")
    /\ \E r \in Requests :
         /\ r.op \in Adding \ {"openWallet"} => AddressLeft
         /\ thread' = [thread EXCEPT ![c].at = "check", ![c].req = r]
    /\ Unserved

\* checkAuthenticated, then whether a wallet is open, and of which kind.  The wallet's
\* kind is read through its pointer.
Unauthorized(c) == ~thread[c].req.key

WrongState(c) ==
    IF thread[c].req.op \in MustBeClosed THEN backend # None
    ELSE thread[c].req.op \notin DoesntMatter /\ backend = None

middleware(c) ==
    /\ At(c, "check")
    /\ IF Unauthorized(c) THEN Answer(c, Reply(401, {}))
       ELSE IF WrongState(c) THEN Answer(c, Reply(403, {}))
       ELSE Goto(c, "checked")
    /\ Unserved

viewMiddleware(c) ==
    /\ At(c, "checked")
    /\ IF backend # None /\ thread[c].req.op \in ViewBanned
       THEN IF ~backend.good
            THEN crashed' = TRUE /\ UNCHANGED thread
            ELSE UNCHANGED crashed
                   /\ IF backend.view THEN Answer(c, Failed) ELSE Goto(c, "handler")
       ELSE UNCHANGED crashed /\ Goto(c, "handler")
    /\ UNCHANGED <<backend, files, owed>>


\* The files once the last reference to wallet w is gone: an initialised one saves itself.
Destroyed(w, fs) == IF w = None \/ ~w.good THEN fs ELSE [fs EXCEPT ![w.file] = w]

\* m_walletBackend is assigned, which destroys the wallet it pointed to.
Replace(c, outcome) ==
    /\ backend' = outcome.wallet
    /\ files' = Destroyed(backend, outcome.files)
    /\ thread' = [d \in Clients |->
                    IF d = c THEN [thread[c] EXCEPT !.at = "done", !.reply = outcome.reply]
                    ELSE [thread[d] EXCEPT !.held = IF @ = "held" THEN "gone" ELSE @]]

\* The five handlers that open a wallet.
OpenHandler(c) ==
    /\ At(c, "handler") /\ thread[c].req.op \in MustBeClosed
    /\ \E outcome \in OpenOutcomes(thread[c].req) :
         /\ Replace(c, outcome)
         /\ owed' = IF outcome.reply.status = 200
                    THEN [owed EXCEPT ![outcome.wallet.file] = outcome.wallet.addrs]
                    ELSE owed
    /\ UNCHANGED crashed

closeWallet(c) ==
    /\ At(c, "handler") /\ thread[c].req.op = "closeWallet"
    /\ Replace(c, Outcome(Ok({}), None, files))
    /\ UNCHANGED <<owed, crashed>>

Usable == backend # None /\ backend.good
Crash == crashed' = TRUE /\ UNCHANGED <<backend, files, thread, owed>>

\* A save that fails is not reported.
SavedFiles(w) == {[files EXCEPT ![w.file] = w]} \cup (IF SaveMayFail THEN {files} ELSE {})

saveWallet(c) ==
    /\ At(c, "handler") /\ thread[c].req.op = "saveWallet"
    /\ IF ~Usable THEN Crash
       ELSE /\ files' \in SavedFiles(backend)
            /\ Answer(c, Ok({}))
            /\ UNCHANGED <<backend, owed, crashed>>

\* Resetting saves the wallet; swapping the node does not.
LockedHandler(c) ==
    /\ At(c, "handler") /\ thread[c].req.op \in {"resetWallet", "setNodeInfo"}
    /\ IF ~Usable THEN Crash
       ELSE LET change == IF thread[c].req.op = "resetWallet" THEN resetWallet(backend)
                          ELSE setNodeInfo(backend)
            IN  /\ backend' = change.wallet
                /\ files' \in IF thread[c].req.op = "resetWallet"
                              THEN SavedFiles(change.wallet) ELSE {files}
                /\ Answer(c, change.reply)
                /\ UNCHANGED <<owed, crashed>>

\* A handler without the lock calls into the wallet m_walletBackend points to now.
Begin(c) ==
    /\ At(c, "handler") /\ thread[c].req.op \notin Locked
    /\ IF thread[c].req.op \notin DoesntMatter /\ ~Usable
       THEN Crash
       ELSE /\ thread' = [thread EXCEPT ![c].at = "use",
                             ![c].held = IF thread[c].req.op \in DoesntMatter THEN @ ELSE "held"]
            /\ Unserved

\* What clients know of their addresses after a change.
Promised(r, change) ==
    CASE change.reply.status = 201 /\ r.op \in {"createAddress", "importAddress",
                                                "importViewAddress"} ->
           [owed EXCEPT ![backend.file] = @ \cup change.reply.body]
      [] change.reply.status = 200 /\ r.op = "deleteAddress" ->
           [owed EXCEPT ![backend.file] = @ \ {r.address}]
      [] OTHER -> owed

Finish(c) ==
    /\ At(c, "use")
    /\ IF thread[c].held = "gone" THEN Crash
       ELSE /\ \E change \in Changes(backend, thread[c].req) :
                 /\ backend' = change.wallet
                 /\ owed' = Promised(thread[c].req, change)
                 /\ Answer(c, change.reply)
            /\ UNCHANGED <<files, crashed>>

\* The client takes its answer.
Leave(c) ==
    /\ At(c, "done")
    /\ thread' = [thread EXCEPT ![c] = Idle]
    /\ Unserved

Serve(c) ==
    \/ middleware(c) \/ viewMiddleware(c) \/ OpenHandler(c) \/ closeWallet(c)
    \/ saveWallet(c) \/ LockedHandler(c) \/ Begin(c) \/ Finish(c)

Next == \E c \in Clients : Receive(c) \/ Serve(c) \/ Leave(c)

Spec == Init /\ [][Next]_avars

\* The server once a client has opened a wallet, with the threads it then has running.
Opened ==
    /\ files \in InitialFiles
    /\ \E f \in Files : files[f] # None /\ backend = files[f]
    /\ thread = [c \in Clients |-> Idle]
    /\ owed = [f \in Files |-> IF files[f] = None THEN {} ELSE files[f].addrs]
    /\ crashed = FALSE

---------------------------------------------------------------------------
\* Properties.

\* The state variables have their types.
TypeOK ==
    /\ backend # None => backend.file \in Files /\ backend.primary \in backend.addrs
    /\ \A f \in Files : files[f] = None \/ files[f].file = f
    /\ \A c \in Clients :
         /\ thread[c].at \in {"idle", "check", "checked", "handler", "use", "done"}
         /\ thread[c].held \in {"no", "held", "gone"}
    /\ owed \in [Files -> SUBSET Addresses]
    /\ crashed \in BOOLEAN

\* No handler calls into a wallet that is not open, was closed under it, or was never
\* initialised: the checks of the middleware still hold when the handler runs.
Sound == ~crashed


\* What each query is to answer, of the wallet it is asked of: the transactions, of the
\* blocks and for the address the client named.
Asked(w, r) ==
    LET Of(t) == "address" \in DOMAIN r => r.address \in t.addrs \cap w.addrs
        Within(t) == CASE "to" \in DOMAIN r -> t.height \in r.from .. (r.to - 1)
                       [] "from" \in DOMAIN r -> t.height \in r.from .. (r.from + RangeLength - 1)
                       [] OTHER -> TRUE
    IN  IF r.op \in {"getUnconfirmed", "getUnconfirmedTransactionsForAddress"}
        THEN {t.hash : t \in {u \in w.sent : Of(u) /\ u.addrs \cap w.addrs # {}}}
        ELSE {t.hash : t \in {u \in Txs : Of(u) /\ Within(u) /\ u.addrs \cap w.addrs # {}}}

Queries == {"getTransactions", "getUnconfirmed", "getUnconfirmedTransactionsForAddress",
            "getTransactionsFromHeight", "getTransactionsFromHeightToHeight",
            "getTransactionsFromHeightWithAddress",
            "getTransactionsFromHeightToHeightWithAddress"}

\* A query that succeeds answers with exactly the transactions asked for.
AnswersRight ==
    \A c \in Clients :
        At(c, "done") /\ thread[c].req.op \in Queries /\ thread[c].reply.status = 200
          => thread[c].reply.body = Asked(backend, thread[c].req)

\* Every request is answered.
RequestsAnswered ==
    \A c \in Clients : thread[c].at = "check" ~> thread[c].at = "done"
=============================================================================
