---------------------------- MODULE WalletBackend ----------------------------
(***************************************************************************)
(* The wallet as its user has it: WalletBackend sends transactions on the  *)
(* caller's thread while the synchronizer scans, and stops the             *)
(* synchronizer to save, to reset, to change its subwallets and to change  *)
(* the daemon.  The process may end at any step and is reopened from the   *)
(* file.                                                                   *)
(***************************************************************************)
EXTENDS WalletSynchronizer

CONSTANTS
    Concurrent,      \* may a send overlap with the synchronizer
    Operations,      \* which of save, reopen, reset, import, add, delete, swap are taken
    ResetHeights,    \* scan heights given to reset and to importSubWallet
    OtherDaemons     \* top blocks of daemons the wallet may be moved to

VARIABLES
    sendAt, sending, toLock,   \* where sendTransaction stands, its transaction, inputs to lock
    file                       \* what was last saved

sendVars == <<sendAt, sending, toLock>>
vars == <<syncVars, daemonVars, sendVars, file>>

Saved(w, s, h) == [wallet |-> w, status |-> s, startHeight |-> h]

Init ==
    /\ SyncInit
    /\ sendAt = "idle" /\ sending = {} /\ toLock = {}
    /\ file = Saved(wallet, status, startHeight)

-----------------------------------------------------------------------------
(* sendTransactionAdvanced and sendFusionTransactionAdvanced, from the     *)
(* choice of inputs on.  The same transaction is never made twice: its key *)
(* is random.                                                              *)

SelectInputs ==
    \E t \in Outgoing \ relayed :
        /\ Alive /\ sendAt = "idle" /\ (Concurrent \/ Paused)
        /\ ~IsViewWallet
        /\ Ins[t] \subseteq GetSpendableInputs(wallet, daemonHeight)
        /\ sendAt' = "relay" /\ sending' = {t}
        /\ UNCHANGED <<toLock, file, syncVars, daemonVars>>

Acceptable(t) == CanBeMined(t, tip) /\ \A u \in pool : Ins[t] \cap Ins[u] = {}

\* relayTransaction: the daemon pools the transaction and says so...
Relay ==
    \E t \in sending :
        /\ sendAt = "relay" /\ Acceptable(t)
        /\ pool' = pool \cup {t} /\ relayed' = relayed \cup {t}
        /\ sendAt' = "store"
        /\ UNCHANGED <<sending, toLock, file, tip, daemonHeight, syncVars>>

\* ... or its answer is lost...
RelayUnanswered ==
    \E t \in sending :
        /\ sendAt = "relay" /\ Acceptable(t)
        /\ pool' = pool \cup {t} /\ relayed' = relayed \cup {t}
        /\ sendAt' = "idle" /\ sending' = {}
        /\ UNCHANGED <<toLock, file, tip, daemonHeight, syncVars>>

\* ... or it refuses, or is not reached.
RelayFails ==
    /\ sendAt = "relay"
    /\ sendAt' = "idle" /\ sending' = {}
    /\ UNCHANGED <<toLock, file, syncVars, daemonVars>>

Throw(why) == failure' = why /\ UNCHANGED <<wallet, sendVars>>

\* storeSentTransaction.
StoreSent ==
    \E t \in sending :
        /\ Alive /\ sendAt = "store"
        /\ IF CanAddUnconfirmed(wallet, t)
           THEN /\ wallet' = AddUnconfirmedTransaction(wallet, t, {OwnerOf[o] : o \in Ins[t]}
                                                                   \cup {OwnerOf[o] : o \in OurOuts(t)})
                /\ sendAt' = "incoming"
                /\ UNCHANGED <<sending, toLock, failure>>
           ELSE Throw("addedUnconfirmedTwice")
        /\ UNCHANGED <<status, startHeight, syncAt, blocks, scan, daemonVars, file>>

\* storeUnconfirmedIncomingInputs.
StoreIncoming ==
    \E t \in sending :
        /\ Alive /\ sendAt = "incoming"
        /\ wallet' = FoldLeft(StoreUnconfirmedIncomingInput, wallet, SetToSeq(OurOuts(t)))
        /\ sendAt' = "lock" /\ toLock' = Ins[t]
        /\ UNCHANGED <<sending, status, startHeight, syncAt, blocks, scan, failure, daemonVars, file>>

LockInput ==
    \E o \in toLock :
        /\ Alive /\ sendAt = "lock"
        /\ IF CanMarkLocked(wallet, o)
           THEN wallet' = MarkInputAsLocked(wallet, o) /\ toLock' = toLock \ {o}
                /\ UNCHANGED <<sendAt, sending, failure>>
           ELSE Throw("noKeyToLock")
        /\ UNCHANGED <<status, startHeight, syncAt, blocks, scan, daemonVars, file>>

SendReturns ==
    /\ Alive /\ sendAt = "lock" /\ toLock = {}
    /\ sendAt' = "idle" /\ sending' = {}
    /\ UNCHANGED <<toLock, file, syncVars, daemonVars>>

SendStep ==
    \/ SelectInputs \/ Relay \/ RelayUnanswered \/ RelayFails \/ StoreSent \/ StoreIncoming
    \/ LockInput \/ SendReturns

-----------------------------------------------------------------------------
(* pauseSynchronizerToRunFunction: stop, the operation, start.             *)

Restarted == syncAt' = "loop" /\ blocks' = <<>>
Pause(operation) ==
    operation \in Operations /\ Alive /\ Paused /\ sendAt = "idle"
    /\ Restarted /\ UNCHANGED <<scan, failure, sendVars>>

Save ==
    /\ Pause("save")
    /\ file' = Saved(wallet, status, startHeight)
    /\ UNCHANGED <<wallet, status, startHeight, daemonVars>>

Reset ==
    \E h \in ResetHeights :
        /\ Pause("reset")
        /\ wallet' = ResetBooks(wallet) /\ status' = NoStatus /\ startHeight' = h
        /\ file' = Saved(wallet', status', startHeight')
        /\ UNCHANGED daemonVars

\* importSubWallet and importViewSubWallet: a key that may have been paid before the height
\* that is scanned makes the scan begin again.
Import(k, h) ==
    IF status.height >= h
    THEN wallet' = ResetBooks(AddSubWallet(wallet, k)) /\ status' = NoStatus /\ startHeight' = h
    ELSE wallet' = AddSubWallet(wallet, k) /\ UNCHANGED <<status, startHeight>>

ImportSubWallet ==
    \E k \in SpendKey \ wallet.keys, h \in ResetHeights :
        Pause("import") /\ Import(k, h) /\ UNCHANGED <<file, daemonVars>>

\* addSubWallet makes a new key, which no block of the daemon or of the wallet pays yet.
CreateSubWallet ==
    \E k \in SpendKey \ wallet.keys :
        /\ Pause("add") /\ ~IsViewWallet
        /\ \A b \in {tip} \cup ToSet(status.hashes) : k \notin {OwnerOf[o] : o \in CreatedOn(b)}
        /\ wallet' = AddSubWallet(wallet, k)
        /\ UNCHANGED <<status, startHeight, file, daemonVars>>

RemoveSubWallet ==
    \E k \in wallet.keys \ {Primary} :
        /\ Pause("delete")
        /\ wallet' = DeleteSubWallet(wallet, k)
        /\ UNCHANGED <<status, startHeight, file, daemonVars>>

\* swapNode: the other daemon has a chain and a pool of its own.
SwapNode ==
    \E b \in OtherDaemons :
        /\ Pause("swap")
        /\ TxsOn(b) \cap Outgoing \subseteq relayed
        /\ tip' = b /\ pool' = {t \in relayed : CanBeMined(t, b)} /\ daemonHeight' \in {0, HeightOf[b]}
        /\ UNCHANGED <<relayed, wallet, status, startHeight, file>>

\* The process ends, by request or not, and openWallet reads the file.
Reopen ==
    /\ "reopen" \in Operations
    /\ wallet' = SavedAndLoaded(file.wallet)
    /\ status' = file.status /\ startHeight' = file.startHeight
    /\ Restarted /\ scan' = NoScan /\ failure' = "none"
    /\ sendAt' = "idle" /\ sending' = {} /\ toLock' = {}
    /\ daemonHeight' \in {0, HeightOf[tip]}
    /\ UNCHANGED <<tip, pool, relayed, file>>

Daemon == (DaemonMoves \/ DaemonForgets \/ RefreshDaemonInfo) /\ UNCHANGED <<sendVars, file>>
Scan == (Concurrent \/ sendAt = "idle") /\ SyncStep /\ UNCHANGED <<sendVars, file>>

Next ==
    \/ Daemon \/ Scan \/ SendStep
    \/ Save \/ Reset \/ ImportSubWallet \/ CreateSubWallet \/ RemoveSubWallet \/ SwapNode \/ Reopen

Spec == Init /\ [][Next]_vars

\* The threads run, the daemon answers again and again, and Nigel refreshes.
Refreshed == RefreshDaemonInfo /\ UNCHANGED <<sendVars, file>>
Downloaded == DownloadBlocks /\ UNCHANGED <<sendVars, file>>
Scanned == ScanBlock /\ UNCHANGED <<sendVars, file>>
Checked == CheckLockedTransactions /\ UNCHANGED <<sendVars, file>>
Fairness ==
    /\ WF_vars(Refreshed) /\ WF_vars(SendStep) /\ WF_vars(Scan)
    /\ SF_vars(Downloaded) /\ SF_vars(Scanned) /\ SF_vars(Checked)

FairSpec == Spec /\ Fairness

-----------------------------------------------------------------------------
(* What the wallet is for.                                                 *)

InputType == [key : Output, height : Nat, spendHeight : Nat]
TransactionType == [hash : Tx, height : Nat, transfers : SUBSET SpendKey]

\* The books, the status and the threads have their types.
TypeOK ==
    /\ wallet.keys \subseteq SpendKey /\ Primary \in wallet.keys
    /\ \A v \in {"unspent", "locked", "spent"} : ToSet(wallet[v]) \subseteq InputType
    /\ wallet.incoming \subseteq Output
    /\ wallet.txs \cup wallet.lockedTxs \subseteq TransactionType
    /\ ToSet(status.hashes) \cup ToSet(status.checkpoints) \cup ToSet(blocks) \subseteq Block
    /\ Len(status.hashes) <= LastKnownHashesSize
    /\ syncAt \in {"loop", "empty", "blocks", "outputs", "add", "store", "mark", "hash"}
    /\ sendAt \in {"idle", "relay", "store", "incoming", "lock"}
    /\ pool \subseteq relayed /\ relayed \subseteq Outgoing

BetweenBlocks == Alive /\ syncAt \in {"loop", "empty", "blocks"} /\ status.hashes # <<>>
LastScanned == Head(status.hashes)
BlocksTo(b) == {x \in ChainTo[b] : HeightOf[x] >= startHeight}
TxsTo(b) == UNION {ToSet(TxsOf[x]) : x \in BlocksTo(b)}
Ours(outputs) == {o \in outputs : OwnerOf[o] \in wallet.keys}
ReceivedTo(b) == Ours(UNION {Outs[t] : t \in TxsTo(b)})
SpentTo(b) == IF IsViewWallet THEN {} ELSE ReceivedTo(b) \cap UNION {Ins[t] : t \in TxsTo(b)}
Copies(o) == Cardinality({i \in DOMAIN wallet.unspent : wallet.unspent[i].key = o})
             + Cardinality({i \in DOMAIN wallet.locked : wallet.locked[i].key = o})
             + Cardinality({i \in DOMAIN wallet.spent : wallet.spent[i].key = o})

InputsAreOf(b) ==
    /\ \A o \in Output : Copies(o) = IF o \in ReceivedTo(b) THEN 1 ELSE 0
    /\ Keys(wallet.spent) = SpentTo(b)
TransferredBy(t, b) == {OwnerOf[o] : o \in Ours(Outs[t]) \cup (Ins[t] \cap SpentTo(b))}
TransactionsAreOf(b) ==
    wallet.txs = {x \in UNION {{Transaction(t, HeightOf[y], TransferredBy(t, b)) : t \in ToSet(TxsOf[y])}
                               : y \in BlocksTo(b)} : x.transfers # {}}

\* The block whose chain the books should be those of: the last scanned one as long as the
\* daemon has it; when it is forked off, the books may have been cut for a block that could
\* not be scanned then.
Expected == IF LastScanned \in ChainTo[tip] THEN {LastScanned} ELSE ChainTo[LastScanned]


\* Between two blocks the confirmed transactions are those of the chain that was scanned,
\* at their heights and with the transfers of the wallet's keys.
TransactionsMatchChain == BetweenBlocks => \E b \in Expected : TransactionsAreOf(b)

\* Two transactions the wallet waits for never spend the same input, whatever was
\* cancelled, lost on the way or reopened before.
PendingAreDisjoint ==
    \A t, u \in LockedHashes : t # u => Ins[t] \cap Ins[u] = {}

\* markInputAsSpent finds its input, though a sender may have locked it since the block
\* was scanned ("Shouldn't happen").
SpentInputIsFound == failure # "noKeyToRemove"

\* The wallet comes to the daemon's top block, if that is not below the height it scans from.
CaughtUp == HeightOf[tip] >= startHeight => status.hashes # <<>> /\ LastScanned = tip
CatchesUp == []<>CaughtUp
=============================================================================
