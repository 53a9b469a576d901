------------------------------- MODULE MCNode -------------------------------
(***************************************************************************)
(* Instances for TLC of the parts of a node and of those that talk to it:   *)
(* what it computes from its chain and its pool (the tables of the          *)
(* database, the answers of a segmented cache, the choice of transactions   *)
(* for a block template), the protocol handler, the peer lists, the         *)
(* peer-to-peer server, the dispatcher they run on, the wallets' connection *)
(* to a daemon and the miner.                                               *)
(***************************************************************************)
EXTENDS Integers, Sequences, FiniteSets, TLC

CONSTANTS None, b1, b2, t1, r1, r2, c1, c2, a1, a2, s1, o1

VARIABLES
    scenario,       \* the instance that the behaviour is of
    \* BlockTemplate
    pool, medianSize, block,
    \* DatabaseCache
    db, keyOutputCountsForAmounts, unitsCache,
    \* BlockchainSegments
    segments, mainSegment,
    \* ProtocolHandler
    core, ctx, net, relays, losses,
    \* PeerHeights
    heightsCtx, height, peersCount, observedHeight, blockchainHeight,
    \* PeerLists
    now, ahead, white, gray, listsNet, refused,
    \* NodeServer
    srv, left,
    \* Dispatcher
    sys, ready, calls, writes, signal,
    \* NodeRpcProxy
    node, proxy, worker, step, lock, inside, answer, req, told, proxyLeft, asserted,
    \* Miner
    top, rq, main, mine, miningWorker, mon, miner, mgr, group, blocks, miningLeft, broken,
    ended

---------------------------------------------------------------------------
\* Pools, and blocks with their outputs, payment ids and key images.

\* All pools of a few transactions with small fees and sizes.
Pooled(n) ==
    {{[id |-> i, receiveTime |-> i, fee |-> f[i].fee, size |-> f[i].size,
       mayBeMined |-> f[i].mayBeMined] : i \in 1 .. n} :
        f \in [1 .. n -> [fee : {0, 1, 4}, size : {1, 2, 4}, mayBeMined : BOOLEAN]]}

\* A transaction is named by a number; a day has ten seconds.
T(outs, pid) == [outs |-> outs, pid |-> pid]
B(prev, time, txs, images, difficulty) ==
    [prev |-> prev, time |-> time, txs |-> txs, images |-> images, difficulty |-> difficulty]

\* Two branches above b1; every day from the first has a block, and no two blocks have one time.
TableTx ==
    <<T(<<1, 2>>, None), T(<<1>>, None), T(<<2, 2>>, "p"), T(<<1>>, None), T(<<1, 3>>, "p"),
      T(<<3, 2>>, None), T(<<2>>, None), T(<<1, 2>>, "p"), T(<<2>>, "p"), T(<<1>>, None),
      T(<<3, 1>>, "p"), T(<<1, 2>>, None)>>
TableBlock ==
    "g" :> B(None, 12, <<1>>, {}, 1) @@
    "b1" :> B("g", 15, <<2, 3>>, {"k1"}, 2) @@
    "b2" :> B("b1", 21, <<4>>, {"k2"}, 3) @@
    "b3" :> B("b2", 31, <<6, 5>>, {"k3"}, 4) @@
    "b4" :> B("b3", 33, <<7>>, {}, 5) @@
    "c2" :> B("b1", 22, <<10, 5>>, {"k3"}, 2) @@
    "c3" :> B("c2", 23, <<8>>, {"k2"}, 1) @@
    "b5" :> B("b4", 41, <<11>>, {"k4"}, 1) @@
    "c4" :> B("c3", 35, <<12, 9>>, {"k4"}, 3)

\* Forks inside forks.
CacheTx ==
    <<T(<<1, 2>>, None), T(<<1>>, None), T(<<2, 2>>, "p"), T(<<1>>, "p"), T(<<1, 3>>, "p"),
      T(<<3, 2>>, None), T(<<2>>, None), T(<<1, 2>>, "q"), T(<<2, 1>>, "q"), T(<<3>>, "p")>>
CacheBlock ==
    "g" :> B(None, 1, <<1>>, {}, 1) @@
    "b1" :> B("g", 2, <<2, 3>>, {"k1"}, 1) @@
    "b2" :> B("b1", 4, <<4>>, {"k2"}, 1) @@
    "b3" :> B("b2", 5, <<6, 5>>, {"k3"}, 1) @@
    "b4" :> B("b3", 7, <<7>>, {}, 1) @@
    "c2" :> B("b1", 3, <<8, 5>>, {"k3"}, 2) @@
    "c3" :> B("c2", 6, <<9>>, {"k2"}, 2) @@
    "d3" :> B("b2", 6, <<9>>, {"k3"}, 3) @@
    "d4" :> B("d3", 7, <<10>>, {"k4"}, 1) @@
    "e1" :> B("g", 3, <<7>>, {"k1"}, 1) @@
    "e2" :> B("e1", 8, <<3>>, {}, 9)

---------------------------------------------------------------------------
\* Networks of nodes.

\* Two nodes that have forked: one is ahead on its own branch.
ForkBlocks == {"g", "x1", "x2", "y2", "y3", "y4", "z5"}
ForkPrev == [x1 |-> "g", x2 |-> "x1", y2 |-> "x1", y3 |-> "y2", y4 |-> "y3", z5 |-> "x2"]
ForkWork == [g |-> 1, x1 |-> 2, x2 |-> 3, y2 |-> 3, y3 |-> 4, y4 |-> 5, z5 |-> 4]
ForkHolds == [a |-> [known |-> {"g", "x1", "x2"}, tip |-> "x2"],
              b |-> [known |-> {"g", "x1", "y2", "y3", "y4"}, tip |-> "y4"]]

\* A new node downloads a chain from two nodes at once.
ChainBlocks == {"g", "x1", "x2", "x3"}
ChainPrev == [x1 |-> "g", x2 |-> "x1", x3 |-> "x2"]
ChainWork == [g |-> 1, x1 |-> 2, x2 |-> 3, x3 |-> 4]
ChainHolds == [n \in {"a", "b", "c"} |-> IF n = "c" THEN [known |-> {"g"}, tip |-> "g"]
                                         ELSE [known |-> ChainBlocks, tip |-> "x3"]]

\* Blocks with transactions.
LiteBlocks == {"g", "x1", "x2"}
LitePrev == [x1 |-> "g", x2 |-> "x1"]
LiteWork == [g |-> 1, x1 |-> 2, x2 |-> 3]
LiteHolds == [n \in {"a", "b"} |-> [known |-> {"g"}, tip |-> "g"]]

---------------------------------------------------------------------------
\* Contexts of the dispatcher, and what each may do.

\* Workers that wait for an event and share a lock, a thread that sets the event, and a
\* main context that stops the workers.
WorkersCan == [
    main |-> {<<"spawn", "a">>, <<"spawn", "b">>, <<"stop", "g">>, <<"interrupt", "a">>, <<"clear", "e">>,
              <<"yield", "none">>},
    a |-> {<<"wait", "e">>, <<"lock", "l">>, <<"unlock", "l">>, <<"return", "none">>},
    b |-> {<<"wait", "e">>, <<"lock", "l">>, <<"unlock", "l">>, <<"return", "none">>},
    p |-> {<<"set", "e">>, <<"sleep", "t">>, <<"return", "none">>}]

\* A connection: its handler h, the context r that reads and its writer w.
ConnCan == [
    main |-> {<<"spawn", "h">>, <<"stop", "g">>, <<"interrupt", "h">>, <<"wait", "e">>, <<"yield", "none">>},
    h |-> {<<"make", "r">>, <<"get", "r">>},
    r |-> {<<"make", "w">>, <<"read", "x">>, <<"set", "e">>, <<"return", "none">>},
    w |-> {<<"write", "x">>, <<"wait", "e">>, <<"return", "none">>},
    p |-> {<<"set", "e">>, <<"return", "none">>}]
InGroup(contexts) == [c \in contexts |-> IF c = "p" THEN "d" ELSE "g"]

----------------------------------------------------------------------------
\* The instances.

Filling == INSTANCE BlockTemplate WITH Pools <- UNION {Pooled(n) : n \in 0 .. 3}, Medians <-
    {4, 8}, MaxCumulative <- 9, Reserved <- 1, FusionTxMaxSize <- 3
Stored == INSTANCE DatabaseCache WITH Block <- TableBlock, Tx <- TableTx, Genesis <- "g",
    Day <- 10, unitsCacheSize <- 2, RestartAtGenesis <- FALSE
Segments == INSTANCE BlockchainSegments WITH Block <- CacheBlock, Tx <- CacheTx, Genesis <-
    "g", main <- mainSegment
Forked == INSTANCE ProtocolHandler WITH Node <- {"a", "b"}, Links <- {<<"a", "b">>}, Block
    <- ForkBlocks, Genesis <- "g", Prev <- ForkPrev, WorkOf <- ForkWork, Tx <- {}, TxsIn <-
    [x \in ForkBlocks |-> {}], Holds <- ForkHolds, MinedBy <- [z5 |-> "a"], SentTo <- <<>>,
    MaxIds <- 6, MaxBlocks <- 2, MaxLosses <- 1
Download == INSTANCE ProtocolHandler WITH Node <- {"a", "b", "c"}, Links <- {<<"c", "a">>,
    <<"c", "b">>}, Block <- ChainBlocks, Genesis <- "g", Prev <- ChainPrev, WorkOf <-
    ChainWork, Tx <- {}, TxsIn <- [x \in ChainBlocks |-> {}], Holds <- ChainHolds, MinedBy
    <- <<>>, SentTo <- <<>>, MaxIds <- 3, MaxBlocks <- 2, MaxLosses <- 0
Lite == INSTANCE ProtocolHandler WITH Node <- {"a", "b"}, Links <- {<<"a", "b">>}, Block <-
    LiteBlocks, Genesis <- "g", Prev <- LitePrev, WorkOf <- LiteWork, Tx <- {"t"}, TxsIn <-
    [g |-> {}, x1 |-> {"t"}, x2 |-> {}], Holds <- LiteHolds, MinedBy <- [x1 |-> "a", x2 |->
    "a"], SentTo <- [t |-> "a"], MaxIds <- 6, MaxBlocks <- 2, MaxLosses <- 0
Peers == INSTANCE PeerHeights WITH ctx <- heightsCtx, Conn <- {c1, s1, o1}, MaxHeight <- 2,
    CountLimit <- 4, Stranger <- {s1}, Self <- {o1}
Taller == INSTANCE PeerHeights WITH ctx <- heightsCtx, Conn <- {c1}, MaxHeight <- 3,
    CountLimit <- 4, Stranger <- {}, Self <- {}
Clocks == INSTANCE PeerLists WITH net <- listsNet, Node <- {"m", "n"}, Addr <- {"p", "q",
    "f"}, Forbidden <- {"f"}, Offset <- [m |-> 0, n |-> 2], SetBacks <- {}, MaxTime <- 2,
    WhiteLimit <- 1, GrayLimit <- 1, Depth <- 0
SetBack == INSTANCE PeerLists WITH net <- listsNet, Node <- {"m", "n"}, Addr <- {"p", "q"},
    Forbidden <- {}, Offset <- [m |-> 0, n |-> 2], SetBacks <- {"n"}, MaxTime <- 1,
    WhiteLimit <- 1, GrayLimit <- 1, Depth <- 0
Pinging == INSTANCE NodeServer WITH Conn <- {c1}, Address <- {a1, a2}, Exclusive <- <<>>,
    Seeds <- <<>>, Priority <- <<>>, White <- {}, Gray <- {}, Pings <- TRUE,
    connections_count <- 1, expected_white_connections <- 1, MaxWrite <- 2, MaxArrivals <-
    3, MaxRelays <- 1, MaxBlocks <- 1, MaxWoken <- 1
Dialing == INSTANCE NodeServer WITH Conn <- {c1, c2}, Address <- {a1, a2}, Exclusive <-
    <<>>, Seeds <- <<a2>>, Priority <- <<>>, White <- {}, Gray <- {a1}, Pings <- FALSE,
    connections_count <- 1, expected_white_connections <- 1, MaxWrite <- 2, MaxArrivals <-
    1, MaxRelays <- 0, MaxBlocks <- 1, MaxWoken <- 1
Priority == INSTANCE NodeServer WITH Conn <- {c1}, Address <- {a1, a2}, Exclusive <- <<>>,
    Seeds <- <<a2>>, Priority <- <<a2>>, White <- {}, Gray <- {a1}, Pings <- FALSE,
    connections_count <- 1, expected_white_connections <- 1, MaxWrite <- 2, MaxArrivals <-
    1, MaxRelays <- 0, MaxBlocks <- 1, MaxWoken <- 1
Workers == INSTANCE Dispatcher WITH Context <- {"main", "a", "b", "p"}, Main <- "main",
    Group <- {"g", "d"}, GroupOf <- InGroup({"main", "a", "b", "p"}), Event <- {"e", "l"},
    Lock <- {"l"}, Timer <- {"t"}, Conn <- {}, Can <- WorkersCan, ClosedBy <- <<>>, Inner <-
    <<>>, Remote <- {"p"}, None <- "none"
Connection == INSTANCE Dispatcher WITH Context <- {"main", "h", "r", "w", "p"}, Main <-
    "main", Group <- {"g", "d"}, GroupOf <- InGroup({"main", "h", "r", "w", "p"}), Event <-
    {"e"}, Lock <- {}, Timer <- {}, Conn <- {"x"}, Can <- ConnCan, ClosedBy <- [x |-> "r"],
    Inner <- [h |-> "r", r |-> "w"], Remote <- {"p"}, None <- "none"
Daemon == INSTANCE NodeRpcProxy WITH left <- proxyLeft, Block <- {b1, b2}, Tx <- {t1}, Req
    <- {r1, r2}, Kind <- r1 :> "replace" @@ r2 :> "lite", MaxChanges <- 1, MaxFailures <- 1,
    EarlyShutdown <- FALSE
Miners == INSTANCE Miner WITH worker <- miningWorker, left <- miningLeft, Thread <- {1, 2},
    Slot <- 1 .. 4, MaxTop <- 4, BlocksLimit <- 0, Unreachable <- TRUE, MaxFailures <- 1

\* A component that no instance of runs keeps this value in its variables.
Unused == "unused"
TemplateVars == <<pool, medianSize, block>>
TemplateUnused == pool = Unused /\ medianSize = Unused /\ block = Unused
TablesVars == <<db, keyOutputCountsForAmounts, unitsCache>>
TablesUnused == db = Unused /\ keyOutputCountsForAmounts = Unused /\ unitsCache = Unused
CacheVars == <<segments, mainSegment>>
CacheUnused == segments = Unused /\ mainSegment = Unused
CoreVars == <<TemplateVars, TablesVars, CacheVars>>
CoreUnused == TemplateUnused /\ TablesUnused /\ CacheUnused
ProtocolVars == <<core, ctx, net, relays, losses>>
ProtocolUnused == core = Unused /\ ctx = Unused /\ net = Unused /\ relays = Unused /\ losses
    = Unused
HeightsVars == <<heightsCtx, height, peersCount, observedHeight, blockchainHeight>>
HeightsUnused == heightsCtx = Unused /\ height = Unused /\ peersCount = Unused /\
    observedHeight = Unused /\ blockchainHeight = Unused
ListsVars == <<now, ahead, white, gray, listsNet, refused>>
ListsUnused == now = Unused /\ ahead = Unused /\ white = Unused /\ gray = Unused /\ listsNet
    = Unused /\ refused = Unused
ServerVars == <<srv, left>>
ServerUnused == srv = Unused /\ left = Unused
SystemVars == <<sys, ready, calls, writes, signal>>
SystemUnused == sys = Unused /\ ready = Unused /\ calls = Unused /\ writes = Unused /\
    signal = Unused
ProxyVars == <<node, proxy, worker, step, lock, inside, answer, req, told, proxyLeft,
    asserted>>
ProxyUnused == node = Unused /\ proxy = Unused /\ worker = Unused /\ step = Unused /\ lock =
    Unused /\ inside = Unused /\ answer = Unused /\ req = Unused /\ told = Unused /\
    proxyLeft = Unused /\ asserted = Unused
MiningVars == <<top, rq, main, mine, miningWorker, mon, miner, mgr, group, blocks,
    miningLeft, broken, ended>>
MiningUnused == top = Unused /\ rq = Unused /\ main = Unused /\ mine = Unused /\
    miningWorker = Unused /\ mon = Unused /\ miner = Unused /\ mgr = Unused /\ group =
    Unused /\ blocks = Unused /\ miningLeft = Unused /\ broken = Unused /\ ended = Unused

NetworkVars == <<ProtocolVars, HeightsVars, ListsVars, ServerVars, SystemVars, ProxyVars,
    MiningVars>>
NetworkUnused == ProtocolUnused /\ HeightsUnused /\ ListsUnused /\ ServerUnused /\
    SystemUnused /\ ProxyUnused /\ MiningUnused

allVars == <<scenario, CoreVars, NetworkVars>>

Init ==
    \/ scenario = "Filling" /\ Filling!Init /\ TablesUnused /\ CacheUnused /\ NetworkUnused
    \/ scenario = "Stored" /\ Stored!Init /\ TemplateUnused /\ CacheUnused /\ NetworkUnused
    \/ scenario = "Segments" /\ Segments!Init /\ TemplateUnused /\ TablesUnused /\ NetworkUnused
    \/ scenario = "Forked" /\ Forked!Init /\ HeightsUnused /\ ListsUnused /\ ServerUnused
          /\ SystemUnused /\ ProxyUnused /\ MiningUnused /\ CoreUnused
    \/ scenario = "Download" /\ Download!Init /\ HeightsUnused /\ ListsUnused /\
          ServerUnused /\ SystemUnused /\ ProxyUnused /\ MiningUnused /\ CoreUnused
    \/ scenario = "Lite" /\ Lite!Init /\ HeightsUnused /\ ListsUnused /\ ServerUnused /\
          SystemUnused /\ ProxyUnused /\ MiningUnused /\ CoreUnused
    \/ scenario = "Peers" /\ Peers!Init /\ ProtocolUnused /\ ListsUnused /\ ServerUnused /\
          SystemUnused /\ ProxyUnused /\ MiningUnused /\ CoreUnused
    \/ scenario = "Taller" /\ Taller!Init /\ ProtocolUnused /\ ListsUnused /\ ServerUnused
          /\ SystemUnused /\ ProxyUnused /\ MiningUnused /\ CoreUnused
    \/ scenario = "Clocks" /\ Clocks!Init /\ ProtocolUnused /\ HeightsUnused /\
          ServerUnused /\ SystemUnused /\ ProxyUnused /\ MiningUnused /\ CoreUnused
    \/ scenario = "SetBack" /\ SetBack!Init /\ ProtocolUnused /\ HeightsUnused /\
          ServerUnused /\ SystemUnused /\ ProxyUnused /\ MiningUnused /\ CoreUnused
    \/ scenario = "Pinging" /\ Pinging!Init /\ ProtocolUnused /\ HeightsUnused /\
          ListsUnused /\ SystemUnused /\ ProxyUnused /\ MiningUnused /\ CoreUnused
    \/ scenario = "Dialing" /\ Dialing!Init /\ ProtocolUnused /\ HeightsUnused /\
          ListsUnused /\ SystemUnused /\ ProxyUnused /\ MiningUnused /\ CoreUnused
    \/ scenario = "Priority" /\ Priority!Init /\ ProtocolUnused /\ HeightsUnused /\
          ListsUnused /\ SystemUnused /\ ProxyUnused /\ MiningUnused /\ CoreUnused
    \/ scenario = "Workers" /\ Workers!Init /\ ProtocolUnused /\ HeightsUnused /\
          ListsUnused /\ ServerUnused /\ ProxyUnused /\ MiningUnused /\ CoreUnused
    \/ scenario = "Connection" /\ Connection!Init /\ ProtocolUnused /\ HeightsUnused /\
          ListsUnused /\ ServerUnused /\ ProxyUnused /\ MiningUnused /\ CoreUnused
    \/ scenario = "Daemon" /\ Daemon!Init /\ ProtocolUnused /\ HeightsUnused /\ ListsUnused
          /\ ServerUnused /\ SystemUnused /\ MiningUnused /\ CoreUnused
    \/ scenario = "Miners" /\ Miners!Init /\ ProtocolUnused /\ HeightsUnused /\ ListsUnused
          /\ ServerUnused /\ SystemUnused /\ ProxyUnused /\ CoreUnused

FillingNext ==
    /\ scenario = "Filling" /\ Filling!Next
    /\ UNCHANGED <<scenario, TablesVars, CacheVars, NetworkVars>>
StoredNext ==
    /\ scenario = "Stored" /\ Stored!Next
    /\ UNCHANGED <<scenario, TemplateVars, CacheVars, NetworkVars>>
SegmentsNext ==
    /\ scenario = "Segments" /\ Segments!Next
    /\ UNCHANGED <<scenario, TemplateVars, TablesVars, NetworkVars>>
ForkedNext ==
    /\ scenario = "Forked" /\ Forked!Next
    /\ UNCHANGED <<scenario, CoreVars, HeightsVars, ListsVars, ServerVars, SystemVars, ProxyVars,
        MiningVars>>
DownloadNext ==
    /\ scenario = "Download" /\ Download!Next
    /\ UNCHANGED <<scenario, CoreVars, HeightsVars, ListsVars, ServerVars, SystemVars, ProxyVars,
        MiningVars>>
LiteNext ==
    /\ scenario = "Lite" /\ Lite!Next
    /\ UNCHANGED <<scenario, CoreVars, HeightsVars, ListsVars, ServerVars, SystemVars, ProxyVars,
        MiningVars>>
PeersNext ==
    /\ scenario = "Peers" /\ Peers!Next
    /\ UNCHANGED <<scenario, CoreVars, ProtocolVars, ListsVars, ServerVars, SystemVars, ProxyVars,
        MiningVars>>
TallerNext ==
    /\ scenario = "Taller" /\ Taller!Next
    /\ UNCHANGED <<scenario, CoreVars, ProtocolVars, ListsVars, ServerVars, SystemVars, ProxyVars,
        MiningVars>>
ClocksNext ==
    /\ scenario = "Clocks" /\ Clocks!Next
    /\ UNCHANGED <<scenario, CoreVars, ProtocolVars, HeightsVars, ServerVars, SystemVars, ProxyVars,
        MiningVars>>
SetBackNext ==
    /\ scenario = "SetBack" /\ SetBack!Next
    /\ UNCHANGED <<scenario, CoreVars, ProtocolVars, HeightsVars, ServerVars, SystemVars, ProxyVars,
        MiningVars>>
PingingNext ==
    /\ scenario = "Pinging" /\ Pinging!Next
    /\ UNCHANGED <<scenario, CoreVars, ProtocolVars, HeightsVars, ListsVars, SystemVars, ProxyVars,
        MiningVars>>
DialingNext ==
    /\ scenario = "Dialing" /\ Dialing!Next
    /\ UNCHANGED <<scenario, CoreVars, ProtocolVars, HeightsVars, ListsVars, SystemVars, ProxyVars,
        MiningVars>>
PriorityNext ==
    /\ scenario = "Priority" /\ Priority!Next
    /\ UNCHANGED <<scenario, CoreVars, ProtocolVars, HeightsVars, ListsVars, SystemVars, ProxyVars,
        MiningVars>>
WorkersNext ==
    /\ scenario = "Workers" /\ Workers!Next
    /\ UNCHANGED <<scenario, CoreVars, ProtocolVars, HeightsVars, ListsVars, ServerVars, ProxyVars,
        MiningVars>>
ConnectionNext ==
    /\ scenario = "Connection" /\ Connection!Next
    /\ UNCHANGED <<scenario, CoreVars, ProtocolVars, HeightsVars, ListsVars, ServerVars, ProxyVars,
        MiningVars>>
DaemonNext ==
    /\ scenario = "Daemon" /\ Daemon!Next
    /\ UNCHANGED <<scenario, CoreVars, ProtocolVars, HeightsVars, ListsVars, ServerVars, SystemVars,
        MiningVars>>
MinersNext ==
    /\ scenario = "Miners" /\ Miners!Next
    /\ UNCHANGED <<scenario, CoreVars, ProtocolVars, HeightsVars, ListsVars, ServerVars, SystemVars,
        ProxyVars>>

Next == FillingNext \/ StoredNext \/ SegmentsNext \/ ForkedNext \/ DownloadNext \/
        LiteNext \/ PeersNext \/ TallerNext \/ ClocksNext \/ SetBackNext \/ PingingNext \/ DialingNext \/ PriorityNext \/ WorkersNext \/
        ConnectionNext \/ DaemonNext \/ MinersNext

Spec == Init /\ [][Next]_allVars

----------------------------------------------------------------------------
\* Properties: what each component promises, in its own instances.

\* What fillBlockTemplate has chosen when it ends fits the block, and no transaction of the pool
\* that may be mined and was left out would still fit, but for free transactions over their limit;
\* none is in it twice.
TemplateIsMaximal ==
    scenario = "Filling" =>
        Filling!TemplateIsMaximal /\ Filling!TemplateFits /\ Filling!TemplateIsExact

\* The database's tables are those of the chain it holds: the spent key images, the payment
\* ids, the blocks by time and by day, the cached units and the outputs by amount.
TablesMatchChain ==
    scenario = "Stored" => /\ Stored!SpentMatchesChain /\ Stored!PaymentsMatchChain
                  /\ Stored!TimestampsMatchChain /\ Stored!DaysMatchChain
                  /\ Stored!UnitsMatchChain /\ Stored!OutputsMatchChain


\* A connection that is synchronizing waits for exactly one thing, and one that is not waits
\* for nothing: downloads neither hang nor talk over themselves.
OneRequest == scenario = "Download" => Download!OneRequest /\ Download!StartsClean


\* What a node keeps of its peers stays right: no peer list of a node that runs the same code
\* is refused however far apart the clocks are, as long as none is set back; no address is in
\* two lists; and m_peersCount is the number of peers but for the refused ones and itself.
PeersKnown ==
    /\ scenario = "Clocks" => Clocks!ListsAreAccepted /\ Clocks!NoFuture
    /\ scenario = "SetBack" => SetBack!ListsApart
    /\ scenario = "Peers" => Peers!PeersCounted
    /\ scenario = "Taller" => Taller!PeersCounted

\* Connections are opened, used and ended in order: no address has two outgoing connections,
\* though making one takes two waits; nothing but replies is queued to an incoming connection
\* before its handshake is answered, however long the back ping lasts and whatever is relayed
\* meanwhile, and the size of its write queue is counted right by those who push to it and the
\* writer that empties it; and once run has interrupted its contexts, no handler is left
\* waiting for its peer.
ConnectionsInOrder ==
    /\ scenario = "Dialing" => Dialing!NoneLeftReading /\ Dialing!OneOutgoing
    /\ scenario = "Priority" => Priority!NoneLeftReading
    /\ scenario = "Pinging" => Pinging!RepliesFirst /\ Pinging!QueueCounted


\* The pool the wallets' proxy knows is the daemon's at some moment when the daemon's top
\* block was the one the proxy had announced.
PoolOfTop == [][scenario = "Daemon" => Daemon!PoolOfTop]_allVars

\* Each block that mine returns is submitted once, and it is that one.
MinedSubmitted == scenario = "Miners" => Miners!MinedSubmitted
=============================================================================
