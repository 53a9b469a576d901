----------------------------- MODULE MCProgress -----------------------------
(***************************************************************************)
(* Instances for TLC of the things that must happen in the end: nodes agree *)
(* on a chain, a wallet comes to the top block, a node that is told to stop *)
(* stops.  Each instance has the fairness its component's scheduling gives. *)
(***************************************************************************)
EXTENDS Integers, Sequences, FiniteSets, TLC

CONSTANTS None, o1, o2, o3, in1, in2, out1, out2, k1, c1, a1

VARIABLES
    scenario,       \* the instance that the behaviour is of
    \* ProtocolHandler
    core, ctx, net, relays, losses,
    \* NodeServer
    srv, left,
    \* WalletBackend
    wallet, status, startHeight, syncAt, blocks, scan, tip, pool, relayed, daemonHeight,
    failure, sendAt, sending, toLock, file

\* Two nodes that have forked: one is ahead on its own branch.
ForkBlocks == {"g", "x1", "x2", "y2", "y3", "y4", "z5"}
ForkPrev == [x1 |-> "g", x2 |-> "x1", y2 |-> "x1", y3 |-> "y2", y4 |-> "y3", z5 |-> "x2"]
ForkWork == [g |-> 1, x1 |-> 2, x2 |-> 3, y2 |-> 3, y3 |-> 4, y4 |-> 5, z5 |-> 4]
ForkHolds == [a |-> [known |-> {"g", "x1", "x2"}, tip |-> "x2"],
              b |-> [known |-> {"g", "x1", "y2", "y3", "y4"}, tip |-> "y4"]]

\* A wallet's payments, and branches that take over from one another: 3, 4-5, 6-7-8 above 2.
BackendIns == (in1 :> {}) @@ (in2 :> {}) @@ (out1 :> {o1}) @@ (out2 :> {o1})
BackendOuts == (in1 :> {o1}) @@ (in2 :> {o3}) @@ (out1 :> {o2}) @@ (out2 :> {})
OneOwner == (o1 :> k1) @@ (o2 :> k1) @@ (o3 :> k1)
NotLocked == (o1 :> 0) @@ (o2 :> 0) @@ (o3 :> 0)
TreePrev == (1 :> 0) @@ (2 :> 1) @@ (3 :> 2) @@ (4 :> 2) @@ (5 :> 4) @@ (6 :> 2) @@ (7 :> 6) @@ (8 :> 7)
TreeTxs == (0 :> <<>>) @@ (1 :> <<>>) @@ (2 :> <<in1>>) @@ (3 :> <<in2>>) @@ (4 :> <<>>)
           @@ (5 :> <<in2>>) @@ (6 :> <<in2>>) @@ (7 :> <<>>) @@ (8 :> <<>>)
TreeMoves == {0, 1, 2, 3, 5, 8} \X {0, 1, 2, 3, 5, 8}

----------------------------------------------------------------------------
\* The instances.

Linked == INSTANCE ProtocolHandler WITH Node <- {"a", "b"}, Links <- {<<"a", "b">>}, Block
    <- ForkBlocks, Genesis <- "g", Prev <- ForkPrev, WorkOf <- ForkWork, Tx <- {}, TxsIn <-
    [x \in ForkBlocks |-> {}], Holds <- ForkHolds, MinedBy <- [z5 |-> "a"], SentTo <- <<>>,
    MaxIds <- 6, MaxBlocks <- 2, MaxLosses <- 0
Lossy == INSTANCE ProtocolHandler WITH Node <- {"a", "b"}, Links <- {<<"a", "b">>}, Block <-
    ForkBlocks, Genesis <- "g", Prev <- ForkPrev, WorkOf <- ForkWork, Tx <- {}, TxsIn <- [x
    \in ForkBlocks |-> {}], Holds <- ForkHolds, MinedBy <- <<>>, SentTo <- <<>>, MaxIds <-
    6, MaxBlocks <- 2, MaxLosses <- 1
Stopping == INSTANCE NodeServer WITH Conn <- {c1}, Address <- {a1}, Exclusive <- <<>>, Seeds
    <- <<>>, Priority <- <<>>, White <- {}, Gray <- {}, Pings <- FALSE, connections_count <-
    1, expected_white_connections <- 1, MaxWrite <- 2, MaxArrivals <- 2, MaxRelays <- 1,
    MaxBlocks <- 1, MaxWoken <- 2
Following == INSTANCE WalletBackend WITH Output <- {o1, o2, o3}, Tx <- {in1, in2, out1,
    out2}, Ins <- BackendIns, Outs <- BackendOuts, SpendKey <- {k1}, Primary <- k1, OwnerOf
    <- OneOwner, UnlockTime <- NotLocked, IsViewWallet <- FALSE, Genesis <- 0, Block <- 0 ..
    8, Prev <- TreePrev, TxsOf <- TreeTxs, Outgoing <- {}, Moves <- TreeMoves, StartHeight
    <- 2, BlockCount <- 1, LastKnownHashesSize <- 2, CheckpointsInterval <- 2, Obscurity <-
    2, Concurrent <- FALSE, Operations <- {}, ResetHeights <- {2}, OtherDaemons <- {}

\* A component that no instance of runs keeps this value in its variables.
Unused == "unused"
ProtocolVars == <<core, ctx, net, relays, losses>>
ProtocolUnused == core = Unused /\ ctx = Unused /\ net = Unused /\ relays = Unused /\ losses
    = Unused
ServerVars == <<srv, left>>
ServerUnused == srv = Unused /\ left = Unused
BackendVars == <<wallet, status, startHeight, syncAt, blocks, scan, tip, pool, relayed,
    daemonHeight, failure, sendAt, sending, toLock, file>>
BackendUnused == wallet = Unused /\ status = Unused /\ startHeight = Unused /\ syncAt =
    Unused /\ blocks = Unused /\ scan = Unused /\ tip = Unused /\ pool = Unused /\ relayed =
    Unused /\ daemonHeight = Unused /\ failure = Unused /\ sendAt = Unused /\ sending =
    Unused /\ toLock = Unused /\ file = Unused

allVars == <<scenario, ProtocolVars, ServerVars, BackendVars>>

Init ==
    \/ scenario = "Linked" /\ Linked!Init /\ ServerUnused /\ BackendUnused
    \/ scenario = "Lossy" /\ Lossy!Init /\ ServerUnused /\ BackendUnused
    \/ scenario = "Stopping" /\ Stopping!Init /\ ProtocolUnused /\ BackendUnused
    \/ scenario = "Following" /\ Following!Init /\ ProtocolUnused /\ ServerUnused

LinkedNext ==
    /\ scenario = "Linked" /\ Linked!Next
    /\ UNCHANGED <<scenario, ServerVars, BackendVars>>
LossyNext ==
    /\ scenario = "Lossy" /\ Lossy!Next
    /\ UNCHANGED <<scenario, ServerVars, BackendVars>>
StoppingNext ==
    /\ scenario = "Stopping" /\ Stopping!Next
    /\ UNCHANGED <<scenario, ProtocolVars, BackendVars>>
FollowingNext ==
    /\ scenario = "Following" /\ Following!Next
    /\ UNCHANGED <<scenario, ProtocolVars, ServerVars>>

Next == LinkedNext \/ LossyNext \/ StoppingNext \/ FollowingNext

\* Messages are handled, connections made and relays run in their turn.
LinkedFair ==
    /\ \A p \in Linked!Pair : WF_ProtocolVars(scenario = "Linked" /\ Linked!Serve(p))
    /\ \A l \in {<<"a", "b">>} : WF_ProtocolVars(scenario = "Linked" /\ Linked!Connect(l))
    /\ \A n \in {"a", "b"} : /\ WF_ProtocolVars(scenario = "Linked" /\ Linked!RunRelay(n))
                             /\ WF_ProtocolVars(scenario = "Linked" /\ Linked!TimedSync(n))
LossyFair ==
    /\ \A p \in Lossy!Pair : WF_ProtocolVars(scenario = "Lossy" /\ Lossy!Serve(p))
    /\ \A l \in {<<"a", "b">>} : WF_ProtocolVars(scenario = "Lossy" /\ Lossy!Connect(l))
    /\ \A n \in {"a", "b"} : /\ WF_ProtocolVars(scenario = "Lossy" /\ Lossy!RunRelay(n))
                             /\ WF_ProtocolVars(scenario = "Lossy" /\ Lossy!TimedSync(n))

\* The dispatcher runs what is queued and serves every source in its turn; timers end.
StoppingFair ==
    /\ \/ []<>(scenario = "Stopping" => srv.rq = <<>>)
       \/ []<><<scenario = "Stopping" /\ Stopping!Dequeues>>_ServerVars
    /\ SF_ServerVars(scenario = "Stopping" /\ Stopping!RunStopper)
    /\ SF_ServerVars(scenario = "Stopping" /\ Stopping!RunTimeout)
    /\ SF_ServerVars(scenario = "Stopping" /\ Stopping!IdleEnds)
    /\ SF_ServerVars(scenario = "Stopping" /\ Stopping!PingEnds(c1))
    /\ WF_ServerVars(scenario = "Stopping" /\ Stopping!GrowLate(c1))

\* The wallet's threads run and the daemon answers again and again.
FollowingFair ==
    /\ WF_BackendVars(scenario = "Following" /\ Following!Refreshed)
    /\ WF_BackendVars(scenario = "Following" /\ Following!SendStep)
    /\ WF_BackendVars(scenario = "Following" /\ Following!Scan)
    /\ SF_BackendVars(scenario = "Following" /\ Following!Downloaded)
    /\ SF_BackendVars(scenario = "Following" /\ Following!Scanned)
    /\ SF_BackendVars(scenario = "Following" /\ Following!Checked)

Spec == Init /\ [][Next]_allVars /\ LinkedFair /\ LossyFair /\ StoppingFair /\ FollowingFair

----------------------------------------------------------------------------
\* Properties: what each component promises, in its own instances.

\* Nodes that stay linked end up on chains of the same work, through forks, lost connections
\* and blocks mined meanwhile.
Agree == <>[]((scenario = "Linked" => Linked!Agreed) /\ (scenario = "Lossy" => Lossy!Agreed))

\* After sendStopSignal run returns, with every context of the node ended, even if no peer ever
\* closes its connection.
StopEnds == (scenario = "Stopping" /\ Stopping!StopAsked) ~> (scenario = "Stopping" => Stopping!Ended)

\* The wallet comes to the daemon's top block again and again, through forks.
CatchesUp == []<>(scenario = "Following" => Following!CaughtUp)
=============================================================================
