------------------------------- MODULE Miner -------------------------------
(***************************************************************************)
(* The miner: an event loop, the contexts that mine and that watch the     *)
(* daemon's chain, all of one dispatcher, and the worker threads of Miner. *)
(* The dispatcher runs the contexts in the order they became ready and     *)
(* looks at timers and threads when none is; the head of rq is running.    *)
(* A request to the daemon blocks the dispatcher, not the workers.         *)
(***************************************************************************)
EXTENDS Naturals, Sequences, FiniteSets, FiniteSetsExt, SequencesExt

CONSTANTS
    Thread,       \* config.threadCount worker threads
    Slot,         \* bound: contexts of a kind alive at once
    MaxTop,       \* bound: the daemon's top block
    BlocksLimit,  \* config.blocksLimit, 0 for no limit
    Unreachable,  \* a submission may meet no daemon
    MaxFailures,  \* bound: exceptions in workers
    None

VARIABLES
    top,      \* the daemon's top block
    rq,       \* the contexts that are ready
    main,     \* the event loop: where it is, the event it handles
    mine,     \* mine[i]: a context of startMining, the template it was given
    worker,   \* worker[i][t]: the threads of mine[i]
    mon,      \* mon[i]: a context of startBlockchainMonitoring, lastBlockHash
    miner,    \* m_state, m_miningStopped, m_block of Miner
    mgr,      \* m_events, m_eventOccurred, m_minedBlock of MinerManager
    group,    \* m_stopped, m_sleepingContext of BlockchainMonitor: sleepers, and who waits for them
    blocks,   \* blocks counted, blocks the daemon was given, what mine returned and is not submitted
    left, broken, ended

vars == <<top, rq, main, mine, worker, mon, miner, mgr, group, blocks, left, broken, ended>>
Main == <<"main", 0>>
NapNew == <<"sleep", 0>>    \* a sleeper that has not begun, and one that has slept
NapOver == <<"slept", 0>>
Free == [at |-> "free", template |-> None]

Init ==
    /\ top = 0 /\ rq = <<Main>> /\ main = [at |-> "request", event |-> None]
    /\ mine = [i \in Slot |-> Free] /\ mon = [i \in Slot |-> Free]
    /\ worker = [i \in Slot |-> [t \in Thread |-> "done"]]
    /\ miner = [state |-> "STOPPED", stopped |-> FALSE, block |-> None]
    /\ mgr = [events |-> <<>>, occurred |-> FALSE, block |-> None]
    /\ group = [stopped |-> FALSE, asleep |-> 0, waiting |-> <<>>]
    /\ blocks = [counted |-> 0, given |-> 0, owed |-> <<>>]
    /\ left = MaxFailures /\ broken = FALSE /\ ended = "no"

Running(x) == rq # <<>> /\ Head(rq) = x /\ ~broken /\ ended = "no"
Naps == group.asleep + Cardinality({k \in DOMAIN rq : rq[k] \in {NapOver, NapNew}})

-----------------------------------------------------------------------------
\* waitEvent.
WaitingForEvent == main.at = "event" /\ ~Contains(rq, Main)
waitEvent ==
    /\ Running(Main) /\ main.at = "loop"
    /\ IF mgr.events # <<>>
       THEN /\ main' = [at |-> IF Head(mgr.events) = "BLOCK_MINED" THEN "stopMonitor" ELSE "stopMining", event |-> Head(mgr.events)]
            /\ mgr' = [mgr EXCEPT !.events = Tail(@)] /\ UNCHANGED rq
       ELSE /\ main' = [main EXCEPT !.at = "event"] /\ UNCHANGED mgr
            /\ rq' = IF mgr.occurred THEN rq ELSE Tail(rq)
    /\ UNCHANGED <<top, mine, worker, mon, miner, group, blocks, left, broken, ended>>
Woken ==
    /\ Running(Main) /\ main.at = "event"
    /\ main' = [main EXCEPT !.at = "loop"] /\ mgr' = [mgr EXCEPT !.occurred = FALSE]
    /\ UNCHANGED <<top, rq, mine, worker, mon, miner, group, blocks, left, broken, ended>>
\* pushEvent, by the context at the head of rq, which then ends; q is what is ready after it.
Wake(q) == IF WaitingForEvent THEN Append(q, Main) ELSE q
Pushed(event) == [mgr EXCEPT !.events = Append(@, event), !.occurred = TRUE]

\* Miner::stop.
stopMining ==
    /\ Running(Main) /\ main.at = "stopMining"
    /\ IF miner.state = "IN_PROGRESS"
       THEN miner' = [miner EXCEPT !.state = "STOPPED"] /\ main' = [main EXCEPT !.at = "stopped"] /\ rq' = Tail(rq)
       ELSE main' = [main EXCEPT !.at = "stopMonitor"] /\ UNCHANGED <<miner, rq>>
    /\ UNCHANGED <<top, mine, worker, mon, mgr, group, blocks, left, broken, ended>>
Stopped ==
    /\ Running(Main) /\ main.at = "stopped"
    /\ miner' = [miner EXCEPT !.stopped = FALSE] /\ main' = [main EXCEPT !.at = "stopMonitor"]
    /\ UNCHANGED <<top, rq, mine, worker, mon, mgr, group, blocks, left, broken, ended>>

\* BlockchainMonitor::stop: the sleepers are interrupted and waited for.
stopBlockchainMonitoring ==
    /\ Running(Main) /\ main.at = "stopMonitor"
    /\ LET q == [k \in DOMAIN rq |-> IF rq[k] = NapNew THEN NapOver ELSE rq[k]] \o [k \in 1..group.asleep |-> NapOver]
           wait == Naps > 0
       IN /\ rq' = IF wait THEN Tail(q) ELSE q
          /\ group' = [stopped |-> TRUE, asleep |-> 0, waiting |-> IF wait THEN Append(group.waiting, Main) ELSE group.waiting]
    /\ main' = [main EXCEPT !.at = IF main.event = "BLOCK_MINED" THEN "submit" ELSE "request"]
    /\ UNCHANGED <<top, mine, worker, mon, miner, mgr, blocks, left, broken, ended>>

\* submitBlock: no answer and answer 200 are both taken for success, and a refused block is
\* answered 200 too; the daemon adds a block made for its top.
Success(answer) == answer \in {"none", "200"}
submitBlock(answer) ==
    LET given == answer # "none"
        limited == BlocksLimit # 0
    IN /\ Running(Main) /\ main.at = "submit" /\ (given \/ Unreachable)
       /\ top' = IF answer = "200" /\ mgr.block.template = top /\ top < MaxTop THEN top + 1 ELSE top
       /\ blocks' = [counted |-> IF limited /\ Success(answer) THEN blocks.counted + 1 ELSE blocks.counted,
                     given |-> IF limited /\ given THEN blocks.given + 1 ELSE blocks.given, owed |-> Tail(blocks.owed)]
       /\ main' = [main EXCEPT !.at = "request"]
       \* start returns with the reporter thread joinable: its destructor calls std::terminate
       /\ ended' = IF limited /\ Success(answer) /\ blocks.counted + 1 = BlocksLimit THEN "terminated" ELSE "no"
       /\ UNCHANGED <<rq, mine, worker, mon, miner, mgr, group, left, broken>>

startMining(i, template) == mine' = [mine EXCEPT ![i] = [at |-> "start", template |-> template]]
startBlockchainMonitoring(j) == mon' = [mon EXCEPT ![j] = [at |-> "start", template |-> None]]
\* requestMiningParameters, asked until it is answered, and the two contexts spawned after it.
requestMiningParameters ==
    /\ Running(Main) /\ main.at = "request"
    /\ \E i, j \in Slot :
        /\ mine[i] = Free /\ mon[j] = Free
        /\ i = Min({k \in Slot : mine[k] = Free}) /\ j = Min({k \in Slot : mon[k] = Free})
        /\ startMining(i, top) /\ startBlockchainMonitoring(j)
        /\ rq' = rq \o <<<<"mon", j>>, <<"mine", i>>>>
    /\ main' = [at |-> "loop", event |-> None]
    /\ UNCHANGED <<top, worker, miner, mgr, group, blocks, left, broken, ended>>

-----------------------------------------------------------------------------
\* Miner::mine up to where it waits for its workers.  A second one while the first still waits
\* changes the vector of workers that is being cleared: undefined behaviour, and the end here.
Joining(i) == \E j \in Slot \ {i} : mine[j].at = "join"
Mine(i) ==
    /\ Running(<<"mine", i>>) /\ mine[i].at = "start"
    /\ rq' = Tail(rq)
    /\ IF miner.state = "IN_PROGRESS" THEN mine' = [mine EXCEPT ![i] = Free] /\ UNCHANGED <<worker, miner, broken>>
       ELSE /\ mine' = [mine EXCEPT ![i].at = "join"]
            /\ miner' = [miner EXCEPT !.state = "IN_PROGRESS", !.stopped = FALSE]
            /\ worker' = [worker EXCEPT ![i] = [t \in Thread |-> "loop"]]
            /\ broken' = Joining(i)
    /\ UNCHANGED <<top, main, mon, mgr, group, blocks, left, ended>>

\* The last worker's end reaches the dispatcher.
AnyDone(i) == \E t \in Thread : worker[i][t] = "done"
AllDone(i) == \A t \in Thread : worker[i][t] = "done"
Join(i) ==
    /\ rq = <<>> /\ mine[i].at = "join" /\ AllDone(i) /\ ~broken /\ ended = "no"
    /\ rq' = <<<<"mine", i>>>> /\ mine' = [mine EXCEPT ![i].at = "joined"]
    /\ UNCHANGED <<top, main, worker, mon, miner, mgr, group, blocks, left, broken, ended>>
\* The end of runWorkers and of mine, and what startMining does with the block.
SetStopped(i) == miner' = [miner EXCEPT !.stopped = TRUE]
Mined(i) ==
    LET waits == main.at = "stopped" /\ ~Contains(rq, Main)
        q == IF waits THEN Append(Tail(rq), Main) ELSE Tail(rq)
    IN /\ Running(<<"mine", i>>) /\ mine[i].at = "joined"
       /\ SetStopped(i)
       /\ mine' = [mine EXCEPT ![i] = Free]
       /\ IF miner.state = "STOPPED" THEN rq' = (IF miner'.stopped THEN q ELSE Tail(rq)) /\ UNCHANGED <<mgr, blocks>>
          ELSE /\ mgr' = [Pushed("BLOCK_MINED") EXCEPT !.block = miner.block]
               /\ rq' = Wake(q)
               /\ blocks' = [blocks EXCEPT !.owed = Append(@, [by |-> i, template |-> mine[i].template])]
       /\ UNCHANGED <<top, main, worker, mon, group, left, broken, ended>>

\* workerFunc: the loop's condition, a hash that is found or not, setStateBlockFound, m_block.
WorkerTo(i, t, at) == worker' = [worker EXCEPT ![i][t] = at] /\ ~broken /\ ended = "no" /\ UNCHANGED <<top, rq, main, mine, mon, mgr, group, blocks, broken, ended>>
Check(i, t) ==
    /\ worker[i][t] = "loop" /\ WorkerTo(i, t, IF miner.state = "IN_PROGRESS" THEN "hash" ELSE "done")
    /\ UNCHANGED <<miner, left>>
NotFound(i, t) == worker[i][t] = "hash" /\ WorkerTo(i, t, "loop") /\ UNCHANGED <<miner, left>>
setStateBlockFound(s) == s = "IN_PROGRESS"
Found(i, t) ==
    /\ worker[i][t] = "hash"
    /\ LET won == setStateBlockFound(miner.state)
       IN WorkerTo(i, t, IF won THEN "write" ELSE "done") /\ miner' = IF won THEN [miner EXCEPT !.state = "FOUND"] ELSE miner
    /\ UNCHANGED left
Write(i, t) ==
    /\ worker[i][t] = "write" /\ WorkerTo(i, t, "done")
    /\ miner' = [miner EXCEPT !.block = [by |-> i, template |-> mine[i].template]] /\ UNCHANGED left
Fails(i, t) ==
    /\ worker[i][t] = "hash" /\ left > 0 /\ WorkerTo(i, t, "done")
    /\ miner' = [miner EXCEPT !.state = "STOPPED"] /\ left' = left - 1

-----------------------------------------------------------------------------
\* An answer that fails is asked for again, with the dispatcher blocked.
requestLastBlockHash == top
\* waitBlockchainUpdate: the first hash, and again and again a sleep and the next one.
Nap(i, last) ==
    /\ rq' = Append(Tail(rq), NapNew)
    /\ mon' = [mon EXCEPT ![i] = [at |-> "nap", template |-> last]]
    /\ group' = [group EXCEPT !.stopped = FALSE, !.waiting = Append(@, <<"mon", i>>)]
    /\ UNCHANGED mgr
Monitor(i) ==
    /\ Running(<<"mon", i>>) /\ mon[i].at = "start" /\ Nap(i, requestLastBlockHash)
    /\ UNCHANGED <<top, main, mine, worker, miner, blocks, left, broken, ended>>
Differs(last) == last # requestLastBlockHash
waitBlockchainUpdate(i) ==
    /\ Running(<<"mon", i>>) /\ mon[i].at = "nap"
    /\ IF group.stopped THEN mon' = [mon EXCEPT ![i] = Free] /\ rq' = Tail(rq) /\ UNCHANGED <<mgr, group>>
       ELSE IF Differs(mon[i].template)
       THEN mon' = [mon EXCEPT ![i] = Free] /\ mgr' = Pushed("BLOCKCHAIN_UPDATED") /\ rq' = Wake(Tail(rq)) /\ UNCHANGED group
       ELSE Nap(i, mon[i].template)
    /\ UNCHANGED <<top, main, mine, worker, miner, blocks, left, broken, ended>>

\* A sleeper begins, its timer ends, and it ends; with the last one those who wait are ready.
NapStart ==
    /\ Running(NapNew) /\ rq' = Tail(rq) /\ group' = [group EXCEPT !.asleep = @ + 1]
    /\ UNCHANGED <<top, main, mine, worker, mon, miner, mgr, blocks, left, broken, ended>>
Timer ==
    /\ rq = <<>> /\ group.asleep > 0 /\ ~broken /\ ended = "no"
    /\ rq' = <<NapOver>> /\ group' = [group EXCEPT !.asleep = @ - 1]
    /\ UNCHANGED <<top, main, mine, worker, mon, miner, mgr, blocks, left, broken, ended>>
NapEnd ==
    /\ Running(NapOver)
    /\ IF Naps = 1 THEN rq' = Tail(rq) \o group.waiting /\ group' = [group EXCEPT !.waiting = <<>>]
       ELSE rq' = Tail(rq) /\ UNCHANGED group
    /\ UNCHANGED <<top, main, mine, worker, mon, miner, mgr, blocks, left, broken, ended>>

\* Another miner's block reaches the daemon.
NewBlock ==
    /\ top < MaxTop /\ top' = top + 1 /\ ~broken /\ ended = "no"
    /\ UNCHANGED <<rq, main, mine, worker, mon, miner, mgr, group, blocks, left, broken, ended>>

Dispatched ==
    \/ waitEvent \/ Woken \/ stopMining \/ Stopped \/ stopBlockchainMonitoring \/ (\E answer \in {"200", "none", "error"} : submitBlock(answer))
    \/ requestMiningParameters \/ NapStart \/ NapEnd
    \/ \E i \in Slot : Mine(i) \/ Mined(i) \/ Monitor(i) \/ waitBlockchainUpdate(i)
Working(i, t) == Check(i, t) \/ NotFound(i, t) \/ Found(i, t) \/ Write(i, t)
Next ==
    \/ Dispatched \/ Timer \/ NewBlock \/ \E i \in Slot : Join(i)
    \/ \E i \in Slot, t \in Thread : Working(i, t) \/ Fails(i, t)

Spec == Init /\ [][Next]_vars
\* The dispatcher and the worker threads run, and timers end.
FairSpec ==
    /\ Spec /\ WF_vars(Dispatched) /\ SF_vars(Timer)
    /\ \A i \in Slot : SF_vars(Join(i)) /\ \A t \in Thread : WF_vars(Working(i, t))

-----------------------------------------------------------------------------
\* Each block that mine returns is submitted once, and it is that one: it was found by the
\* workers of this call of mine, is written to the end when mine returns, and no other takes
\* its place in m_minedBlock before the event loop has come to it.
MinedSubmitted ==
    /\ Len(blocks.owed) = Cardinality({k \in DOMAIN mgr.events : mgr.events[k] = "BLOCK_MINED"})
                          + IF main.event = "BLOCK_MINED" /\ main.at \in {"stopMonitor", "submit"} THEN 1 ELSE 0
    /\ blocks.owed # <<>> => Len(blocks.owed) = 1 /\ mgr.block = blocks.owed[1]

Over == broken \/ ended # "no"
\* Miner::stop returns: the workers see the state, and the event it waits for is set.
StopReturns == main.at = "stopped" ~> (main.at # "stopped" \/ Over)
=============================================================================
