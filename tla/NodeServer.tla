----------------------------- MODULE NodeServer -----------------------------
(***************************************************************************)
(* The contexts of NodeServer: accepting, making and closing connections,  *)
(* the write queue of each connection, the loops that synchronise and time *)
(* out, and the stop.  Contexts run one at a time: those pushed wait in rq *)
(* in order, and only when rq is empty does a source wake another one.     *)
(* The two contexts of connectionHandler are one here (h), since the outer *)
(* one only hands interruptions on; w is the writeHandler.                 *)
(***************************************************************************)
EXTENDS Naturals, Sequences, SequencesExt, FiniteSets

CONSTANTS
    Conn, Address,
    Exclusive, Seeds, Priority,   \* sequences of addresses, of the command line and the configuration
    White, Gray,                  \* the addresses of the two peer lists
    Pings,                        \* a handshake may bring a port, which is pinged
    connections_count, expected_white_connections,
    MaxWrite,                     \* P2P_CONNECTION_MAX_WRITE_BUFFER_SIZE, in messages
    MaxArrivals, MaxBlocks, MaxRelays,   \* bounds: what peers send, the blocks in it, relays,
    MaxWoken,                            \* and the contexts that a yield finds ready
    None

VARIABLES
    srv,    \* the contexts and what they share
    left    \* what is left of the bounds

vars == <<srv, left>>

main == <<"main", None>>
accept == <<"accept", None>>
idle == <<"idle", None>>
tsync == <<"tsync", None>>
tout == <<"tout", None>>
stopper == <<"stopper", None>>   \* the procedure of sendStopSignal
relay == <<"relay", None>>       \* one of externalRelayNotifyToAll
h(c) == <<"h", c>>
w(c) == <<"w", c>>
Context == {main, accept, idle, tsync, tout, stopper, relay} \cup {h(c) : c \in Conn} \cup {w(c) : c \in Conn}

Closed == [income |-> FALSE, addr |-> None, peerId |-> FALSE, state |-> "before_handshake", queue |-> <<>>, batch |-> <<>>,
           size |-> 0, event |-> FALSE, stopped |-> FALSE, started |-> "no", answered |-> FALSE, open |-> FALSE]
Messages == {"sync", "pool", "refused", "command", "objects", "eof"}

-----------------------------------------------------------------------------
Push(s, x) == IF x \in Range(s.rq) THEN s ELSE [s EXCEPT !.rq = Append(@, x)]
Waits == {"stop", "join", "accept", "sleep", "connect", "shake", "read", "ping", "pop", "write"}
\* Dispatcher::interrupt: a waiting context is woken by InterruptedException, another one is marked.
Interrupt(s, x) ==
    IF s.flag[x] \/ s.at[x] = "done" THEN s
    ELSE IF s.at[x] \in Waits /\ x \notin Range(s.rq) THEN Push([s EXCEPT !.thrown[x] = TRUE], x)
    ELSE [s EXCEPT !.flag[x] = TRUE]
Unmark(s, x) == [s EXCEPT !.flag[x] = FALSE, !.thrown[x] = FALSE]

\* A context of the group ends, the last one wakes run.
Finish(s, x) ==
    LET t == [Unmark(s, x) EXCEPT !.at[x] = "done", !.group = SelectSeq(@, LAMBDA y : y # x)]
    IN IF t.group = <<>> /\ t.at[main] = "join" THEN Push(t, main) ELSE t

SetEvent(s, c) ==
    LET t == [s EXCEPT !.conn[c].event = TRUE]
    IN IF s.at[w(c)] = "pop" THEN Push(t, w(c)) ELSE t

\* P2pConnectionContext::interrupt.
interrupt(s, c) ==
    Interrupt(SetEvent([s EXCEPT !.conn[c].stopped = TRUE, !.unbound = @ \/ s.at[h(c)] = "spawned"], c), h(c))

pushMessage(s, c, m) ==
    LET t == [s EXCEPT !.conn[c].size = @ + 1]
    IN IF t.conn[c].size > MaxWrite THEN interrupt(t, c)
       ELSE SetEvent([t EXCEPT !.conn[c].queue = Append(@, m)], c)

\* A connection enters m_connections and its handler is spawned.
Emplace(s, c, income, addr, state) ==
    Push([s EXCEPT !.conn[c] = [Closed EXCEPT !.income = income, !.addr = addr, !.peerId = ~income,
                                              !.state = state, !.answered = ~income, !.open = TRUE],
                   !.at[h(c)] = "spawned", !.at[w(c)] = "none", !.flag[h(c)] = FALSE, !.group = Append(@, h(c))], h(c))

\* forEachConnection.
forEachConnection(s, cs, m) == FoldLeft(LAMBDA t, c : pushMessage(t, c, m), s, SetToSeq(cs))
timedSync(s) == forEachConnection(s, {c \in Conn : s.conn[c].peerId /\ s.conn[c].state = "normal"}, "command")
relayEarly(s) == forEachConnection(s, {c \in Conn : s.conn[c].peerId}, "notify")
relay_notify_to_all(s) ==
    forEachConnection(s, {c \in Conn : s.conn[c].peerId /\ s.conn[c].state \in {"normal", "synchronizing"}}, "notify")

-----------------------------------------------------------------------------
\* connectionHandler, after its loop: the writer is stopped and waited for.
AwaitWriter(s, c) ==
    IF s.at[w(c)] = "done" THEN Finish([s EXCEPT !.conn[c] = Closed], h(c)) ELSE [s EXCEPT !.at[h(c)] = "join"]
CloseKeepsWriter(s, c) == AwaitWriter(Unmark(s, h(c)), c)
Close(s, c) == AwaitWriter(Unmark(Interrupt(interrupt(s, c), w(c)), h(c)), c)

\* The top of the loop, up to readCommand.
Loop(s, c) ==
    LET st == s.conn[c].state
        t == IF st = "sync_required" THEN pushMessage([s EXCEPT !.conn[c].state = "synchronizing"], c, "notify")
             ELSE IF st = "pool_sync_required" THEN pushMessage([s EXCEPT !.conn[c].state = "normal"], c, "notify")
             ELSE s
    IN IF t.flag[h(c)] THEN Close(t, c) ELSE [t EXCEPT !.at[h(c)] = "read"]

\* The response, and the end of the loop in state_shutdown.
Reply(s, c) ==
    LET t == pushMessage(s, c, "reply") IN IF t.conn[c].state = "shutdown" THEN Close(t, c) ELSE Loop(t, c)
Answer(s, c) == Reply([s EXCEPT !.conn[c].answered = TRUE], c)

\* handle_handshake up to try_ping, whose InterruptedException it treats as a failed ping.
handle_handshake(s, c, m) ==
    IF ~s.conn[c].income \/ s.conn[c].peerId \/ m = "refused" THEN Reply([s EXCEPT !.conn[c].state = "shutdown"], c)
    ELSE LET t == [s EXCEPT !.conn[c].peerId = TRUE,
                            !.conn[c].state = IF m = "sync" THEN "sync_required" ELSE "pool_sync_required"]
         IN IF Pings /\ ~t.flag[h(c)] THEN [t EXCEPT !.at[h(c)] = "ping"]
            ELSE Answer(IF Pings THEN Unmark(t, h(c)) ELSE t, c)

\* processObjects: after each block the contexts that epoll reports (q) go first; q = None: no
\* block is left.
processObjects(s, c, q) ==
    IF s.payloadStop \/ q = None THEN Loop(s, c)
    ELSE FoldLeft(Push, [s EXCEPT !.at[h(c)] = "objects"], Append(q, h(c)))

\* handleCommand and what follows it.
handleCommand(s, c, m, q) ==
    CASE m = "eof" -> Close(s, c)
      [] m \in {"sync", "pool", "refused"} -> handle_handshake(s, c, m)
      [] m = "command" -> Reply(s, c)
      [] m = "objects" -> IF s.conn[c].state = "synchronizing" THEN processObjects(s, c, q) ELSE Loop(s, c)

\* connectionHandler resumes.
Handler(s, c, m, q) ==
    LET x == h(c)
        t == [s EXCEPT !.thrown[x] = FALSE]
    IN CASE s.at[x] = "spawned" -> Push([s EXCEPT !.at[x] = "start"], x)
         [] s.at[x] = "start" -> Loop(Push([s EXCEPT !.at[x] = "loop", !.at[w(c)] = "ready"], w(c)), c)
         [] s.at[x] = "read" -> IF s.thrown[x] THEN Close([t EXCEPT !.at[x] = "loop"], c)
                                ELSE handleCommand([s EXCEPT !.at[x] = "loop"], c, m, q)
         [] s.at[x] = "objects" -> processObjects([s EXCEPT !.at[x] = "loop"], c, q)
         [] s.at[x] = "ping" -> Answer([t EXCEPT !.at[x] = "loop"], c)
         [] s.at[x] = "join" -> AwaitWriter(IF s.thrown[x] THEN Interrupt(t, w(c)) ELSE t, c)

-----------------------------------------------------------------------------
\* The end of writeHandler wakes the handler that waits for it.
WriterDone(s, c) ==
    LET t == [Unmark(s, w(c)) EXCEPT !.at[w(c)] = "done", !.conn[c].batch = <<>>]
    IN IF t.at[h(c)] = "join" THEN Push(t, h(c)) ELSE t

\* The write of the first message of the batch begins.
Write(s, c) == IF s.flag[w(c)] THEN WriterDone(s, c) ELSE [s EXCEPT !.at[w(c)] = "write"]

\* popBuffer, and the test for an empty vector.
popBuffer(s, c) ==
    LET k == s.conn[c]
        t == [s EXCEPT !.conn[c].batch = k.queue, !.conn[c].queue = <<>>, !.conn[c].size = 0,
                       !.conn[c].started = "now", !.conn[c].event = FALSE]
    IN IF k.queue = <<>> /\ ~k.stopped
       THEN IF s.flag[w(c)] THEN WriterDone(s, c) ELSE [s EXCEPT !.at[w(c)] = "pop", !.conn[c].started = "no"]
       ELSE IF k.queue = <<>> THEN WriterDone(t, c) ELSE Write(t, c)

\* writeHandler resumes; a write that fails stops the connection.
Writer(s, c, ok) ==
    LET x == w(c)
    IN CASE s.thrown[x] -> WriterDone(s, c)
         [] s.at[x] \in {"ready", "pop"} /\ ~s.thrown[x] -> popBuffer([s EXCEPT !.at[x] = "run"], c)
         [] s.at[x] = "write" /\ ~s.thrown[x] ->
              IF ~ok THEN WriterDone(interrupt([s EXCEPT !.at[x] = "run"], c), c)
              ELSE LET t == [s EXCEPT !.conn[c].batch = Tail(@)]
                   IN IF t.conn[c].batch = <<>> THEN popBuffer([t EXCEPT !.at[x] = "run"], c) ELSE Write(t, c)

-----------------------------------------------------------------------------
\* acceptLoop.
AcceptNext(s) == IF s.m_stop \/ s.flag[accept] THEN Finish(s, accept) ELSE [s EXCEPT !.at[accept] = "accept"]
acceptLoop(s, c) ==
    IF s.thrown[accept] THEN Finish(s, accept)
    ELSE AcceptNext(IF s.at[accept] = "spawned" THEN s ELSE Emplace(s, c, TRUE, None, "before_handshake"))

Sleep(s, x) == IF s.flag[x] THEN Finish(s, x) ELSE [s EXCEPT !.at[x] = "sleep"]
timedSyncLoop(s) ==
    IF s.thrown[tsync] THEN Finish(s, tsync)
    ELSE Sleep(IF s.at[tsync] = "spawned" THEN s ELSE timedSync(s), tsync)

Late(s) == {c \in Conn : s.conn[c].open /\ s.conn[c].started = "late"}
timeoutLoop(s) ==
    IF s.thrown[tout] THEN Finish(s, tout)
    ELSE LET t == IF s.at[tout] = "spawned" THEN s ELSE FoldLeft(interrupt, s, SetToSeq(Late(s)))
         IN IF t.m_stop THEN Finish(t, tout) ELSE Sleep(t, tout)

-----------------------------------------------------------------------------
Outgoing(s) == {c \in Conn : s.conn[c].open /\ ~s.conn[c].income}
is_addr_connected(s, a) == \E c \in Outgoing(s) : s.conn[c].addr = a

\* What connections_maker tries first, and what it makes of the peer lists after that.
Peers(kind, as) == [i \in DOMAIN as |-> [kind |-> kind, addr |-> as[i]]]
connections_maker(s) ==
    [s EXCEPT !.todo = IF Exclusive # <<>> THEN Peers("exclusive", Exclusive)
                       ELSE (IF White = {} /\ Seeds # <<>> THEN Peers("seed", Append(Seeds, Head(Seeds))) ELSE <<>>)
                            \o Peers("priority", Priority),
              !.plan = IF Exclusive # <<>> THEN <<>> ELSE <<[list |-> "count", expected |-> 0]>>]

Plan(s) ==
    LET n == Cardinality(Outgoing(s))
    IN IF n >= connections_count THEN <<>>
       ELSE IF n < expected_white_connections
       THEN <<[list |-> "white", expected |-> expected_white_connections], [list |-> "gray", expected |-> connections_count]>>
       ELSE <<[list |-> "gray", expected |-> connections_count], [list |-> "white", expected |-> connections_count]>>

\* onIdle goes on after idle_worker.
IdleSleep(s) == Sleep([s EXCEPT !.todo = <<>>, !.plan = <<>>, !.addr = None], idle)

RECURSIVE Maker(_, _)
\* A try has ended, the next one follows; a seed that answers is enough, and of a peer list the
\* entries that were tried are left out until one succeeds.
Advance(s, ok) ==
    IF s.todo # <<>>
    THEN [s EXCEPT !.todo = IF ok /\ Head(@).kind = "seed" THEN SelectSeq(@, LAMBDA t : t.kind # "seed") ELSE Tail(@)]
    ELSE [s EXCEPT !.tried = IF ok THEN {} ELSE @ \cup {s.addr}]

\* try_to_connect_and_handshake_with_new_peer up to its first wait, where an interruption that
\* came before counts as a timeout.
Connect(s, a, pick) ==
    IF s.flag[idle] THEN Maker(Advance([Unmark(s, idle) EXCEPT !.addr = a], FALSE), pick)
    ELSE [s EXCEPT !.at[idle] = "connect", !.addr = a]
\* pick[l]: where the random indices into list l lead, None when they lead to no unused entry.
Maker(s, pick) ==
    IF s.todo # <<>> THEN
        LET t == Head(s.todo)
        IN IF t.kind # "seed" /\ is_addr_connected(s, t.addr) THEN Maker([s EXCEPT !.todo = Tail(@)], pick)
           ELSE Connect(s, t.addr, pick)
    ELSE IF s.plan = <<>> THEN IdleSleep(s)
    ELSE IF Head(s.plan).list = "count" THEN Maker([s EXCEPT !.plan = Plan(s)], pick)
    ELSE LET p == Head(s.plan)
             a == pick[p.list]
         IN IF Cardinality(Outgoing(s)) >= p.expected THEN Maker([s EXCEPT !.plan = Tail(@), !.tried = {}], pick)
            ELSE IF s.stopEvent THEN IdleSleep(s)
            ELSE IF s.m_stop \/ a = None \/ a \in s.tried \/ is_addr_connected(s, a)
            THEN Maker([s EXCEPT !.plan = Tail(@), !.tried = {}], pick)
            ELSE Connect(s, a, pick)
\* try_to_connect_and_handshake_with_new_peer after the handshake.
Connected(s, c, state, pick) ==
    IF s.todo # <<>> /\ Head(s.todo).kind = "seed" THEN Maker(Advance(s, TRUE), pick)
    ELSE IF s.m_stop THEN IdleSleep(s)
    ELSE Maker(Advance(Emplace(s, c, FALSE, s.addr, state), TRUE), pick)

\* onIdle resumes: its timer has ended, or a try to connect has gone one step further.
onIdle(s, ok, c, state, pick) ==
    LET t == [s EXCEPT !.at[idle] = "run", !.thrown[idle] = FALSE]
    IN CASE s.at[idle] \in {"spawned", "sleep"} ->
              IF s.thrown[idle] \/ s.m_stop THEN Finish(s, idle) ELSE Maker(connections_maker(t), pick)
         [] s.at[idle] = "connect" /\ ok /\ ~s.thrown[idle] -> [s EXCEPT !.at[idle] = "shake"]
         [] s.at[idle] = "shake" /\ ok /\ ~s.thrown[idle] -> Connected(t, c, state, pick)
         [] s.at[idle] \in {"connect", "shake"} /\ (~ok \/ s.thrown[idle]) -> Maker(Advance(t, FALSE), pick)

\* run: after the stop event the group is interrupted and waited for.
run(s) ==
    LET t == IF s.at[main] = "stop" THEN FoldLeft(Interrupt, s, s.group) ELSE s
    IN IF t.group = <<>> THEN [t EXCEPT !.at[main] = "done"] ELSE [t EXCEPT !.at[main] = "join"]

-----------------------------------------------------------------------------
Init ==
    /\ srv = [rq |-> <<accept, idle, tsync, tout>>, group |-> <<accept, idle, tsync, tout>>,
              at |-> [x \in Context |-> IF x = main THEN "stop" ELSE IF x[1] \in {"h", "w"} THEN "done" ELSE "spawned"],
              flag |-> [x \in Context |-> FALSE], thrown |-> [x \in Context |-> FALSE],
              conn |-> [c \in Conn |-> Closed], m_stop |-> FALSE, stopEvent |-> FALSE, payloadStop |-> FALSE,
              signal |-> FALSE, todo |-> <<>>, plan |-> <<>>, tried |-> {}, addr |-> None, unbound |-> FALSE]
    /\ left = [arrivals |-> MaxArrivals, blocks |-> MaxBlocks, relays |-> MaxRelays]

Free == {c \in Conn : ~srv.conn[c].open}
Fresh == IF Free = {} THEN None ELSE CHOOSE c \in Free : TRUE

\* x runs: the first of the queue, or one whose source is ready when the queue is empty.
Turn(x, source) == IF srv.rq = <<>> THEN source ELSE Head(srv.rq) = x
Pop(s) == IF s.rq = <<>> THEN s ELSE [s EXCEPT !.rq = Tail(@)]

\* The sources that may be ready while a handler lets others run.
Ready ==
    {x \in Context \ Range(srv.rq) :
        CASE x[1] = "accept" -> srv.at[x] = "accept" /\ left.arrivals > 0 /\ Free # {}
          [] x[1] \in {"tsync", "tout", "idle"} -> srv.at[x] = "sleep"
          [] x[1] = "h" -> srv.at[x] = "read" /\ left.arrivals > 0
          [] x[1] = "w" -> srv.at[x] = "write"
          [] x[1] = "stopper" -> srv.signal
          [] x[1] = "relay" -> left.relays > 0
          [] x[1] = "main" -> FALSE}
Arrivals == UNION {SetToSeqs(A) : A \in {B \in SUBSET Ready : Cardinality(B) <= MaxWoken}}

RunMain == Turn(main, FALSE) /\ srv' = run(Pop(srv)) /\ UNCHANGED left

\* sendStopSignal, in another thread, and the procedure it hands over.
sendStopSignal == ~srv.m_stop /\ srv' = [srv EXCEPT !.m_stop = TRUE, !.signal = TRUE] /\ UNCHANGED left
RunStopper ==
    /\ Turn(stopper, srv.signal)
    /\ srv' = Push([Pop(srv) EXCEPT !.signal = FALSE, !.stopEvent = TRUE, !.payloadStop = TRUE], main)
    /\ UNCHANGED left

\* A peer connects or sends: one less of those that may.
Spent(x, at) == IF srv.at[x] = at /\ ~srv.thrown[x] THEN [left EXCEPT !.arrivals = @ - 1] ELSE left
Arrived(x, at) == srv.at[x] = at /\ ~srv.thrown[x] => left.arrivals > 0

RunAccept ==
    /\ Turn(accept, srv.at[accept] = "accept") /\ Arrived(accept, "accept")
    /\ srv.at[accept] = "accept" /\ ~srv.thrown[accept] => Free # {}
    /\ srv' = acceptLoop(Pop(srv), Fresh)
    /\ left' = Spent(accept, "accept")

RunIdle(ok, state, pick) ==
    /\ Turn(idle, srv.at[idle] \in {"sleep", "connect", "shake"})
    /\ (ok /\ srv.at[idle] = "shake") => Free # {}
    /\ srv' = onIdle(Pop(srv), ok, Fresh, state, pick)
    /\ UNCHANGED left

RunTimedSync == Turn(tsync, srv.at[tsync] = "sleep") /\ srv' = timedSyncLoop(Pop(srv)) /\ UNCHANGED left
RunTimeout == Turn(tout, srv.at[tout] = "sleep") /\ srv' = timeoutLoop(Pop(srv)) /\ UNCHANGED left

RunHandler(c, m, q) ==
    /\ Turn(h(c), srv.at[h(c)] \in {"read", "ping"}) /\ Arrived(h(c), "read")
    /\ srv' = Handler(Pop(srv), c, m, q)
    /\ left' = IF srv'.at[h(c)] = "objects" THEN [left EXCEPT !.blocks = @ - 1] ELSE Spent(h(c), "read")

RunWriter(c, ok) == Turn(w(c), srv.at[w(c)] = "write") /\ srv' = Writer(Pop(srv), c, ok) /\ UNCHANGED left

RunRelay ==
    /\ Turn(relay, left.relays > 0)
    /\ srv' = relay_notify_to_all(Pop(srv)) /\ left' = [left EXCEPT !.relays = @ - 1]

\* A write lasts longer than P2P_DEFAULT_INVOKE_TIMEOUT.
GrowLate(c) ==
    /\ srv.at[w(c)] = "write" /\ srv.conn[c].started = "now"
    /\ srv' = [srv EXCEPT !.conn[c].started = "late"]
    /\ UNCHANGED left

Picks == {p \in [{"white", "gray"} -> Address \cup {None}] : p.white \in White \cup {None} /\ p.gray \in Gray \cup {None}}
HandlerStep ==
    \E c \in Conn :
        /\ srv.rq # <<>> => Head(srv.rq) = h(c)
        /\ \E m \in IF srv.at[h(c)] = "read" THEN Messages ELSE {IF srv.at[h(c)] = "objects" THEN "objects" ELSE "eof"} :
           \E q \in {None} \cup (IF m = "objects" /\ srv.conn[c].state = "synchronizing" /\ left.blocks > 0 THEN Arrivals ELSE {}) :
              RunHandler(c, m, q)
IdleStep == (srv.rq # <<>> => Head(srv.rq) = idle) /\ \E ok \in BOOLEAN, state \in {"sync_required", "pool_sync_required"}, pick \in Picks : RunIdle(ok, state, pick)
Next ==
    \/ RunMain \/ sendStopSignal \/ RunStopper \/ RunAccept \/ RunTimedSync \/ RunTimeout \/ RunRelay
    \/ HandlerStep \/ IdleStep
    \/ \E c \in Conn : GrowLate(c) \/ \E ok \in BOOLEAN : RunWriter(c, ok)

Spec == Init /\ [][Next]_vars

\* The dispatcher runs what is queued and serves every source in its turn; timers end, and so do
\* connecting, the handshake and the ping, which have timeouts.  Peers may send and read nothing.
Dequeues == srv.rq # <<>> /\ <<srv.rq, srv.at, left>>' # <<srv.rq, srv.at, left>>
QueueRuns == []<>(srv.rq = <<>>) \/ []<><<Dequeues>>_vars
PingEnds(c) == srv.at[h(c)] = "ping" /\ RunHandler(c, "eof", None)
IdleEnds == \E pick \in Picks : RunIdle(FALSE, "sync_required", pick)
FairSpec ==
    /\ Spec /\ QueueRuns /\ SF_vars(RunStopper) /\ SF_vars(RunTimeout) /\ SF_vars(IdleEnds)
    /\ \A c \in Conn : SF_vars(PingEnds(c)) /\ WF_vars(GrowLate(c))

-----------------------------------------------------------------------------
\* Who invokes COMMAND_HANDSHAKE takes the next packet for its response, so nothing but replies
\* is queued to an incoming connection before handle_handshake has answered, however long its
\* back ping lasts and whatever is relayed meanwhile.
RepliesFirst ==
    \A c \in Conn : LET k == srv.conn[c] IN k.open /\ ~k.answered => Range(k.queue \o k.batch) \subseteq {"reply"}

\* Making a connection takes two waits after the test that its address is not in use; still no
\* address ever has two outgoing connections.
OneOutgoing == \A c, d \in Outgoing(srv) : srv.conn[c].addr = srv.conn[d].addr => c = d

\* The loop of popBuffer waits for an event that is set only with something to take or to stop
\* for, and counts no more than what waits; an overflowing queue is that of a stopped connection.
QueueCounted ==
    \A c \in Conn : LET k == srv.conn[c] IN
        /\ k.event /\ k.queue = <<>> => k.stopped
        /\ ~k.stopped => k.size = Len(k.queue)

\* Once run has interrupted the group, no handler is left waiting for its peer: neither one of a
\* connection accepted or made in the meantime, nor one that was busy with blocks.
NoneLeftReading == srv.at[main] = "join" => \A c \in Conn : srv.at[h(c)] = "read" => h(c) \in Range(srv.rq)

\* After sendStopSignal run returns, with every context of the node ended, even if no peer ever
\* closes its connection.
StopAsked == srv.m_stop
Ended == srv.at[main] = "done"
StopEnds == StopAsked ~> Ended
=============================================================================
