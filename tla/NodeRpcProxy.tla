---------------------------- MODULE NodeRpcProxy ----------------------------
(***************************************************************************)
(* The wallet's proxy of a daemon: one thread that pulls the status of the *)
(* daemon and carries out the requests of other threads, each of which     *)
(* waits for the one HTTP connection.  The daemon answers out of the state *)
(* it has when a request reaches it, which may have changed by the time    *)
(* the answer is used.                                                     *)
(***************************************************************************)
EXTENDS Naturals, Sequences

CONSTANTS
    Block,             \* the blocks the daemon may have on top
    Tx, Req,
    Kind,              \* Kind[r]: what request r does with its answer (result, below)
    MaxChanges,        \* bound: how often the daemon's state changes
    MaxFailures,       \* bound: requests that fail
    EarlyShutdown,     \* shutdown may be called before the thread has begun
    None

VARIABLES
    node,     \* the daemon: its top block and its pool
    proxy,    \* m_state, lastLocalBlockHeaderInfo, m_knownTxs, m_connected; http is HttpClient's m_connected
    worker,   \* where the thread is; "wait" and "sent" are those of its updateNodeStatus
    step,     \* the command updateNodeStatus is at
    lock,     \* who holds m_httpEvent
    inside,   \* who is in HttpClient::request
    answer,   \* answer[x]: what x asked with, and what came back
    req,      \* req[r]: where request r is, its result and what its callback was told
    told,     \* what init's callback was told
    left, asserted

vars == <<node, proxy, worker, step, lock, inside, answer, req, told, left, asserted>>
Client == {"pull"} \cup Req
No == [asked |-> None, state |-> "none", ok |-> FALSE, http |-> FALSE, node |-> None]

Init ==
    /\ node \in [top : Block, pool : {{}}]
    /\ proxy = [state |-> "NOT_INITIALIZED", top |-> None, txs |-> {}, connected |-> TRUE, http |-> FALSE]
    /\ worker = "none" /\ step = "header" /\ lock = None /\ inside = {}
    /\ answer = [x \in Client |-> No]
    /\ req = [r \in Req |-> [at |-> "new", out |-> <<None>>, error |-> None]]
    /\ told = None
    /\ left = [changes |-> MaxChanges, failures |-> MaxFailures] /\ asserted = FALSE

-----------------------------------------------------------------------------
\* init and shutdown, of the thread that owns the proxy.
init ==
    /\ proxy.state = "NOT_INITIALIZED" /\ worker = "none"
    /\ proxy' = [proxy EXCEPT !.state = "INITIALIZING", !.top = None, !.txs = {}]
    /\ worker' = "start"
    /\ UNCHANGED <<node, step, lock, inside, answer, req, told, left, asserted>>

shutdown ==
    /\ proxy.state # "NOT_INITIALIZED" /\ (EarlyShutdown \/ proxy.state = "INITIALIZED")
    /\ proxy' = [proxy EXCEPT !.state = "NOT_INITIALIZED"]
    /\ UNCHANGED <<node, worker, step, lock, inside, answer, req, told, left, asserted>>

\* workerThread up to the first updateNodeStatus, which another thread carries out for it.
Start ==
    /\ worker = "start"
    /\ asserted' = (proxy.state # "INITIALIZING")
    /\ proxy' = [proxy EXCEPT !.state = "INITIALIZED"]
    /\ worker' = "init" /\ step' = "header"
    /\ UNCHANGED <<node, lock, inside, answer, req, told, left>>

\* init.wait_for ends before updateNodeStatus does.
InitTimeout ==
    /\ worker = "init" /\ told = None
    /\ told' = "TIMEOUT"
    /\ UNCHANGED <<node, proxy, worker, step, lock, inside, answer, req, left, asserted>>

\* The pull timer ends.
Pull ==
    /\ worker = "sleep" /\ worker' = "pull" /\ step' = "header"
    /\ UNCHANGED <<node, proxy, lock, inside, answer, req, told, left, asserted>>

-----------------------------------------------------------------------------
\* scheduleRequest, if the proxy is initialized.
schedule(r) ==
    /\ req[r].at = "new"
    /\ req' = [req EXCEPT ![r] = IF proxy.state = "INITIALIZED" THEN [@ EXCEPT !.at = "spawned"]
                                 ELSE [@ EXCEPT !.at = "done", !.error = "NOT_INITIALIZED"]]
    /\ UNCHANGED <<node, proxy, worker, step, lock, inside, answer, told, left, asserted>>

Wants(x) == IF x = "pull" THEN worker \in {"init", "fee", "pull"} ELSE req[x].at = "spawned"
\* The constructor of EventLock.
EventLock == lock = None
\* A command begins: the request is written with what the proxy knows now.
Begin(x) ==
    /\ Wants(x) /\ answer[x].state = "none" /\ EventLock
    /\ lock' = x /\ inside' = inside \cup {x}
    /\ answer' = [answer EXCEPT ![x] = [No EXCEPT !.state = "sent", !.asked = [top |-> proxy.top, txs |-> proxy.txs]]]
    /\ UNCHANGED <<node, proxy, worker, step, req, told, left, asserted>>

\* The daemon answers, or the connection fails, or the daemon says it is busy.
Answer(x) ==
    /\ answer[x].state = "sent"
    /\ answer' = [answer EXCEPT ![x].state = "back", ![x].ok = TRUE, ![x].http = TRUE, ![x].node = node]
    /\ UNCHANGED <<node, proxy, worker, step, lock, inside, req, told, left, asserted>>
Fail(x, http) ==
    /\ answer[x].state = "sent" /\ left.failures > 0
    /\ answer' = [answer EXCEPT ![x].state = "back", ![x].http = http]
    /\ left' = [left EXCEPT !.failures = @ - 1]
    /\ UNCHANGED <<node, proxy, worker, step, lock, inside, req, told, asserted>>
\* HttpClient::request returns or throws; the destructor of EventLock.
Leave(x) == inside' = inside \ {x} /\ lock' = None /\ answer' = [answer EXCEPT ![x] = No]

-----------------------------------------------------------------------------
\* updateBlockchainStatus: the header, then the info, after which the status of the connection
\* is looked at.
Header(p, a) == IF a.ok THEN [p EXCEPT !.top = a.node.top] ELSE p
Info(p, a) == [p EXCEPT !.connected = p.http]

\* updatePoolStatus: what the daemon says has changed since what it was told.
Added(a) == a.node.pool \ a.asked.txs
Deleted(a) == a.asked.txs \ a.node.pool
isTailAlways(a) == TRUE
isTailBlockActual(a) == a.asked.top = a.node.top
updatePoolState(p, a) == [p EXCEPT !.txs = (@ \ Deleted(a)) \cup Added(a)]
Pool(p, a) == IF a.ok /\ isTailBlockActual(a) THEN updatePoolState(p, a) ELSE p

\* The loop of updateNodeStatus goes on unless the daemon's top is the proxy's, or the call failed.
Again(a) == a.ok /\ ~isTailBlockActual(a)

\* A command of updateNodeStatus, or getFeeInfo, comes back.
Pulled ==
    LET a == answer["pull"]
        p == [proxy EXCEPT !.http = a.http]
        ended == step = "pool" /\ ~Again(a)
    IN /\ a.state = "back" /\ Leave("pull")
       /\ proxy' = IF worker = "fee" THEN p
                   ELSE CASE step = "header" -> Header(p, a)
                          [] step = "info" -> Info(p, a)
                          [] step = "pool" -> Pool(p, a)
       /\ step' = IF worker = "fee" THEN step
                  ELSE CASE step = "header" -> "info" [] step = "info" -> "pool" [] step = "pool" -> "header"
       /\ worker' = IF worker = "fee" THEN "sleep" ELSE IF ~ended THEN worker ELSE IF worker = "init" THEN "fee" ELSE "sleep"
       /\ told' = IF worker = "init" /\ ended /\ told = None THEN "OK" ELSE told
       /\ UNCHANGED <<node, req, left, asserted>>

\* What a request does with its answer.  A status is overwritten whatever comes back; the items
\* of a "lite" answer are parsed one by one, and those before one that cannot be parsed stay.
statusOf(a) == IF a.ok THEN <<a.node>> ELSE <<>>
appended(out, a) == IF a.ok THEN Append(out, a.node) ELSE out
parsed(out, a, good) == IF ~a.ok THEN out ELSE out \o IF good THEN <<a.node, a.node>> ELSE <<a.node>>
replaced(out, a) == IF a.ok THEN <<a.node>> ELSE out
result(r, a, good) ==
    CASE Kind[r] = "status" -> statusOf(a)
      [] Kind[r] = "append" -> appended(req[r].out, a)
      [] Kind[r] = "lite" -> parsed(req[r].out, a, good)
      [] Kind[r] = "replace" -> replaced(req[r].out, a)
errorOf(r, a, good) ==
    IF ~a.ok THEN "NODE_ERROR" ELSE IF Kind[r] = "lite" /\ ~good THEN "invalid_argument" ELSE "OK"

\* A request comes back: its result, the connection's status and the callback.
Done(r, good) ==
    LET a == answer[r]
    IN /\ a.state = "back" /\ Leave(r)
       /\ req' = [req EXCEPT ![r] = [at |-> "done", out |-> result(r, a, good), error |-> errorOf(r, a, good)]]
       /\ proxy' = [proxy EXCEPT !.http = a.http, !.connected = a.http]
       /\ UNCHANGED <<node, worker, step, told, left, asserted>>

\* The daemon's chain and pool move on.
Change(n) ==
    /\ left.changes > 0 /\ n # node
    /\ node' = n /\ left' = [left EXCEPT !.changes = @ - 1]
    /\ UNCHANGED <<proxy, worker, step, lock, inside, answer, req, told, asserted>>

Next ==
    \/ init \/ shutdown \/ Start \/ InitTimeout \/ Pull \/ Pulled
    \/ \E x \in Client : Begin(x) \/ Answer(x) \/ Fail(x, TRUE) \/ Fail(x, FALSE)
    \/ \E r \in Req : schedule(r)
    \/ \E r \in Req, good \in BOOLEAN : Done(r, good)
    \/ \E n \in [top : Block, pool : SUBSET Tx] : Change(n)

Spec == Init /\ [][Next]_vars
\* The thread runs, the daemon answers or the connection fails, and whoever waits for the lock
\* gets it in turn.
FairSpec ==
    /\ Spec /\ WF_vars(Start) /\ WF_vars(Pull) /\ WF_vars(Pulled)
    /\ \A x \in Client : SF_vars(Begin(x)) /\ WF_vars(Answer(x))
    /\ \A r \in Req : WF_vars(\E good \in BOOLEAN : Done(r, good))

-----------------------------------------------------------------------------
\* The mutex of HttpClient is held while its caller waits for the network, so a second context
\* of the thread that entered request would block the thread, and the first with it.
OneInside == \A x, y \in inside : x = y

\* The pool the proxy knows is the daemon's at some moment when the daemon's top block was the
\* one the proxy had announced: never a mixture of two pools, nor that of another chain.
PoolOfTop ==
    proxy'.txs # proxy.txs /\ proxy'.state = proxy.state =>
        /\ proxy'.txs = answer["pull"].node.pool
        /\ proxy'.top = answer["pull"].node.top

\* Every request is called back, whatever fails and even after shutdown.
RequestsAnswered == \A r \in Req : req[r].at = "spawned" ~> req[r].at = "done"

\* Once the thread has begun, and the daemon changes and fails no more, the proxy comes to know
\* the daemon's chain, its pool and that it is connected, and stays so, shut down or not.
Synced == proxy.top = node.top /\ proxy.txs = node.pool /\ proxy.connected
=============================================================================
