---------------------------- MODULE NetworkProofs ----------------------------
(***************************************************************************)
(* Proofs about what a node tells others: the copy of a daemon's pool that *)
(* a wallet has (Proxy, an instance of NodeRpcProxy), and how many peers   *)
(* there are (Handler, an instance of PeerHeights).  For every set of      *)
(* blocks, transactions, requests and connections.                         *)
(***************************************************************************)
EXTENDS Integers, FiniteSets, FiniteSetTheorems, TLAPS

-----------------------------------------------------------------------------
(* NodeRpcProxy: its constants and variables. *)
CONSTANTS Block, Tx, Req, Kind, MaxChanges, MaxFailures, EarlyShutdown, None
VARIABLES node, proxy, worker, step, lock, inside, answer, req, told, left, asserted

Proxy == INSTANCE NodeRpcProxy

Busy(x) == answer[x].state # "none"

NodeState == [top : Block, pool : SUBSET Tx]
ProxyKnows == [top : Block \cup {None}, txs : SUBSET Tx]
ProxyState == [state : {"NOT_INITIALIZED", "INITIALIZING", "INITIALIZED"}, top : Block \cup {None},
               txs : SUBSET Tx, connected : BOOLEAN, http : BOOLEAN]
AnswerState == [asked : {None} \cup ProxyKnows, state : {"none", "sent", "back"}, ok : BOOLEAN,
                http : BOOLEAN, node : {None} \cup NodeState]

\* The shape of what the pulling thread and the requests read and write.
ProxyType ==
    /\ node \in NodeState
    /\ proxy \in ProxyState
    /\ worker \in {"none", "start", "init", "fee", "pull", "sleep"}
    /\ step \in {"header", "info", "pool"}
    /\ answer \in [Proxy!Client -> AnswerState]
    /\ \A x \in Proxy!Client : answer[x].ok => answer[x].node \in NodeState

\* Whoever has a command under way holds the lock, and nobody else is in the client.
LockInv ==
    /\ \A x \in Proxy!Client : Busy(x) => lock = x
    /\ inside \subseteq {x \in Proxy!Client : Busy(x)}

\* While a command of updateNodeStatus is under way nothing else changes what the proxy
\* knows, so what the daemon was told to compare with is still what the proxy knows.
AskedInv ==
    Busy("pull") =>
        /\ worker \notin {"none", "start"}
        /\ answer["pull"].asked = [top |-> proxy.top, txs |-> proxy.txs]

ProxyInv == ProxyType /\ LockInv /\ AskedInv

\* The names of the contexts differ, and None is not one of them.
NamesDiffer == "pull" \notin Req /\ None \notin Proxy!Client

-----------------------------------------------------------------------------
\* The proxy starts knowing nothing, with nobody in the client.
LEMMA ProxyInit == Proxy!Init => ProxyInv
  <1> SUFFICES ASSUME Proxy!Init PROVE ProxyInv
    BY Zenon
  <1>1. ProxyType
    BY Zenon DEF Proxy!Init, ProxyType, NodeState, ProxyState, AnswerState, Proxy!No
  <1>2. \A x \in Proxy!Client : ~Busy(x)
    BY Zenon DEF Proxy!Init, Busy, Proxy!No
  <1>3. LockInv /\ AskedInv
    BY Zenon, <1>2 DEF LockInv, AskedInv, Proxy!Init, Proxy!Client
  <1> QED
    BY Zenon, <1>1, <1>3 DEF ProxyInv

\* A context that begins a command has found the lock free, so no other has one under way.
LEMMA BeginKeeps ==
    ASSUME NamesDiffer, ProxyInv, NEW x \in Proxy!Client, Proxy!Begin(x)
    PROVE  ProxyInv'
  <1> DEFINE a == [Proxy!No EXCEPT !.state = "sent", !.asked = [top |-> proxy.top, txs |-> proxy.txs]]
  <1>1. /\ answer' = [answer EXCEPT ![x] = a] /\ lock = None /\ lock' = x /\ inside' = inside \cup {x}
        /\ UNCHANGED <<node, proxy, worker, step>> /\ Proxy!Wants(x)
    BY Zenon DEF Proxy!Begin, Proxy!EventLock
  <1> DEFINE learnt == [top |-> proxy.top, txs |-> proxy.txs]
  <1>2. learnt \in ProxyKnows
    BY Zenon DEF ProxyKnows, ProxyInv, ProxyType, ProxyState
  <1>3. a \in AnswerState /\ a.asked = learnt /\ a.state = "sent" /\ ~a.ok
    BY Zenon, <1>2 DEF AnswerState, Proxy!No
  <1> HIDE DEF a, learnt
  <1>4. ProxyType'
    BY Zenon, <1>1, <1>3 DEF ProxyInv, ProxyType
  <1>5. \A y \in Proxy!Client : ~Busy(y)
    BY Zenon, <1>1 DEF ProxyInv, LockInv, NamesDiffer
  <1>6. \A y \in Proxy!Client : Busy(y)' <=> y = x
    BY Zenon, <1>1, <1>3, <1>5 DEF Busy, ProxyInv, ProxyType
  <1>7. LockInv'
    BY Zenon, <1>1, <1>5, <1>6 DEF LockInv, ProxyInv
  <1>8. AskedInv'
    <2> SUFFICES ASSUME Busy("pull")' PROVE AskedInv'
      BY Zenon DEF AskedInv
    <2>1. x = "pull"
      BY Zenon, <1>6 DEF Proxy!Client
    <2>2. worker \in {"init", "fee", "pull"}
      BY Zenon, <1>1, <2>1 DEF Proxy!Wants
    <2>3. answer'["pull"] = a
      BY Zenon, <1>1, <2>1 DEF ProxyInv, ProxyType
    <2> QED
      BY Zenon, <1>1, <1>3, <2>2, <2>3 DEF AskedInv, learnt
  <1> QED
    BY Zenon, <1>4, <1>7, <1>8 DEF ProxyInv

\* An answer or a failure changes nothing but the answer of its own context.
LEMMA AnswerKeeps ==
    ASSUME ProxyInv, NEW x \in Proxy!Client, Proxy!Answer(x) \/ Proxy!Fail(x, TRUE) \/ Proxy!Fail(x, FALSE)
    PROVE  ProxyInv'
  <1>1. UNCHANGED <<node, proxy, worker, step, lock, inside>> /\ answer[x].state = "sent"
    BY Zenon DEF Proxy!Answer, Proxy!Fail
  <1>2. PICK ok \in BOOLEAN, http \in BOOLEAN, n \in {answer[x].node, node} :
          /\ answer' = [answer EXCEPT ![x] = [@ EXCEPT !.state = "back", !.ok = ok, !.http = http, !.node = n]]
          /\ ok => n \in NodeState
    <2>1. CASE Proxy!Answer(x)
      BY Zenon, <2>1 DEF Proxy!Answer, ProxyInv, ProxyType, AnswerState
    <2>2. CASE Proxy!Fail(x, TRUE) \/ Proxy!Fail(x, FALSE)
      <3>1. PICK h \in BOOLEAN : answer' = [answer EXCEPT ![x].state = "back", ![x].http = h]
        BY Zenon, <2>2 DEF Proxy!Fail
      <3>2. answer[x] \in AnswerState /\ answer[x].ok \in BOOLEAN
        BY Zenon DEF ProxyInv, ProxyType, AnswerState
      <3>3. answer[x].ok => answer[x].node \in NodeState
        BY Zenon DEF ProxyInv, ProxyType
      <3>4. [answer[x] EXCEPT !.state = "back", !.http = h]
              = [answer[x] EXCEPT !.state = "back", !.ok = answer[x].ok, !.http = h, !.node = answer[x].node]
        BY Zenon, <3>2 DEF AnswerState
      <3>5. answer' = [answer EXCEPT ![x] = [@ EXCEPT !.state = "back", !.ok = answer[x].ok, !.http = h,
                                                      !.node = answer[x].node]]
        BY Zenon, <3>1, <3>4
      <3>6. answer[x].node \in {answer[x].node, node}
        BY Zenon
      <3> QED
        BY Zenon, <3>2, <3>3, <3>5, <3>6
    <2> QED
      BY Zenon, <2>1, <2>2
  <1> DEFINE a == [answer[x] EXCEPT !.state = "back", !.ok = ok, !.http = http, !.node = n]
  <1>3. answer[x] \in AnswerState /\ n \in {None} \cup NodeState
    BY Zenon, <1>2 DEF ProxyInv, ProxyType, AnswerState
  <1>4. a \in AnswerState /\ a.state = "back" /\ a.ok = ok /\ a.node = n /\ a.asked = answer[x].asked
    BY Zenon, <1>3 DEF AnswerState
  <1>5. answer' = [answer EXCEPT ![x] = a]
    BY Zenon, <1>2
  <1> HIDE DEF a
  <1>6. ProxyType'
    BY Zenon, <1>1, <1>2, <1>4, <1>5 DEF ProxyInv, ProxyType
  <1>7. \A y \in Proxy!Client : (Busy(y)' <=> Busy(y)) /\ answer'[y].asked = answer[y].asked
    BY Zenon, <1>1, <1>4, <1>5 DEF Busy, ProxyInv, ProxyType
  <1>8. LockInv'
    BY Zenon, <1>1, <1>7 DEF LockInv, ProxyInv
  <1>9. AskedInv'
    BY Zenon, <1>1, <1>7 DEF AskedInv, ProxyInv, Proxy!Client
  <1> QED
    BY Zenon, <1>6, <1>8, <1>9 DEF ProxyInv

\* A context that leaves the client leaves nobody there, and no command is under way.
LEMMA LeaveKeeps ==
    ASSUME ProxyInv, NEW x \in Proxy!Client, answer[x].state = "back", Proxy!Leave(x)
    PROVE  /\ LockInv'
           /\ answer' \in [Proxy!Client -> AnswerState]
           /\ \A y \in Proxy!Client : ~Busy(y)' /\ (answer'[y].ok => answer'[y].node \in NodeState)
  <1>1. answer' = [answer EXCEPT ![x] = Proxy!No] /\ inside' = inside \ {x}
    BY Zenon DEF Proxy!Leave
  <1>2. Proxy!No \in AnswerState /\ Proxy!No.state = "none" /\ ~Proxy!No.ok
    BY Zenon DEF Proxy!No, AnswerState
  <1>3. lock = x
    BY Zenon DEF ProxyInv, LockInv, Busy
  <1>4. \A y \in Proxy!Client : y # x => ~Busy(y)
    BY Zenon, <1>3 DEF ProxyInv, LockInv
  <1>5. answer' \in [Proxy!Client -> AnswerState]
    BY Zenon, <1>1, <1>2 DEF ProxyInv, ProxyType
  <1>6. \A y \in Proxy!Client : ~Busy(y)'
    BY Zenon, <1>1, <1>2, <1>4 DEF Busy, ProxyInv, ProxyType
  <1>7. \A y \in Proxy!Client : answer'[y].ok => answer'[y].node \in NodeState
    BY Zenon, <1>1, <1>2 DEF ProxyInv, ProxyType
  <1>8. inside' = {}
    BY Zenon, <1>1, <1>4 DEF ProxyInv, LockInv
  <1> QED
    BY Zenon, <1>5, <1>6, <1>7, <1>8 DEF LockInv

\* What the proxy does with the header, the info and the pool keeps its shape.
LEMMA PulledProxy ==
    ASSUME NEW p \in ProxyState, NEW a \in AnswerState, a.ok => a.node \in NodeState
    PROVE  Proxy!Header(p, a) \in ProxyState /\ Proxy!Info(p, a) \in ProxyState /\ Proxy!Pool(p, a) \in ProxyState
  <1>1. Proxy!Header(p, a) \in ProxyState
    BY Zenon DEF Proxy!Header, ProxyState, NodeState
  <1>2. Proxy!Info(p, a) \in ProxyState
    BY Zenon DEF Proxy!Info, ProxyState
  <1>3. Proxy!Pool(p, a) \in ProxyState
    BY Zenon DEF Proxy!Pool, Proxy!updatePoolState, Proxy!Added, ProxyState, NodeState
  <1> QED
    BY Zenon, <1>1, <1>2, <1>3

\* A command of updateNodeStatus comes back.
LEMMA PulledKeeps == ProxyInv /\ Proxy!Pulled => ProxyInv'
  <1> SUFFICES ASSUME ProxyInv, Proxy!Pulled PROVE ProxyInv'
    BY Zenon
  <1> DEFINE a == answer["pull"]
             p == [proxy EXCEPT !.http = a.http]
  <1>1. "pull" \in Proxy!Client
    BY Zenon DEF Proxy!Client
  <1>2. a \in AnswerState /\ p \in ProxyState /\ (a.ok => a.node \in NodeState) /\ a.state = "back"
    BY Zenon, <1>1 DEF Proxy!Pulled, ProxyInv, ProxyType, ProxyState, AnswerState
  <1>3. Proxy!Header(p, a) \in ProxyState /\ Proxy!Info(p, a) \in ProxyState /\ Proxy!Pool(p, a) \in ProxyState
    BY Zenon, <1>2, PulledProxy
  <1>4. /\ LockInv' /\ answer' \in [Proxy!Client -> AnswerState]
        /\ \A y \in Proxy!Client : ~Busy(y)' /\ (answer'[y].ok => answer'[y].node \in NodeState)
    BY Zenon, <1>1, LeaveKeeps DEF Proxy!Pulled
  <1>5. proxy' \in ProxyState
    <2>1. proxy' \in {p, Proxy!Header(p, a), Proxy!Info(p, a), Proxy!Pool(p, a)}
      BY Zenon DEF Proxy!Pulled, ProxyInv, ProxyType
    <2> QED
      BY Zenon, <1>2, <1>3, <2>1
  <1>6. /\ worker' \in {"none", "start", "init", "fee", "pull", "sleep"} /\ step' \in {"header", "info", "pool"}
        /\ node' = node
    BY Zenon DEF Proxy!Pulled, ProxyInv, ProxyType
  <1>7. ProxyType'
    BY Zenon, <1>4, <1>5, <1>6 DEF ProxyInv, ProxyType
  <1>8. AskedInv'
    BY Zenon, <1>1, <1>4 DEF AskedInv
  <1> QED
    BY Zenon, <1>4, <1>7, <1>8 DEF ProxyInv

\* A request comes back: it tells the proxy no more than whether there is a connection.
LEMMA DoneKeeps ==
    ASSUME ProxyInv, NEW r \in Req, NEW good \in BOOLEAN, Proxy!Done(r, good)
    PROVE  ProxyInv'
  <1>1. r \in Proxy!Client /\ "pull" \in Proxy!Client
    BY Zenon DEF Proxy!Client
  <1>2. /\ LockInv' /\ answer' \in [Proxy!Client -> AnswerState]
        /\ \A y \in Proxy!Client : ~Busy(y)' /\ (answer'[y].ok => answer'[y].node \in NodeState)
    BY Zenon, <1>1, LeaveKeeps DEF Proxy!Done
  <1>3. answer[r] \in AnswerState
    BY Zenon, <1>1 DEF ProxyInv, ProxyType
  <1>4. proxy' \in ProxyState
    BY Zenon, <1>3 DEF Proxy!Done, ProxyInv, ProxyType, ProxyState, AnswerState
  <1>5. ProxyType'
    BY Zenon, <1>2, <1>4 DEF ProxyInv, ProxyType, Proxy!Done
  <1> QED
    BY Zenon, <1>1, <1>2, <1>5 DEF ProxyInv, AskedInv

\* The owner's calls, the timers and the daemon leave the commands under way alone.
LEMMA OthersKeep ==
    ASSUME ProxyInv,
           \/ Proxy!init \/ Proxy!shutdown \/ Proxy!Start \/ Proxy!InitTimeout \/ Proxy!Pull
           \/ \E r \in Req : Proxy!schedule(r)
           \/ \E n \in [top : Block, pool : SUBSET Tx] : Proxy!Change(n)
    PROVE  ProxyInv'
  <1>1. UNCHANGED <<lock, inside, answer>>
    BY Zenon DEF Proxy!init, Proxy!shutdown, Proxy!Start, Proxy!InitTimeout, Proxy!Pull, Proxy!schedule, Proxy!Change
  <1>2. LockInv'
    BY Zenon, <1>1 DEF LockInv, Busy, ProxyInv
  <1>3. ProxyType'
    <2>1. node' \in NodeState
      BY Zenon DEF Proxy!init, Proxy!shutdown, Proxy!Start, Proxy!InitTimeout, Proxy!Pull, Proxy!schedule, Proxy!Change, ProxyInv, ProxyType, NodeState
    <2>2. proxy' \in ProxyState
      BY Zenon DEF Proxy!init, Proxy!shutdown, Proxy!Start, Proxy!InitTimeout, Proxy!Pull, Proxy!schedule, Proxy!Change, ProxyInv, ProxyType, ProxyState
    <2>3. worker' \in {"none", "start", "init", "fee", "pull", "sleep"} /\ step' \in {"header", "info", "pool"}
      BY Zenon DEF Proxy!init, Proxy!shutdown, Proxy!Start, Proxy!InitTimeout, Proxy!Pull, Proxy!schedule, Proxy!Change, ProxyInv, ProxyType
    <2> QED
      BY Zenon, <1>1, <2>1, <2>2, <2>3 DEF ProxyInv, ProxyType
  <1>4. AskedInv'
    <2> SUFFICES ASSUME Busy("pull") PROVE AskedInv'
      BY Zenon, <1>1 DEF AskedInv, Busy
    <2>1. worker \notin {"none", "start"} /\ answer["pull"].asked = [top |-> proxy.top, txs |-> proxy.txs]
      BY Zenon DEF ProxyInv, AskedInv
    <2>2. worker' \notin {"none", "start"} /\ proxy'.top = proxy.top /\ proxy'.txs = proxy.txs
      BY Zenon, <2>1 DEF Proxy!init, Proxy!shutdown, Proxy!Start, Proxy!InitTimeout, Proxy!Pull, Proxy!schedule, Proxy!Change, ProxyInv, ProxyType, ProxyState
    <2> QED
      BY Zenon, <1>1, <2>1, <2>2 DEF AskedInv
  <1> QED
    BY Zenon, <1>2, <1>3, <1>4 DEF ProxyInv

\* Every step keeps the invariant.
LEMMA StepKeeps ==
    ASSUME NamesDiffer, ProxyInv, [Proxy!Next]_(Proxy!vars)
    PROVE  ProxyInv'
  <1>1. CASE UNCHANGED Proxy!vars
    BY Zenon, <1>1 DEF Proxy!vars, ProxyInv, ProxyType, LockInv, AskedInv, Busy
  <1>2. CASE Proxy!Next
    BY Zenon, <1>2, BeginKeeps, AnswerKeeps, PulledKeeps, DoneKeeps, OthersKeep DEF Proxy!Next
  <1> QED
    BY Zenon, <1>1, <1>2

\* What the pool command brings replaces what the proxy knew by the daemon's pool, and only
\* when the daemon had the top block the proxy had announced.
LEMMA ProxyPoolStep ==
    ASSUME ProxyInv, [Proxy!Next]_(Proxy!vars)
    PROVE  Proxy!PoolOfTop
  <1> SUFFICES ASSUME proxy'.txs # proxy.txs, proxy'.state = proxy.state
               PROVE  /\ proxy'.txs = answer["pull"].node.pool
                      /\ proxy'.top = answer["pull"].node.top
    BY Zenon DEF Proxy!PoolOfTop
  <1> DEFINE a == answer["pull"]
             p == [proxy EXCEPT !.http = a.http]
  <1>1. proxy \in ProxyState /\ "pull" \in Proxy!Client /\ a \in AnswerState
    BY Zenon DEF ProxyInv, ProxyType, Proxy!Client
  <1>2. ~Proxy!init
    BY Zenon, <1>1 DEF Proxy!init, ProxyState
  <1>3. \A r \in Req, good \in BOOLEAN : ~Proxy!Done(r, good)
    BY Zenon, <1>1 DEF Proxy!Done, ProxyState
  <1>4. ~Proxy!shutdown /\ ~Proxy!Start
    BY Zenon, <1>1 DEF Proxy!shutdown, Proxy!Start, ProxyState
  <1>5. Proxy!Pulled
    BY Zenon, <1>2, <1>3, <1>4 DEF Proxy!Next, Proxy!vars, Proxy!InitTimeout, Proxy!Pull, Proxy!Begin, Proxy!Answer, Proxy!Fail, Proxy!schedule, Proxy!Change
  <1>6. p \in ProxyState /\ p.txs = proxy.txs /\ p.top = proxy.top
    BY Zenon, <1>1 DEF ProxyState, AnswerState
  <1>7. Proxy!Header(p, a).txs = proxy.txs /\ Proxy!Info(p, a).txs = proxy.txs
    BY Zenon, <1>6 DEF Proxy!Header, Proxy!Info, ProxyState
  <1>8. proxy' \in {p, Proxy!Header(p, a), Proxy!Info(p, a), Proxy!Pool(p, a)} /\ a.state = "back"
    BY Zenon, <1>5 DEF Proxy!Pulled, ProxyInv, ProxyType
  <1>9. proxy' = Proxy!Pool(p, a)
    BY Zenon, <1>6, <1>7, <1>8
  <1>10. a.ok /\ Proxy!isTailBlockActual(a) /\ proxy' = Proxy!updatePoolState(p, a)
    BY Zenon, <1>6, <1>9 DEF Proxy!Pool
  <1>11. a.node \in NodeState /\ a.asked = [top |-> proxy.top, txs |-> proxy.txs]
    BY Zenon, <1>1, <1>8, <1>10 DEF ProxyInv, ProxyType, AskedInv, Busy
  <1>12. proxy'.top = a.node.top
    BY <1>6, <1>10, <1>11 DEF Proxy!updatePoolState, Proxy!isTailBlockActual, ProxyState
  <1>13. proxy'.txs = (proxy.txs \ Proxy!Deleted(a)) \cup Proxy!Added(a)
    BY Zenon, <1>6, <1>10 DEF Proxy!updatePoolState, ProxyState
  <1>14. Proxy!Deleted(a) = proxy.txs \ a.node.pool /\ Proxy!Added(a) = a.node.pool \ proxy.txs
    BY <1>11 DEF Proxy!Deleted, Proxy!Added
  <1>15. proxy'.txs = a.node.pool
    BY Zenon, <1>13, <1>14
  <1> QED
    BY Zenon, <1>12, <1>15

\* At most one context is in the client: whoever is there holds the lock.
LEMMA InvOneInside == ProxyInv => Proxy!OneInside
  <1> SUFFICES ASSUME ProxyInv PROVE Proxy!OneInside
    BY Zenon
  <1>1. inside \subseteq {lock}
    BY Zenon DEF ProxyInv, LockInv
  <1> QED
    BY Zenon, <1>1 DEF Proxy!OneInside

\* NodeRpcProxy.cpp, EventLock around m_httpClient: however many requests wait, and whatever
\* fails, no two contexts of the thread are in HttpClient::request.
THEOREM OneInClient ==
    ASSUME NamesDiffer
    PROVE  Proxy!Spec => []Proxy!OneInside
  <1>1. ProxyInv /\ [Proxy!Next]_(Proxy!vars) => ProxyInv'
    BY Zenon, StepKeeps
  <1> QED
    BY <1>1, ProxyInit, InvOneInside, PTL DEF Proxy!Spec

\* NodeRpcProxy::updatePoolStatus: the pool the proxy comes to know is the pool the daemon had
\* at one moment, with the top block the proxy had announced, whatever the daemon and the other
\* requests do between the asking and the answer.
THEOREM PoolIsOfTop ==
    ASSUME NamesDiffer
    PROVE  Proxy!Spec => [][Proxy!PoolOfTop]_(Proxy!vars)
  <1>1. ProxyInv /\ [Proxy!Next]_(Proxy!vars) => ProxyInv'
    BY Zenon, StepKeeps
  <1>2. ProxyInv /\ [Proxy!Next]_(Proxy!vars) => [Proxy!PoolOfTop]_(Proxy!vars)
    BY Zenon, ProxyPoolStep
  <1> QED
    BY <1>1, <1>2, ProxyInit, PTL DEF Proxy!Spec

-----------------------------------------------------------------------------
(* PeerHeights: its constants and variables. *)
CONSTANTS Conn, MaxHeight, CountLimit, Stranger, Self
VARIABLES ctx, height, peersCount, observedHeight, blockchainHeight

Handler == INSTANCE PeerHeights

\* What is taken for granted of the constants.
PeerAssumptions ==
    /\ IsFiniteSet(Conn) /\ Self \subseteq Conn /\ Stranger \subseteq Conn
    /\ CountLimit \in Nat \ {0} /\ MaxHeight \in Nat

State == {"befor_handshake", "pool_sync_required", "sync_required", "synchronizing", "normal", "idle", "shutdown"}
Context == [listed : BOOLEAN, used : BOOLEAN, state : State, remote : Nat, last : Nat]

\* The contexts a connection can have: a connection to itself is never listed, and a stranger
\* gets no further than to be turned away.
ContextOf(c) ==
    {k \in Context : /\ k.listed => k.used /\ c \notin Self
                     /\ ~k.used => k.state = "befor_handshake"
                     /\ c \in Stranger => k.state \in {"befor_handshake", "shutdown"}
                     /\ c \in Stranger /\ c \in Self => ~k.used}

\* The three sets of PeersCounted, and how a context k puts c into them.
Peers == {c \in Handler!Listed \ Stranger : ctx[c].state # "befor_handshake"}
Refused == {c \in Stranger : ctx[c].state = "shutdown" /\ ~ctx[c].listed}
Lost == {c \in Self : ctx[c].used /\ ~ctx[c].listed}
IsPeer(c, k) == k.listed /\ c \notin Stranger /\ k.state # "befor_handshake"
IsRefused(c, k) == c \in Stranger /\ k.state = "shutdown" /\ ~k.listed
IsLost(c, k) == c \in Self /\ k.used /\ ~k.listed
One(b) == IF b THEN 1 ELSE 0
Adds(c, k) == One(IsPeer(c, k)) + One(IsLost(c, k)) - One(IsRefused(c, k))

\* The inductive invariant.
PeerInv ==
    /\ ctx \in [Conn -> Context] /\ \A c \in Conn : ctx[c] \in ContextOf(c)
    /\ Handler!PeersCounted

-----------------------------------------------------------------------------
\* The instance counts as this module does.
LEMMA CountsAlike == \A S : Handler!Cardinality(S) = Cardinality(S)
  BY DEF Handler!Cardinality, Cardinality

\* A remainder is found from any quotient.
LEMMA RemainderIs ==
    ASSUME NEW r \in Int, NEW s \in Int, NEW L \in Nat \ {0}, NEW q \in Int, r \in 0 .. L - 1, s = L * q + r
    PROVE  s % L = r
  OBVIOUS

\* An unsigned counter that wraps counts modulo its limit, upwards ...
LEMMA CountsUp ==
    ASSUME NEW n \in Int, NEW L \in Nat \ {0}
    PROVE  ((n % L) + 1) % L = (n + 1) % L
<1> DEFINE m == n % L
           q == n \div L
<1>1. m \in 0 .. L - 1 /\ q \in Int /\ n = (L * q) + m
  OBVIOUS
<1> HIDE DEF m, q
<1>2. CASE m + 1 < L
  <2>1. (n + 1) % L = m + 1
    BY <1>1, <1>2, RemainderIs
  <2>2. (m + 1) % L = m + 1
    <3>1. m + 1 = (L * 0) + (m + 1) /\ m + 1 \in 0 .. L - 1 /\ m + 1 \in Int /\ 0 \in Int
      BY <1>1, <1>2
    <3> QED BY <3>1, RemainderIs
  <2> QED BY <2>1, <2>2 DEF m
<1>3. CASE m + 1 = L
  <2>1. n + 1 = (L * (q + 1)) + 0 /\ q + 1 \in Int /\ 0 \in 0 .. L - 1 /\ 0 \in Int /\ n + 1 \in Int
    BY <1>1, <1>3
  <2>2. (n + 1) % L = 0
    BY ZenonT(60), <2>1, RemainderIs
  <2>3. (m + 1) % L = 0
    <3>1. m + 1 = (L * 1) + 0
      BY <1>1, <1>3
    <3> QED BY <1>1, <3>1, RemainderIs
  <2> QED BY <2>2, <2>3 DEF m
<1> QED BY <1>1, <1>2, <1>3

\* ... and downwards.
LEMMA CountsDown ==
    ASSUME NEW n \in Int, NEW L \in Nat \ {0}
    PROVE  ((n % L) - 1) % L = (n - 1) % L
<1> DEFINE m == n % L
           q == n \div L
<1>1. m \in 0 .. L - 1 /\ q \in Int /\ n = (L * q) + m
  OBVIOUS
<1> HIDE DEF m, q
<1>2. CASE m > 0
  <2>1. (n - 1) % L = m - 1
    BY <1>1, <1>2, RemainderIs
  <2>2. (m - 1) % L = m - 1
    <3>1. m - 1 = (L * 0) + (m - 1) /\ m - 1 \in 0 .. L - 1 /\ m - 1 \in Int /\ 0 \in Int
      BY <1>1, <1>2
    <3> QED BY <3>1, RemainderIs
  <2> QED BY <2>1, <2>2 DEF m
<1>3. CASE m = 0
  <2>1. L * (q - 1) = (L * q) - L
    BY <1>1
  <2>2. q - 1 \in Int /\ L - 1 \in 0 .. L - 1 /\ L - 1 \in Int /\ n - 1 \in Int
    BY <1>1
  <2>3. n - 1 = (L * (q - 1)) + (L - 1)
    BY <1>1, <1>3, <2>1
  <2>4. (n - 1) % L = L - 1
    BY ZenonT(60), <2>2, <2>3, RemainderIs
  <2>5. (m - 1) % L = L - 1
    <3>1. m - 1 = (L * (-1)) + (L - 1) /\ -1 \in Int /\ L - 1 \in 0 .. L - 1 /\ m - 1 \in Int /\ L - 1 \in Int
      BY <1>1, <1>3
    <3> QED BY <3>1, RemainderIs
  <2> QED BY <2>4, <2>5 DEF m
<1> QED BY <1>1, <1>2, <1>3

\* Two finite sets that differ at most in c differ in size by c alone.
LEMMA SizeDiffers ==
    ASSUME NEW S, NEW T, IsFiniteSet(S), IsFiniteSet(T), NEW c, S \ {c} = T \ {c}
    PROVE  /\ Cardinality(S) \in Int /\ Cardinality(T) \in Int
           /\ Cardinality(T) = Cardinality(S) + One(c \in T) - One(c \in S)
<1>1. Cardinality(S) \in Nat /\ Cardinality(T) \in Nat
  BY FS_CardinalityType
<1>2. CASE c \in S <=> c \in T
  <2>1. S = T
    BY <1>2
  <2> QED BY <1>1, <1>2, <2>1 DEF One
<1>3. CASE c \in S /\ c \notin T
  <2>1. T = S \ {c}
    BY Zenon, <1>3
  <2>2. Cardinality(T) = Cardinality(S) - 1
    BY <1>3, <2>1, FS_RemoveElement
  <2> QED BY <1>1, <1>3, <2>2 DEF One
<1>4. CASE c \notin S /\ c \in T
  <2>1. T = S \cup {c}
    BY Zenon, <1>4
  <2>2. Cardinality(T) = Cardinality(S) + 1
    BY <1>4, <2>1, FS_AddElement
  <2> QED BY <1>1, <1>4, <2>2 DEF One
<1> QED BY Zenon, <1>2, <1>3, <1>4

-----------------------------------------------------------------------------
\* The sets of PeersCounted are finite, and c is in them as its context says.
LEMMA SetsOfContexts ==
    ASSUME PeerAssumptions, NEW c \in Conn
    PROVE  /\ IsFiniteSet(Peers) /\ IsFiniteSet(Refused) /\ IsFiniteSet(Lost)
           /\ c \in Peers <=> IsPeer(c, ctx[c])
           /\ c \in Refused <=> IsRefused(c, ctx[c])
           /\ c \in Lost <=> IsLost(c, ctx[c])
<1>1. Peers \subseteq Conn /\ Refused \subseteq Conn /\ Lost \subseteq Conn
  BY DEF PeerAssumptions, Peers, Handler!Listed, Refused, Lost
<1>2. IsFiniteSet(Peers) /\ IsFiniteSet(Refused) /\ IsFiniteSet(Lost)
  BY Zenon, <1>1, FS_Subset DEF PeerAssumptions
<1> QED BY Zenon, <1>2 DEF Peers, Handler!Listed, Refused, Lost, IsPeer, IsRefused, IsLost

\* The same for the sets after a step.
LEMMA SetsOfContextsNext ==
    ASSUME PeerAssumptions, NEW c \in Conn
    PROVE  /\ IsFiniteSet(Peers') /\ IsFiniteSet(Refused') /\ IsFiniteSet(Lost')
           /\ c \in Peers' <=> IsPeer(c, ctx'[c])
           /\ c \in Refused' <=> IsRefused(c, ctx'[c])
           /\ c \in Lost' <=> IsLost(c, ctx'[c])
<1>1. Peers' \subseteq Conn /\ Refused' \subseteq Conn /\ Lost' \subseteq Conn
  BY DEF PeerAssumptions, Peers, Handler!Listed, Refused, Lost
<1>2. IsFiniteSet(Peers') /\ IsFiniteSet(Refused') /\ IsFiniteSet(Lost')
  BY Zenon, <1>1, FS_Subset DEF PeerAssumptions
<1> QED BY Zenon, <1>2 DEF Peers, Handler!Listed, Refused, Lost, IsPeer, IsRefused, IsLost

\* m_peersCount is kept by a step that gives one connection another context and changes the
\* count by what that context adds more than the one before.
LEMMA OneChanges ==
    ASSUME PeerAssumptions, PeerInv, NEW c \in Conn, NEW k \in ContextOf(c),
           ctx' = [ctx EXCEPT ![c] = k],
           NEW d \in {-1, 0, 1}, Adds(c, k) = Adds(c, ctx[c]) + d,
           peersCount' = IF d = 0 THEN peersCount ELSE (peersCount + d) % CountLimit
    PROVE  PeerInv'
<1>1. ctx \in [Conn -> Context] /\ k \in Context
  BY Zenon DEF PeerInv, ContextOf
<1>2. ctx'[c] = k /\ \A x \in Conn \ {c} : ctx'[x] = ctx[x]
  BY Zenon, <1>1
<1>3. ctx' \in [Conn -> Context] /\ \A x \in Conn : ctx'[x] \in ContextOf(x)
  <2>1. ctx' \in [Conn -> Context]
    BY Zenon, <1>1
  <2> QED BY Zenon, <1>2, <2>1 DEF PeerInv
<1>4. Peers \ {c} = Peers' \ {c}
  BY <1>2 DEF Peers, Handler!Listed
<1>5. Refused \ {c} = Refused' \ {c}
  BY <1>2 DEF Refused, PeerAssumptions
<1>6. Lost \ {c} = Lost' \ {c}
  BY <1>2 DEF Lost, PeerAssumptions
<1> DEFINE p == Cardinality(Peers)
           r == Cardinality(Refused)
           l == Cardinality(Lost)
           n == p + l - r
<1>7. /\ p \in Int /\ p' \in Int
      /\ p' = p + One(IsPeer(c, k)) - One(IsPeer(c, ctx[c]))
  <2>1. IsFiniteSet(Peers) /\ IsFiniteSet(Peers')
    BY Zenon, SetsOfContexts, SetsOfContextsNext
  <2>2. One(c \in Peers) = One(IsPeer(c, ctx[c])) /\ One(c \in Peers') = One(IsPeer(c, k))
    <3>1. (c \in Peers <=> IsPeer(c, ctx[c])) /\ (c \in Peers' <=> IsPeer(c, k))
      BY Zenon, <1>2, SetsOfContexts, SetsOfContextsNext
    <3> QED BY Zenon, <3>1 DEF One
  <2>3. /\ Cardinality(Peers) \in Int /\ Cardinality(Peers') \in Int
        /\ Cardinality(Peers') = Cardinality(Peers) + One(c \in Peers') - One(c \in Peers)
    BY ZenonT(30), <1>4, <2>1, SizeDiffers
  <2> QED BY Zenon, <2>2, <2>3
<1>8. /\ r \in Int /\ r' \in Int
      /\ r' = r + One(IsRefused(c, k)) - One(IsRefused(c, ctx[c]))
  <2>1. IsFiniteSet(Refused) /\ IsFiniteSet(Refused')
    BY Zenon, SetsOfContexts, SetsOfContextsNext
  <2>2. One(c \in Refused) = One(IsRefused(c, ctx[c])) /\ One(c \in Refused') = One(IsRefused(c, k))
    <3>1. (c \in Refused <=> IsRefused(c, ctx[c])) /\ (c \in Refused' <=> IsRefused(c, k))
      BY Zenon, <1>2, SetsOfContexts, SetsOfContextsNext
    <3> QED BY Zenon, <3>1 DEF One
  <2>3. /\ Cardinality(Refused) \in Int /\ Cardinality(Refused') \in Int
        /\ Cardinality(Refused') = Cardinality(Refused) + One(c \in Refused') - One(c \in Refused)
    BY ZenonT(30), <1>5, <2>1, SizeDiffers
  <2> QED BY Zenon, <2>2, <2>3
<1>9. /\ l \in Int /\ l' \in Int
      /\ l' = l + One(IsLost(c, k)) - One(IsLost(c, ctx[c]))
  <2>1. IsFiniteSet(Lost) /\ IsFiniteSet(Lost')
    BY Zenon, SetsOfContexts, SetsOfContextsNext
  <2>2. One(c \in Lost) = One(IsLost(c, ctx[c])) /\ One(c \in Lost') = One(IsLost(c, k))
    <3>1. (c \in Lost <=> IsLost(c, ctx[c])) /\ (c \in Lost' <=> IsLost(c, k))
      BY Zenon, <1>2, SetsOfContexts, SetsOfContextsNext
    <3> QED BY Zenon, <3>1 DEF One
  <2>3. /\ Cardinality(Lost) \in Int /\ Cardinality(Lost') \in Int
        /\ Cardinality(Lost') = Cardinality(Lost) + One(c \in Lost') - One(c \in Lost)
    BY ZenonT(30), <1>6, <2>1, SizeDiffers
  <2> QED BY Zenon, <2>2, <2>3
<1>10. \A b : One(b) \in Int
  BY DEF One
<1> HIDE DEF p, r, l
<1>11. n \in Int /\ n' = n + d
  BY <1>7, <1>8, <1>9, <1>10 DEF Adds
<1> HIDE DEF n
<1>12. peersCount = n % CountLimit
  BY Zenon, CountsAlike DEF PeerInv, Handler!PeersCounted, Peers, Refused, Lost, n, p, l, r
<1>13. peersCount' = n' % CountLimit
  <2>1. CASE d = 0
    BY <1>11, <1>12, <2>1
  <2>2. CASE d = 1
    <3>1. peersCount' = ((n % CountLimit) + 1) % CountLimit /\ n' = n + 1
      BY <1>11, <1>12, <2>2 DEF PeerAssumptions
    <3> QED BY ZenonT(60), <1>11, <3>1, CountsUp DEF PeerAssumptions
  <2>3. CASE d = -1
    <3>1. peersCount' = ((n % CountLimit) - 1) % CountLimit /\ n' = n - 1
      BY <1>11, <1>12, <2>3 DEF PeerAssumptions
    <3> QED BY ZenonT(60), <1>11, <3>1, CountsDown DEF PeerAssumptions
  <2> QED BY <2>1, <2>2, <2>3
<1>14. Handler!PeersCounted'
  BY Zenon, <1>13, CountsAlike DEF Handler!PeersCounted, Peers, Refused, Lost, n, p, l, r
<1> QED BY Zenon, <1>3, <1>14 DEF PeerInv

-----------------------------------------------------------------------------
\* What belongs together in a context of a connection.
LEMMA FieldsOf ==
    ASSUME NEW c, NEW k
    PROVE  k \in ContextOf(c) <=> /\ k \in Context
                                  /\ k.listed => k.used /\ c \notin Self
                                  /\ ~k.used => k.state = "befor_handshake"
                                  /\ c \in Stranger => k.state \in {"befor_handshake", "shutdown"}
                                  /\ c \in Stranger /\ c \in Self => ~k.used
  BY Zenon DEF ContextOf

\* What a context adds to the count, by its fields.
LEMMA AddsByFields ==
    ASSUME NEW c, NEW k \in ContextOf(c)
    PROVE  Adds(c, k) = IF c \in Stranger THEN (IF k.state = "shutdown" /\ ~k.listed THEN -1 ELSE 0)
                        ELSE IF c \in Self THEN (IF k.used THEN 1 ELSE 0)
                        ELSE IF k.listed /\ k.state # "befor_handshake" THEN 1 ELSE 0
<1>1. /\ k.listed \in BOOLEAN /\ k.used \in BOOLEAN
      /\ k.listed => k.used /\ c \notin Self
      /\ c \in Stranger /\ c \in Self => ~k.used
  BY FieldsOf DEF Context
<1> QED BY <1>1 DEF Adds, One, IsPeer, IsLost, IsRefused

\* acceptLoop lists a connection that has not shaken hands.
LEMMA AcceptKeeps ==
    ASSUME PeerAssumptions, PeerInv, NEW c \in Conn, Handler!Accept(c)
    PROVE  PeerInv'
<1> DEFINE x == ctx[c]
<1>k. PICK k : k = [x EXCEPT !.used = TRUE, !.listed = TRUE]
  OBVIOUS
<1>1. x \in ContextOf(c) /\ x \in Context /\ ~x.used /\ ctx \in [Conn -> Context] /\ c \notin Self
  BY Zenon DEF PeerInv, Handler!Accept
<1>2. ctx' = [ctx EXCEPT ![c] = k] /\ peersCount' = peersCount
  BY ZenonT(60), <1>1, <1>k DEF Handler!Accept
<1>3. k \in Context /\ k.listed /\ k.used /\ k.state = x.state
  BY ZenonT(60), <1>1, <1>k DEF Context
<1>4. x.state = "befor_handshake" /\ ~x.listed
  BY Zenon, <1>1, FieldsOf
<1>5. k \in ContextOf(c)
  BY Zenon, <1>1, <1>3, <1>4, FieldsOf
<1>6. Adds(c, k) = Adds(c, x) + 0
  BY <1>1, <1>3, <1>4, <1>5, AddsByFields
<1> QED BY ZenonT(60), <1>2, <1>5, <1>6, OneChanges

\* A peer that stays one, in whatever state, stays counted.
LEMMA StaysPeer ==
    ASSUME PeerAssumptions, PeerInv, NEW c \in Conn, ctx[c].listed,
           ctx[c].state \notin {"befor_handshake", "shutdown"},
           NEW k \in Context, k.listed = ctx[c].listed, k.used = ctx[c].used, k.state # "befor_handshake",
           ctx' = [ctx EXCEPT ![c] = k], peersCount' = peersCount
    PROVE  PeerInv'
<1>1. ctx[c] \in ContextOf(c)
  BY Zenon DEF PeerInv
<1>2. c \notin Stranger /\ c \notin Self /\ ctx[c].used
  BY Zenon, <1>1, FieldsOf
<1>3. k \in ContextOf(c)
  BY Zenon, <1>2, FieldsOf
<1>4. Adds(c, k) = 1
  <2>1. k.listed
    BY Zenon
  <2> QED BY Zenon, <1>2, <1>3, <2>1, AddsByFields
<1>5. Adds(c, ctx[c]) = 1
  BY Zenon, <1>1, <1>2, AddsByFields
<1>6. Adds(c, k) = Adds(c, ctx[c]) + 0
  BY <1>4, <1>5
<1> QED BY ZenonT(60), <1>3, <1>6, OneChanges

\* The head of the loop of connectionHandler.
LEMMA StartLoopKeeps ==
    ASSUME PeerAssumptions, PeerInv, NEW c \in Conn, Handler!StartLoop(c)
    PROVE  PeerInv'
<1>1. ctx[c] \in Context /\ ctx \in [Conn -> Context]
  BY Zenon DEF PeerInv
<1>2. PICK s \in {"synchronizing", "normal"} : ctx' = [ctx EXCEPT ![c] = [ctx[c] EXCEPT !.state = s]]
  <2>1. \E s \in {"synchronizing", "normal"} : ctx' = [ctx EXCEPT ![c].state = s]
    BY Zenon DEF Handler!StartLoop
  <2>2. PICK s \in {"synchronizing", "normal"} : ctx' = [ctx EXCEPT ![c].state = s]
    BY Zenon, <2>1
  <2>3. ctx' = [ctx EXCEPT ![c] = [ctx[c] EXCEPT !.state = s]]
    BY <1>1, <2>2
  <2> QED BY Zenon, <2>3
<1>k. PICK k : k = [ctx[c] EXCEPT !.state = s]
  BY Zenon
<1>3. k \in Context /\ k.listed = ctx[c].listed /\ k.used = ctx[c].used /\ k.state = s
  <2>1. s \in State
    BY DEF State
  <2> QED BY <1>1, <1>k, <2>1 DEF Context
<1>4. ctx[c].listed /\ ctx[c].state \in Handler!Initial /\ peersCount' = peersCount
  BY Zenon DEF Handler!StartLoop
<1> QED BY ZenonT(60), <1>2, <1>3, <1>4, <1>k, StaysPeer DEF Handler!Initial

\* A peer's height is noted with a command, and its state may change, but not to an earlier one.
LEMMA NoteKeeps ==
    ASSUME PeerAssumptions, PeerInv, NEW c \in Conn, ctx[c].listed,
           ctx[c].state \notin {"befor_handshake", "shutdown"},
           NEW s \in State \ {"befor_handshake"}, NEW h \in Handler!Heights, Handler!Note(c, ctx[c], s, h), peersCount' = peersCount
    PROVE  PeerInv'
<1>1. ctx[c] \in Context
  BY Zenon DEF PeerInv
<1>k. PICK k : k = [ctx[c] EXCEPT !.state = s, !.remote = h]
  BY Zenon
<1>2. h \in Nat
  BY DEF Handler!Heights, PeerAssumptions
<1>3. k \in Context /\ k.listed = ctx[c].listed /\ k.used = ctx[c].used /\ k.state = s
  BY ZenonT(60), <1>1, <1>2, <1>k DEF Context
<1>4. ctx' = [ctx EXCEPT ![c] = k]
  BY Zenon, <1>k DEF Handler!Note
<1> QED BY ZenonT(60), <1>3, <1>4, StaysPeer

\* COMMAND_TIMED_SYNC, NOTIFY_NEW_BLOCK and NOTIFY_NEW_LITE_BLOCK.
LEMMA CommandKeeps ==
    ASSUME PeerAssumptions, PeerInv, NEW c \in Conn, Handler!TimedSync(c) \/ Handler!NewBlock(c)
    PROVE  PeerInv'
<1>1. /\ ctx[c].listed /\ peersCount' = peersCount
      /\ ctx[c].state \notin {"befor_handshake", "shutdown"}
  BY DEF Handler!TimedSync, Handler!NewBlock
<1>2. PICK s \in State \ {"befor_handshake"}, h \in Handler!Heights : Handler!Note(c, ctx[c], s, h)
  <2>1. CASE Handler!TimedSync(c)
    <3>1. PICK s \in Handler!Later(ctx[c].state), h \in Handler!Heights : Handler!Note(c, ctx[c], s, h)
      BY Zenon, <2>1 DEF Handler!TimedSync
    <3>2. s \in State \ {"befor_handshake"}
      BY DEF Handler!Later, State
    <3> QED BY Zenon, <3>1, <3>2
  <2>2. CASE Handler!NewBlock(c)
    <3>1. ctx[c].state \in State \ {"befor_handshake"}
      BY <1>1 DEF PeerInv, Context
    <3> QED BY Zenon, <2>2, <3>1 DEF Handler!NewBlock
  <2> QED BY Zenon, <2>1, <2>2
<1> QED BY Zenon, <1>1, <1>2, NoteKeeps

\* NOTIFY_RESPONSE_CHAIN_ENTRY.
LEMMA ChainEntryKeeps ==
    ASSUME PeerAssumptions, PeerInv, NEW c \in Conn, Handler!ChainEntry(c)
    PROVE  PeerInv'
<1>1. ctx[c] \in Context /\ ctx \in [Conn -> Context]
  BY Zenon DEF PeerInv
<1>2. PICK total \in Handler!Heights, last \in 0 .. (MaxHeight - 1) :
        ctx' = [ctx EXCEPT ![c] = [ctx[c] EXCEPT !.remote = total, !.last = last]]
  <2>1. PICK total \in Handler!Heights, last \in 0 .. (MaxHeight - 1) :
          ctx' = [ctx EXCEPT ![c].remote = total, ![c].last = last]
    BY Zenon DEF Handler!ChainEntry
  <2>2. ctx' = [ctx EXCEPT ![c] = [ctx[c] EXCEPT !.remote = total, !.last = last]]
    BY ZenonT(60), <1>1, <2>1
  <2> QED BY Zenon, <2>2
<1>k. PICK k : k = [ctx[c] EXCEPT !.remote = total, !.last = last]
  BY Zenon
<1>3. total \in Nat /\ last \in Nat
  BY DEF Handler!Heights, PeerAssumptions
<1>4. k \in Context /\ k.listed = ctx[c].listed /\ k.used = ctx[c].used /\ k.state = ctx[c].state
  BY ZenonT(60), <1>1, <1>3, <1>k DEF Context
<1>5. ctx[c].listed /\ ctx[c].state = "synchronizing" /\ peersCount' = peersCount
  BY Zenon DEF Handler!ChainEntry
<1> QED BY ZenonT(60), <1>2, <1>4, <1>5, <1>k, StaysPeer

\* NOTIFY_RESPONSE_GET_OBJECTS, though it may drop the connection.
LEMMA ObjectsKeeps ==
    ASSUME PeerAssumptions, PeerInv, NEW c \in Conn, Handler!Objects(c)
    PROVE  PeerInv'
<1>1. ctx[c] \in Context /\ ctx \in [Conn -> Context]
  BY Zenon DEF PeerInv
<1>2. ctx[c].listed /\ ctx[c].state = "synchronizing" /\ peersCount' = peersCount
  BY Zenon DEF Handler!Objects
<1>3. PICK h \in Handler!Heights :
        \/ ctx' = [ctx EXCEPT ![c].state = "shutdown"]
        \/ \E s \in {"synchronizing", "normal", "idle"} : ctx' = [ctx EXCEPT ![c].remote = h, ![c].state = s]
  BY Zenon DEF Handler!Objects
<1>4. CASE ctx' = [ctx EXCEPT ![c].state = "shutdown"]
  <2>k. PICK k : k = [ctx[c] EXCEPT !.state = "shutdown"]
    BY Zenon
  <2>1. k \in Context /\ k.listed = ctx[c].listed /\ k.used = ctx[c].used /\ k.state = "shutdown"
    <3>1. "shutdown" \in State
      BY DEF State
    <3> QED BY <1>1, <2>k, <3>1 DEF Context
  <2>2. ctx' = [ctx EXCEPT ![c] = k]
    BY <1>1, <1>4, <2>k
  <2> QED BY ZenonT(60), <1>2, <2>1, <2>2, StaysPeer
<1>5. ASSUME NEW s \in {"synchronizing", "normal", "idle"}, ctx' = [ctx EXCEPT ![c].remote = h, ![c].state = s]
      PROVE  PeerInv'
  <2>k. PICK k : k = [ctx[c] EXCEPT !.remote = h, !.state = s]
    BY Zenon
  <2>1. h \in Nat /\ s \in State
    BY DEF Handler!Heights, PeerAssumptions, State
  <2>2. k \in Context /\ k.listed = ctx[c].listed /\ k.used = ctx[c].used /\ k.state = s
    BY ZenonT(60), <1>1, <2>1, <2>k DEF Context
  <2>3. ctx' = [ctx EXCEPT ![c] = k]
    BY ZenonT(60), <1>1, <1>5, <2>k
  <2> QED BY ZenonT(60), <1>2, <2>2, <2>3, StaysPeer
<1> QED BY Zenon, <1>3, <1>4, <1>5

\* handle_handshake counts a peer and turns a stranger away uncounted.
LEMMA HandshakeInKeeps ==
    ASSUME PeerAssumptions, PeerInv, NEW c \in Conn, Handler!HandshakeIn(c)
    PROVE  PeerInv'
<1> DEFINE x == ctx[c]
<1>1. x \in ContextOf(c) /\ x \in Context /\ ctx \in [Conn -> Context] /\ x.listed /\ x.state = "befor_handshake"
  BY Zenon DEF PeerInv, Handler!HandshakeIn
<1>2. x.used /\ c \notin Self
  BY Zenon, <1>1, FieldsOf
<1>3. CASE c \in Stranger
  <2>k. PICK k : k = [x EXCEPT !.state = "shutdown"]
    BY Zenon
  <2>1. ctx' = [ctx EXCEPT ![c] = k] /\ peersCount' = peersCount
    BY <1>1, <1>3, <2>k DEF Handler!HandshakeIn
  <2>2. k \in Context /\ k.listed = x.listed /\ k.used = x.used /\ k.state = "shutdown"
    BY ZenonT(60), <1>1, <2>k DEF Context, State
  <2>3. k \in ContextOf(c)
    BY Zenon, <1>2, <2>2, FieldsOf
  <2>4. Adds(c, k) = 0
    <3>1. k.listed
      BY Zenon, <1>1, <2>2
    <3> QED BY Zenon, <1>3, <2>3, <3>1, AddsByFields
  <2>5. Adds(c, x) = 0
    BY Zenon, <1>1, <1>3, AddsByFields
  <2>6. Adds(c, k) = Adds(c, x) + 0
    BY <2>4, <2>5
  <2> QED BY ZenonT(60), <2>1, <2>3, <2>6, OneChanges
<1>4. CASE c \notin Stranger
  <2>1. PICK s \in Handler!Initial, h \in Handler!Heights : Handler!Note(c, ctx[c], s, h)
    BY Zenon, <1>4 DEF Handler!HandshakeIn
  <2>k. PICK k : k = [x EXCEPT !.state = s, !.remote = h]
    BY Zenon
  <2>2. ctx' = [ctx EXCEPT ![c] = k]
    BY Zenon, <2>1, <2>k DEF Handler!Note
  <2>3. h \in Nat /\ s \in State /\ s # "befor_handshake"
    BY DEF Handler!Heights, PeerAssumptions, Handler!Initial, State
  <2>4. k \in Context /\ k.listed = x.listed /\ k.used = x.used /\ k.state = s
    BY ZenonT(60), <1>1, <2>3, <2>k DEF Context
  <2>5. k \in ContextOf(c)
    BY Zenon, <1>2, <1>4, <2>4, FieldsOf
  <2>6. Adds(c, k) = 1
    <3>1. k.listed
      BY Zenon, <1>1, <2>4
    <3> QED BY Zenon, <1>2, <1>4, <2>3, <2>4, <2>5, <3>1, AddsByFields
  <2>7. Adds(c, x) = 0
    BY Zenon, <1>1, <1>2, <1>4, AddsByFields
  <2>8. Adds(c, k) = Adds(c, x) + 1
    BY <2>6, <2>7
  <2>9. peersCount' = (peersCount + 1) % CountLimit
    BY Zenon, <1>4 DEF Handler!HandshakeIn
  <2>10. 1 \in {-1, 0, 1} /\ peersCount' = IF 1 = 0 THEN peersCount ELSE (peersCount + 1) % CountLimit
    BY <2>9
  <2> QED BY Zenon, <2>2, <2>5, <2>8, <2>10, OneChanges
<1> QED BY Zenon, <1>3, <1>4

\* handshake counts a peer, and a connection to itself which it does not list.
LEMMA HandshakeOutKeeps ==
    ASSUME PeerAssumptions, PeerInv, NEW c \in Conn, Handler!HandshakeOut(c)
    PROVE  PeerInv'
<1> DEFINE x == ctx[c]
<1>1. x \in ContextOf(c) /\ x \in Context /\ ctx \in [Conn -> Context] /\ ~x.used /\ c \notin Stranger
  BY Zenon DEF PeerInv, Handler!HandshakeOut
<1>2. ~x.listed
  BY Zenon, <1>1, FieldsOf
<1>3. PICK s \in Handler!Initial, h \in Handler!Heights : Handler!Note(c, [x EXCEPT !.used = TRUE, !.listed = c \notin Self], s, h)
  BY Zenon DEF Handler!HandshakeOut
<1>y. PICK y : y = [x EXCEPT !.used = TRUE, !.listed = c \notin Self]
  BY Zenon
<1>k. PICK k : k = [y EXCEPT !.state = s, !.remote = h]
  BY Zenon
<1>4. ctx' = [ctx EXCEPT ![c] = k]
  BY Zenon, <1>3, <1>k, <1>y DEF Handler!Note
<1>5. h \in Nat /\ s \in State /\ s # "befor_handshake"
  BY DEF Handler!Heights, PeerAssumptions, Handler!Initial, State
<1>6. y \in Context /\ y.used = TRUE /\ y.listed = (c \notin Self)
  BY ZenonT(60), <1>1, <1>y DEF Context
<1>7. k \in Context /\ k.listed = y.listed /\ k.used = y.used /\ k.state = s
  BY ZenonT(60), <1>5, <1>6, <1>k DEF Context
<1>8. k.used /\ (k.listed <=> c \notin Self)
  BY Zenon, <1>6, <1>7
<1>9. k \in ContextOf(c)
  BY Zenon, <1>1, <1>7, <1>8, FieldsOf
<1>10. Adds(c, k) = 1
  BY Zenon, <1>1, <1>5, <1>7, <1>8, <1>9, AddsByFields
<1>11. Adds(c, x) = 0
  BY Zenon, <1>1, <1>2, AddsByFields
<1>12. Adds(c, k) = Adds(c, x) + 1
  BY <1>10, <1>11
<1>13. peersCount' = (peersCount + 1) % CountLimit
  BY Zenon DEF Handler!HandshakeOut
<1>14. 1 \in {-1, 0, 1} /\ peersCount' = IF 1 = 0 THEN peersCount ELSE (peersCount + 1) % CountLimit
  BY <1>13
<1> QED BY Zenon, <1>4, <1>9, <1>12, <1>14, OneChanges

\* onConnectionClosed takes off who has shaken hands, and the stranger that was turned away.
LEMMA CloseKeeps ==
    ASSUME PeerAssumptions, PeerInv, NEW c \in Conn, Handler!Close(c)
    PROVE  PeerInv'
<1> DEFINE x == ctx[c]
<1>1. x \in ContextOf(c) /\ x \in Context /\ ctx \in [Conn -> Context] /\ x.listed
  BY Zenon DEF PeerInv, Handler!Close
<1>2. /\ x.used /\ c \notin Self
      /\ c \in Stranger => x.state \in {"befor_handshake", "shutdown"}
  BY Zenon, <1>1, FieldsOf
<1>k. PICK k : k = [x EXCEPT !.listed = FALSE]
  BY Zenon
<1>3. ctx' = [ctx EXCEPT ![c] = k]
  BY <1>1, <1>k DEF Handler!Close
<1>4. k \in Context /\ k.listed = FALSE /\ k.used = x.used /\ k.state = x.state
  BY ZenonT(60), <1>1, <1>k DEF Context
<1>5. ~k.listed /\ k.used
  BY Zenon, <1>2, <1>4
<1>6. k \in ContextOf(c)
  BY Zenon, <1>2, <1>4, <1>5, FieldsOf
<1>7. CASE x.state = "befor_handshake"
  <2>1. Adds(c, k) = 0 /\ Adds(c, x) = 0
    BY Zenon, <1>1, <1>2, <1>4, <1>6, <1>7, AddsByFields
  <2>2. Adds(c, k) = Adds(c, x) + 0
    BY <2>1
  <2>3. peersCount' = peersCount
    BY Zenon, <1>7 DEF Handler!Close, Handler!Counted
  <2> QED BY ZenonT(60), <1>3, <1>6, <2>2, <2>3, OneChanges
<1>8. CASE x.state # "befor_handshake"
  <2>1. Adds(c, k) = IF c \in Stranger THEN -1 ELSE 0
    BY Zenon, <1>2, <1>4, <1>5, <1>6, <1>8, AddsByFields
  <2>2. Adds(c, x) = IF c \in Stranger THEN 0 ELSE 1
    BY Zenon, <1>1, <1>2, <1>8, AddsByFields
  <2>3. Adds(c, k) = Adds(c, x) + (-1)
    BY <2>1, <2>2
  <2>4. peersCount' = (peersCount - 1) % CountLimit
    BY Zenon, <1>8 DEF Handler!Close, Handler!Counted
  <2>5. peersCount \in Int
    BY DEF PeerInv, Handler!PeersCounted, PeerAssumptions
  <2>6. -1 \in {-1, 0, 1} /\ peersCount' = IF -1 = 0 THEN peersCount ELSE (peersCount + (-1)) % CountLimit
    BY <2>4, <2>5
  <2> QED BY Zenon, <1>3, <1>6, <2>3, <2>6, OneChanges
<1> QED BY Zenon, <1>7, <1>8

-----------------------------------------------------------------------------
\* The invariant holds at first: no connection is used.
LEMMA PeerInit ==
    ASSUME PeerAssumptions, Handler!Init
    PROVE  PeerInv
<1>1. ctx \in [Conn -> Context] /\ \A c \in Conn : ctx[c] \in ContextOf(c)
  BY DEF Handler!Init, Context, ContextOf, State
<1>2. Peers = {} /\ Refused = {} /\ Lost = {}
  BY DEF Handler!Init, Peers, Handler!Listed, Refused, Lost, PeerAssumptions
<1>3. Cardinality({}) = 0
  BY FS_EmptySet
<1>4. peersCount = (Cardinality(Peers) + Cardinality(Lost) - Cardinality(Refused)) % CountLimit
  BY <1>2, <1>3, RemainderIs DEF Handler!Init, PeerAssumptions
<1>5. Handler!PeersCounted
  BY Zenon, <1>4, CountsAlike DEF Handler!PeersCounted, Peers, Refused, Lost
<1> QED BY Zenon, <1>1, <1>5 DEF PeerInv

\* Every step keeps it.
LEMMA PeerNext ==
    ASSUME PeerAssumptions, PeerInv, [Handler!Next]_(Handler!vars)
    PROVE  PeerInv'
<1>1. CASE UNCHANGED Handler!vars \/ Handler!Grow
  <2>1. ctx' = ctx /\ peersCount' = peersCount
    BY Zenon, <1>1 DEF Handler!vars, Handler!Grow
  <2> QED BY Zenon, <2>1 DEF PeerInv, Handler!PeersCounted, Handler!Listed
<1>2. ASSUME NEW c \in Conn,
             \/ Handler!Accept(c) \/ Handler!HandshakeIn(c) \/ Handler!HandshakeOut(c) \/ Handler!StartLoop(c) \/ Handler!TimedSync(c)
             \/ Handler!NewBlock(c) \/ Handler!ChainEntry(c) \/ Handler!Objects(c) \/ Handler!Close(c)
      PROVE  PeerInv'
  BY Zenon, <1>2, AcceptKeeps, HandshakeInKeeps, HandshakeOutKeeps, StartLoopKeeps, CommandKeeps,
     ChainEntryKeeps, ObjectsKeeps, CloseKeeps
<1> QED BY Zenon, <1>1, <1>2 DEF Handler!Next

\* Whatever connections are accepted, made, refused, dropped and closed, m_peersCount is the
\* number of the peers, plus the connections the node has made to itself, minus the strangers it
\* has turned away, modulo what the counter can hold.
THEOREM PeersAreCounted ==
    ASSUME PeerAssumptions
    PROVE  Handler!Spec => []Handler!PeersCounted
<1>1. Handler!Init => PeerInv
  BY Zenon, PeerInit
<1>2. PeerInv /\ [Handler!Next]_(Handler!vars) => PeerInv'
  BY Zenon, PeerNext
<1>3. PeerInv => Handler!PeersCounted
  BY Zenon DEF PeerInv
<1> QED BY <1>1, <1>2, <1>3, PTL DEF Handler!Spec
=============================================================================
