----------------------------- MODULE Dispatcher -----------------------------
(***************************************************************************)
(* The cooperative scheduler of namespace System, in its Linux form:       *)
(* contexts that run one at a time until they wait, events, locks, groups, *)
(* timers, connections with a reader and a writer, and procedures handed   *)
(* over by other threads.  What a context does is free, within the         *)
(* operations that Can allows it; an interruption ends its procedure.      *)
(***************************************************************************)
EXTENDS Naturals, Sequences, SequencesExt, FiniteSets

CONSTANTS
    Context, Main,
    Group, GroupOf,    \* GroupOf[c]: the group c is spawned in
    Event,
    Lock,              \* the events that serve EventLock; they are set at first
    Timer, Conn,       \* what epoll watches, besides the event of remoteSpawn
    ClosedBy,          \* ClosedBy[x]: the context that closes connection x when it ends
    Can,               \* Can[c]: a set of <<operation, argument>>
    Inner,             \* the System::Context objects: Inner[c] is made and destroyed by c
    Remote,            \* contexts that run the procedures of other threads
    None

VARIABLES
    sys,     \* the dispatcher and the objects that use it; sys.owed: the contexts that were
             \* interrupted since their last InterruptedException
    ready,   \* ready[x]: what the kernel has for x, a subset of {"in", "out"}
    calls,   \* the contexts whose procedures lie in remoteSpawningProcedures
    writes,  \* calls of remoteSpawn that have pushed, and not yet written
    signal   \* the counter of remoteSpawnEvent is not zero

vars == <<sys, ready, calls, writes, signal>>
threads == <<calls, writes, signal>>
Source == Timer \cup Conn
Waits == {"event", "lock", "group", "inner", "sleep", "read", "write"}
Owner(w) == CHOOSE c \in DOMAIN Inner : Inner[c] = w
IsInner(c) == \E d \in DOMAIN Inner : Inner[d] = c

-----------------------------------------------------------------------------
\* pushContext.
pushContext(s, c) ==
    IF s.ctx[c].queued THEN s
    ELSE [s EXCEPT !.queue = Append(@, c), !.ctx[c].queued = TRUE]

\* dispatch up to epoll_wait, where nobody runs.
dispatch(s) ==
    IF s.queue = <<>> THEN [s EXCEPT !.current = None]
    ELSE [s EXCEPT !.current = Head(s.queue), !.queue = Tail(@), !.ctx[Head(s.queue)].queued = FALSE]

\* A context suspends itself in an operation that may be interrupted, or may not.
Suspend(s, c, at, on, proc) ==
    dispatch([s EXCEPT !.ctx[c].at = at, !.ctx[c].on = on, !.ctx[c].proc = proc])

\* The interrupt procedures of Event::wait, of Timer::sleep and of TcpConnection.
interruptProcedure(s, c, expired) ==
    LET x == s.ctx[c].on
        woken == pushContext([s EXCEPT !.ctx[c].thrown = ~expired, !.ctx[c].proc = FALSE], c)
    IN [woken EXCEPT !.event = IF x \in Event THEN [@ EXCEPT ![x].waiters = SelectSeq(@, LAMBDA w : w # c)] ELSE @,
                     !.armed = IF x \in Source THEN [@ EXCEPT ![x] = {}] ELSE @]

\* interrupt(context).  A timer that has expired by then is read, and the sleep ends as usual.
interrupt(s, c) ==
    LET t == IF s.ctx[c].at = "done" THEN s ELSE [s EXCEPT !.owed = @ \cup {c}]
    IN IF t.ctx[c].flag THEN t
       ELSE IF t.ctx[c].proc THEN interruptProcedure(t, c, t.ctx[c].at = "sleep" /\ "in" \in ready[t.ctx[c].on])
       ELSE [t EXCEPT !.ctx[c].flag = TRUE]
\* InterruptedException reaches c.
caught(s, c) == [s EXCEPT !.owed = @ \ {c}, !.ctx[c].thrown = FALSE]

\* Event::set and Event::clear.  A set event keeps the waiters it has pushed until it is cleared.
setEvent(s, e) ==
    IF s.event[e].state THEN s
    ELSE FoldLeft(LAMBDA t, w : pushContext([t EXCEPT !.ctx[w].proc = FALSE], w),
                  [s EXCEPT !.event[e].state = TRUE], s.event[e].waiters)
clearEvent(s, e) ==
    IF s.event[e].state THEN [s EXCEPT !.event[e].state = FALSE, !.event[e].waiters = <<>>] ELSE s

\* spawn, of a group and of the dispatcher.
spawn(s, c) ==
    pushContext([s EXCEPT !.group[GroupOf[c]].members = Append(@, c),
                          !.group[GroupOf[c]].waiters = IF s.group[GroupOf[c]].members = <<>> THEN <<>> ELSE @,
                          !.ctx[c].at = "run", !.ctx[c].flag = FALSE], c)

\* The end of contextProcedure: the last of a group hands its waiters to the queue.
leave(s, c) ==
    LET g == GroupOf[c]
        left == SelectSeq(s.group[g].members, LAMBDA m : m # c)
        t == [s EXCEPT !.group[g].members = left]
    IN IF left # <<>> THEN t ELSE [t EXCEPT !.queue = @ \o t.group[g].waiters, !.group[g].waiters = <<>>]

\* The procedure of a System::Context ends with ready.set, which its owner may be waiting for.
done(s, w) ==
    LET c == Owner(w)
    IN IF s.ctx[c].at = "inner" /\ s.ctx[c].proc THEN pushContext([s EXCEPT !.ctx[c].proc = FALSE], c) ELSE s

\* The procedure of c ends, by return or by an exception that releases the locks c holds.
conclude(s, c) ==
    LET freed == FoldLeft(setEvent, s, SetToSeq(s.ctx[c].holds))
        t == [freed EXCEPT !.ctx[c].holds = {}, !.ctx[c].on = None, !.ctx[c].thrown = FALSE, !.owed = @ \ {c},
                           !.armed = [x \in Source |-> IF x \in Conn /\ ClosedBy[x] = c THEN {} ELSE @[x]],
                           !.ctx[c].at = IF c = Main THEN "run" ELSE IF IsInner(c) THEN "done" ELSE "free"]
    IN IF c = Main THEN t ELSE dispatch(IF IsInner(c) THEN done(t, c) ELSE leave(t, c))

\* Context::wait of the inner context w, after which the procedure of c ends: interruptions of c
\* are handed on to w.
await(s, c, w) ==
    LET t == IF s.ctx[c].flag THEN interrupt(caught([s EXCEPT !.ctx[c].flag = FALSE], c), w) ELSE s
    IN IF t.ctx[w].at = "done" THEN conclude([t EXCEPT !.ctx[w].at = "free"], c)
       ELSE Suspend(t, c, "inner", w, TRUE)

\* The inner context is destroyed first, with an interruption.
finish(s, c) ==
    IF c \in DOMAIN Inner /\ s.ctx[Inner[c]].at # "free" THEN await(interrupt(s, Inner[c]), c, Inner[c])
    ELSE conclude(s, c)

-----------------------------------------------------------------------------
\* What epoll reports for x, once: the armed part of what is ready.
Reported(s, x) == s.armed[x] \cap ready[x]

\* The context that an event wakes; a pair without contexts is taken for the event of
\* remoteSpawn, and a null writer is dereferenced.
Woken(s, x) ==
    LET p == s.pair[x]
    IN IF p.read = None /\ p.write = None THEN "remote"
       ELSE IF "out" \in Reported(s, x) THEN p.write ELSE p.read

\* The procedures of other threads become contexts.
spawnAll(s) == FoldLeft(LAMBDA t, c : spawn(t, c), s, calls)

\* epoll_wait in dispatch returns something for x.
EpollSource(x) ==
    /\ sys.current = None /\ ~sys.failed /\ Reported(sys, x) # {}
    /\ LET c == Woken(sys, x)
           s == [sys EXCEPT !.armed[x] = {}]
       IN sys' = IF c \in Context THEN [s EXCEPT !.current = c, !.ctx[c].proc = FALSE]
                 ELSE IF c = "remote" /\ signal THEN dispatch(spawnAll(s))
                 ELSE [s EXCEPT !.failed = TRUE]
    /\ LET read == signal /\ Woken(sys, x) = "remote"
       IN signal' = (signal /\ ~read) /\ calls' = IF read THEN <<>> ELSE calls
    /\ UNCHANGED <<ready, writes>>

EpollRemote ==
    /\ sys.current = None /\ ~sys.failed /\ signal
    /\ signal' = FALSE /\ calls' = <<>>
    /\ sys' = dispatch(spawnAll(sys))
    /\ UNCHANGED <<ready, writes>>

\* yield: everything that epoll has is pushed, and then the context itself.
Polled(s) ==
    LET one(t, x) ==
            LET c == Woken(s, x)
                u == [t EXCEPT !.armed[x] = {}]
            IN IF c = "remote" THEN [u EXCEPT !.failed = TRUE]
               ELSE IF c = None THEN u
               ELSE pushContext([u EXCEPT !.ctx[c].proc = FALSE], c)
        t == FoldLeft(one, s, SetToSeq({x \in Source : Reported(s, x) # {}}))
    IN IF signal THEN spawnAll(t) ELSE t

yield(c) ==
    /\ LET s == Polled(sys)
       IN sys' = IF s.failed \/ s.queue = <<>> THEN s ELSE dispatch(pushContext(s, c))
    /\ signal' = FALSE /\ calls' = IF signal THEN <<>> ELSE calls
    /\ UNCHANGED <<ready, writes>>

-----------------------------------------------------------------------------
\* The running context, in the middle of its procedure.
Runs(c) == sys.current = c /\ ~sys.failed /\ sys.ctx[c].at = "run"
Only == UNCHANGED <<ready, threads>>

\* Every operation that waits first throws if an interruption is pending.
Pending(c) == sys.ctx[c].flag
Throw(c) == sys' = finish(caught([sys EXCEPT !.ctx[c].flag = FALSE], c), c) /\ Only

\* Event::wait.
Wait(c, e) ==
    \/ Pending(c) /\ Throw(c)
    \/ ~Pending(c) /\ sys.event[e].state /\ UNCHANGED vars
    \/ /\ ~Pending(c) /\ ~sys.event[e].state
       /\ sys' = Suspend([sys EXCEPT !.event[e].waiters = Append(@, c)], c, "event", e, TRUE)
       /\ Only

\* The loop of EventLock's constructor, from its test.
tryLock(s, c, e) ==
    IF s.event[e].state
    THEN [clearEvent(s, e) EXCEPT !.ctx[c].holds = @ \cup {e}, !.ctx[c].at = "run", !.ctx[c].on = None]
    ELSE Suspend([s EXCEPT !.event[e].waiters = Append(@, c)], c, "lock", e, TRUE)

EventLock(c, e) ==
    /\ e \notin sys.ctx[c].holds
    /\ \/ ~sys.event[e].state /\ Pending(c) /\ Throw(c)
       \/ (sys.event[e].state \/ ~Pending(c)) /\ sys' = tryLock(sys, c, e) /\ Only

Unlock(c, e) ==
    /\ e \in sys.ctx[c].holds
    /\ sys' = setEvent([sys EXCEPT !.ctx[c].holds = @ \ {e}], e) /\ Only

Set(c, e) == ~sys.event[e].state /\ sys' = setEvent(sys, e) /\ Only
Clear(c, e) == sys.event[e].state /\ sys' = clearEvent(sys, e) /\ Only

Interrupt(c, d) ==
    /\ sys.ctx[d].at # "free" /\ d # c
    /\ sys' = interrupt(sys, d) /\ Only

Spawn(c, d) ==
    /\ sys.ctx[d].at = "free" /\ d \notin Range(calls)
    /\ sys' = spawn(sys, d) /\ Only

\* The constructor of System::Context.
Make(c, w) ==
    /\ sys.ctx[w].at = "free"
    /\ sys' = pushContext([sys EXCEPT !.ctx[w].at = "run", !.ctx[w].flag = FALSE], w) /\ Only

\* Context::get, and the end of the procedure of c.
Get(c, w) == sys.ctx[w].at # "free" /\ sys' = await(sys, c, w) /\ Only

\* ContextGroup::~ContextGroup, and the way run and ~Core stop their loops: interrupt and wait.
Stop(c, g) ==
    /\ sys.group[g].members # <<>>
    /\ LET s == FoldLeft(interrupt, sys, sys.group[g].members)
       IN sys' = Suspend([s EXCEPT !.group[g].waiters = Append(@, c), !.ctx[c].queued = TRUE],
                         c, "group", g, FALSE)
    /\ Only

\* Timer::sleep.
Sleep(c, x) ==
    \/ Pending(c) /\ Throw(c)
    \/ /\ ~Pending(c)
       /\ sys' = Suspend([sys EXCEPT !.armed[x] = {"in"}, !.pair[x].read = c], c, "sleep", x, TRUE)
       /\ ready' = [ready EXCEPT ![x] = {}]
       /\ UNCHANGED threads

\* The two sides of a connection: its field of the pair, its bit, and the same of the other.
Side == [read |-> [bit |-> "in", other |-> "write"], write |-> [bit |-> "out", other |-> "read"]]
Armed(s, x, side) == IF s.pair[x][side] = None THEN {} ELSE {Side[side].bit}

\* TcpConnection::read and write: they wait when the kernel has nothing to give or to take.
Transfer(c, x, side) ==
    LET bit == Side[side].bit
    IN \/ Pending(c) /\ Throw(c)
       \/ ~Pending(c) /\ bit \in ready[x] /\ ready' = [ready EXCEPT ![x] = @ \ {bit}] /\ UNCHANGED <<sys, threads>>
       \/ /\ ~Pending(c) /\ bit \notin ready[x]
          /\ sys' = Suspend([sys EXCEPT !.armed[x] = {bit} \cup Armed(sys, x, Side[side].other), !.pair[x][side] = c],
                            c, side, x, TRUE)
          /\ Only

\* A reader or writer that goes on arms the connection for the other one.
rearm(s, x, side) ==
    LET bits == Armed(s, x, Side[side].other) IN IF bits = {} THEN s ELSE [s EXCEPT !.armed[x] = bits]

\* A context goes on after the operation that suspended it.
Resume(c) ==
    LET k == sys.ctx[c]
        x == k.on
        s == [sys EXCEPT !.ctx[c].at = "run", !.ctx[c].on = None]
        side == IF k.at = "sleep" THEN "read" ELSE k.at
        t == IF x \in Source THEN [s EXCEPT !.pair[x][side] = None] ELSE s
    IN /\ sys.current = c /\ ~sys.failed /\ k.at \in Waits
       /\ \/ k.thrown /\ k.at # "inner" /\ sys' = finish(caught(t, c), c) /\ Only
          \/ k.thrown /\ k.at = "inner" /\ sys' = await(interrupt(caught(s, c), x), c, x) /\ Only
          \/ ~k.thrown /\ k.at = "inner" /\ sys' = await(s, c, x) /\ Only
          \/ ~k.thrown /\ k.at = "lock" /\ ~s.event[x].state /\ Pending(c) /\ Throw(c)
          \/ ~k.thrown /\ k.at = "lock" /\ (s.event[x].state \/ ~Pending(c)) /\ sys' = tryLock(s, c, x) /\ Only
          \/ /\ ~k.thrown /\ k.at \in {"read", "write"}
             /\ sys' = rearm(t, x, side)
             /\ ready' = [ready EXCEPT ![x] = @ \ {Side[side].bit}]
             /\ UNCHANGED threads
          \/ ~k.thrown /\ k.at \in {"event", "group", "sleep"} /\ sys' = t /\ Only

Return(c) == sys' = finish(sys, c) /\ Only

\* One operation of the running context.
Do(c, op) ==
    LET x == op[2]
    IN /\ Runs(c)
       /\ \/ op[1] = "wait" /\ Wait(c, x)
          \/ op[1] = "lock" /\ EventLock(c, x)
          \/ op[1] = "unlock" /\ Unlock(c, x)
          \/ op[1] = "set" /\ Set(c, x)
          \/ op[1] = "clear" /\ Clear(c, x)
          \/ op[1] = "interrupt" /\ Interrupt(c, x)
          \/ op[1] = "spawn" /\ Spawn(c, x)
          \/ op[1] = "make" /\ Make(c, x)
          \/ op[1] = "get" /\ Get(c, x)
          \/ op[1] = "stop" /\ Stop(c, x)
          \/ op[1] = "sleep" /\ Sleep(c, x)
          \/ op[1] \in DOMAIN Side /\ Transfer(c, x, op[1])
          \/ op[1] = "yield" /\ yield(c)
          \/ op[1] = "return" /\ Return(c)

\* The kernel has data or room, or a timer expires.
Happens(x) ==
    /\ \E bit \in IF x \in Timer THEN {"in"} \cap sys.armed[x] ELSE {"in", "out"} :
         bit \notin ready[x] /\ ready' = [ready EXCEPT ![x] = @ \cup {bit}]
    /\ UNCHANGED <<sys, threads>>

\* remoteSpawn, by another thread: the push under the mutex, and then the write.
RemotePush(c) ==
    /\ sys.ctx[c].at = "free" /\ c \notin Range(calls) /\ writes < Cardinality(Remote)
    /\ calls' = Append(calls, c) /\ writes' = writes + 1
    /\ UNCHANGED <<sys, ready, signal>>
RemoteWrite ==
    /\ writes > 0 /\ writes' = writes - 1 /\ signal' = TRUE
    /\ UNCHANGED <<sys, ready, calls>>

-----------------------------------------------------------------------------
Init ==
    /\ sys = [current |-> Main, queue |-> <<>>, failed |-> FALSE, owed |-> {},
              ctx |-> [c \in Context |-> [at |-> IF c = Main THEN "run" ELSE "free", on |-> None, flag |-> FALSE,
                                          proc |-> FALSE, thrown |-> FALSE, queued |-> FALSE, holds |-> {}]],
              event |-> [e \in Event |-> [state |-> e \in Lock, waiters |-> <<>>]],
              group |-> [g \in Group |-> [members |-> <<>>, waiters |-> <<>>]],
              armed |-> [x \in Source |-> {}],
              pair |-> [x \in Source |-> [read |-> None, write |-> None]]]
    /\ ready = [x \in Source |-> {}]
    /\ calls = <<>> /\ writes = 0 /\ signal = FALSE

Next ==
    \/ \E c \in Context : Resume(c) \/ \E op \in Can[c] : Do(c, op)
    \/ \E x \in Source : EpollSource(x) \/ Happens(x)
    \/ EpollRemote \/ RemoteWrite
    \/ \E c \in Remote : RemotePush(c)

Spec == Init /\ [][Next]_vars

\* The operating system goes on, and no procedure computes forever: a context that runs comes to
\* an operation that waits, or to its end.
Fairness ==
    /\ \A c \in Context :
         /\ WF_vars(Resume(c))
         /\ WF_vars(\E op \in Can[c] : Do(c, op))
         /\ WF_vars(\E op \in Can[c] : op[1] \in {"wait", "get", "stop", "sleep", "return"} /\ Do(c, op))
    /\ \A x \in Source : WF_vars(EpollSource(x)) /\ WF_vars(Happens(x))
    /\ WF_vars(EpollRemote) /\ WF_vars(RemoteWrite)

FairSpec == Spec /\ Fairness

-----------------------------------------------------------------------------
\* No context is forgotten: one that does not run is in the queue of the dispatcher, or with the
\* event, the group, the inner context or the epoll registration that will put it there.  A side of
\* a connection that epoll is not armed for is waiting for the other side, which is in the queue,
\* to arm it or to end and interrupt it.
Accounted ==
    \A c \in Context \ {sys.current} :
        LET k == sys.ctx[c]
            x == k.on
            times == Cardinality({i \in DOMAIN sys.queue : sys.queue[i] = c})
        IN \/ k.at \in {"free", "done"} /\ ~k.queued /\ times = 0
           \/ k.queued /\ times = 1
           \/ /\ times = 0 /\ ~k.queued /\ k.proc
              /\ \/ k.at \in {"event", "lock"} /\ ~sys.event[x].state /\ c \in Range(sys.event[x].waiters)
                 \/ k.at = "inner" /\ sys.ctx[x].at \notin {"free", "done"}
                 \/ k.at = "sleep" /\ sys.pair[x].read = c /\ sys.armed[x] = {"in"}
                 \/ /\ k.at \in DOMAIN Side /\ sys.pair[x][k.at] = c
                    /\ \/ Side[k.at].bit \in sys.armed[x]
                       \/ sys.pair[x][Side[k.at].other] \in Range(sys.queue) \cup {sys.current}
           \/ times = 0 /\ k.queued /\ k.at = "group" /\ sys.group[x].members # <<>> /\ c \in Range(sys.group[x].waiters)

\* No interruption is lost: until it is thrown it is pending, in the context or in its wait.
NoInterruptLost == \A c \in sys.owed : sys.ctx[c].flag \/ sys.ctx[c].thrown

\* An EventLock is held by one context at a time, and its event is clear as long as it is held.
LocksExclude ==
    \A e \in Lock : LET h == {c \in Context : e \in sys.ctx[c].holds}
                    IN Cardinality(h) <= 1 /\ (sys.event[e].state <=> h = {})
=============================================================================
