-------------------------------- MODULE LiveFeed -------------------------------
(***************************************************************************)
(* The multiplexed live feed of the browser: lib/engine/binance-live-feed  *)
(* and the stores it writes.  Components register one want each under an    *)
(* id of their own; every change recomputes the streams of a market and     *)
(* replaces its socket.  The exchange may drop a socket at any time, and    *)
(* the close event of a socket arrives after the drop, or after the socket  *)
(* was replaced.                                                            *)
(***************************************************************************)
EXTENDS Naturals

CONSTANTS
    Callers,        \* hook instances: useId, universe:*, open-pnl:*
    Markets,        \* spot and perp
    Wants,          \* ticker, kline or mark price of one app ticker
    Streams,        \* exchange stream names
    MarketOf,       \* the market of a want
    StreamOf,       \* resolveExchangeSymbol may give two wants one stream
    MaxAttempts,    \* MAX_RECONNECT_ATTEMPTS (5 in the code)
    MaxDrops        \* bound: how many sockets the exchange drops

ASSUME WantAssumption ==
    /\ MarketOf \in [Wants -> Markets]
    /\ StreamOf \in [Wants -> Streams]

ASSUME BoundAssumption == MaxAttempts \in Nat /\ MaxDrops \in Nat

VARIABLES
    registry,       \* callerId -> want, as an option
    streams,        \* state.streams: what the last reconcile computed
    routes,         \* state.streamToWant
    conn,           \* state.socket: none, up, dropped (its close event is due), closed
    url,            \* the streams named in the URL of state.socket
    late,           \* a replaced socket's close event is still due
    leaked,         \* open sockets nothing refers to any more
    attempts,       \* state.reconnectAttempts
    timer,          \* state.reconnectTimer is running
    stored,         \* wants whose last tick is in a store
    drops           \* sockets dropped so far

socketVars == <<conn, url, late, leaked, attempts, timer>>
vars == <<registry, streams, routes, socketVars, stored, drops>>

\* The wants of the registry in market m.
WantsIn(reg, m) == {w \in UNION {reg[c] : c \in Callers} : MarketOf[w] = m}

Wanted(w) == \E c \in Callers : w \in registry[c]

StreamsOf(wants) == {StreamOf[w] : w \in wants}

\* wantedFor: a map from stream to want.  Of two wants with one stream the one
\* whose caller came into the Map later stays, which may be either.
WantedFor(reg, m) ==
    LET wants == WantsIn(reg, m)
    IN  {f \in [StreamsOf(wants) -> wants] : \A s \in DOMAIN f : StreamOf[f[s]] = s}

Init ==
    /\ registry = [c \in Callers |-> {}]
    /\ streams = [m \in Markets |-> {}]
    /\ routes = [m \in Markets |-> [s \in {} |-> {}]]
    /\ conn = [m \in Markets |-> "none"]
    /\ url = [m \in Markets |-> {}]
    /\ late = [m \in Markets |-> FALSE]
    /\ leaked = [m \in Markets |-> 0]
    /\ attempts = [m \in Markets |-> 0]
    /\ timer = [m \in Markets |-> FALSE]
    /\ stored = {}
    /\ drops = 0

-----------------------------------------------------------------------------
\* Mutated form: a stream that is left keeps its last tick.
Stale_Never(previous, next) == {}

\* clearStaleStreams: the wants whose last tick is removed.
Stale(previous, next) == {previous[s] : s \in DOMAIN previous \ DOMAIN next}

\* Mutated form: teardown leaves the reconnect timer running.
TearDownTimer_Kept(running) == running

\* clearTimeout.
TearDownTimer(running) == FALSE

\* The markets of ms are reconciled with the registry reg: unchanged streams
\* leave everything as it is; otherwise stale ticks go, the socket and its timer
\* are torn down, and a socket for the new streams is opened unless there are none.
Reconcile(ms, reg) ==
    LET changed == {m \in ms : StreamsOf(WantsIn(reg, m)) # streams[m]}
        Up(m) == WantsIn(reg, m) # {}
    IN  \E next \in [Markets -> UNION {WantedFor(reg, m) : m \in Markets}] :
            LET If(m, then, old) == IF m \in changed THEN then ELSE old
            IN  /\ \A m \in Markets : next[m] \in WantedFor(reg, m)
                /\ stored' = stored \ UNION {Stale(routes[m], next[m]) : m \in changed}
                /\ streams' = [m \in Markets |-> If(m, DOMAIN next[m], streams[m])]
                /\ routes' = [m \in Markets |-> If(m, next[m], routes[m])]
                /\ conn' = [m \in Markets |-> If(m, IF Up(m) THEN "up" ELSE "none", conn[m])]
                /\ url' = [m \in Markets |-> If(m, DOMAIN next[m], url[m])]
                /\ late' = [m \in Markets |->
                               If(m, late[m] \/ conn[m] \in {"up", "dropped"}, late[m])]
                /\ attempts' = [m \in Markets |-> If(m, 0, attempts[m])]
                /\ timer' = [m \in Markets |-> If(m, TearDownTimer(timer[m]), timer[m])]

Enter(c, wants) ==
    /\ registry' = [registry EXCEPT ![c] = wants]
    /\ Reconcile({MarketOf[w] : w \in registry[c] \cup wants}, registry')
    /\ UNCHANGED <<leaked, drops>>

\* registerLiveInterest: the market a caller leaves is reconciled as well.
RegisterLiveInterest(c, want) == Enter(c, {want})

\* unregisterLiveInterest; of a caller that has no want it does nothing.
UnregisterLiveInterest(c) == registry[c] # {} /\ Enter(c, {})

-----------------------------------------------------------------------------
\* connect opens a socket on the streams as they are now and forgets the one
\* the state referred to; a closed one is no loss.
Connect(m) ==
    /\ conn' = [conn EXCEPT ![m] = "up"]
    /\ url' = [url EXCEPT ![m] = streams[m]]
    /\ leaked' = [leaked EXCEPT ![m] = IF conn[m] = "up" THEN @ + 1 ELSE @]

\* The reconnect timer runs out.
Reconnect(m) ==
    /\ timer[m]
    /\ timer' = [timer EXCEPT ![m] = FALSE]
    /\ Connect(m)
    /\ UNCHANGED <<registry, streams, routes, late, attempts, stored, drops>>

\* The exchange or the network ends the socket.
Drop(m) ==
    /\ drops < MaxDrops
    /\ conn[m] = "up"
    /\ conn' = [conn EXCEPT ![m] = "dropped"]
    /\ drops' = drops + 1
    /\ UNCHANGED <<registry, streams, routes, url, late, leaked, attempts, timer, stored>>

\* Mutated form: a reconnect is counted and not scheduled.
ScheduleReconnect_NoTimer(m) ==
    /\ attempts' = [attempts EXCEPT ![m] = IF @ < MaxAttempts THEN @ + 1 ELSE @]
    /\ UNCHANGED timer

\* onclose's second guard and its two assignments.
ScheduleReconnect(m) ==
    IF streams[m] = {} \/ attempts[m] >= MaxAttempts
    THEN UNCHANGED <<attempts, timer>>
    ELSE /\ attempts' = [attempts EXCEPT ![m] = @ + 1]
         /\ timer' = [timer EXCEPT ![m] = TRUE]

\* onclose of the socket the state refers to.
OnClose(m) ==
    /\ conn[m] = "dropped"
    /\ conn' = [conn EXCEPT ![m] = "closed"]
    /\ ScheduleReconnect(m)
    /\ UNCHANGED <<registry, streams, routes, url, late, leaked, stored, drops>>

\* Superseded by a reconcile already: the event is ignored.
IgnoreLateClose(m) == UNCHANGED <<attempts, timer>>

\* onclose of a socket that was replaced.
OnLateClose(m) ==
    /\ late[m]
    /\ late' = [late EXCEPT ![m] = FALSE]
    /\ IgnoreLateClose(m)
    /\ UNCHANGED <<registry, streams, routes, conn, url, leaked, stored, drops>>

\* onmessage of a well-formed frame: the tick goes where the stream is routed
\* now.  A socket that was closed delivers nothing.
OnMessage(m, s) ==
    /\ conn[m] = "up"
    /\ s \in url[m] \cap DOMAIN routes[m]
    /\ stored' = stored \cup {routes[m][s]}
    /\ UNCHANGED <<registry, streams, routes, socketVars, drops>>

Next ==
    \/ \E c \in Callers : UnregisterLiveInterest(c) \/ \E w \in Wants : RegisterLiveInterest(c, w)
    \/ \E m \in Markets : Reconnect(m) \/ Drop(m) \/ OnClose(m) \/ OnLateClose(m)
                          \/ \E s \in Streams : OnMessage(m, s)

Spec == Init /\ [][Next]_vars

\* Events and timers of the browser are served, and the exchange sends on every
\* stream of a socket that stays open; nothing makes callers come or go.
Fairness ==
    \A m \in Markets :
        /\ WF_vars(Reconnect(m) \/ OnClose(m))
        /\ \A s \in Streams : WF_vars(OnMessage(m, s))

FairSpec == Spec /\ Fairness

-----------------------------------------------------------------------------
TypeOK ==
    /\ registry \in [Callers -> SUBSET Wants]
    /\ streams \in [Markets -> SUBSET Streams]
    /\ \A m \in Markets : routes[m] \in [streams[m] -> Wants]
    /\ conn \in [Markets -> {"none", "up", "dropped", "closed"}]
    /\ url \in [Markets -> SUBSET Streams]
    /\ late \in [Markets -> BOOLEAN]
    /\ leaked \in [Markets -> Nat]
    /\ attempts \in [Markets -> 0 .. MaxAttempts]
    /\ timer \in [Markets -> BOOLEAN]
    /\ stored \subseteq Wants
    /\ drops \in 0 .. MaxDrops

\* No other want has the stream of w in its market: resolveExchangeSymbol gives
\* PEPE and 1000PEPE of the perp market one stream, and then one of the two is
\* not served.
Alone(w) ==
    \A v \in Wants : MarketOf[v] = MarketOf[w] /\ StreamOf[v] = StreamOf[w] => v = w

\* Every market has at most one open socket, it carries exactly the streams some
\* caller wants now, each routed to the want of that caller, and a market nobody
\* wants has neither a socket nor a timer: whatever order callers, drops, late
\* close events and timers come in (reconcile, connect, onclose).
SocketServesRegistry ==
    \A m \in Markets :
        LET wants == WantsIn(registry, m)
        IN  /\ leaked[m] = 0
            /\ conn[m] = "up" => url[m] = StreamsOf(wants)
            /\ conn[m] = "up" => \A w \in wants : Alone(w) => routes[m][StreamOf[w]] = w
            /\ wants = {} => conn[m] = "none" /\ ~timer[m]

\* No price outlives the interest in it: the last tick of a want nobody has any
\* more is gone from the stores (clearStaleStreams), or a page opened later
\* would show it as live.
NoOrphanTick == \A w \in stored : Alone(w) => Wanted(w)

\* The feed has given up on the market until its streams change.
GaveUp(m) == attempts[m] = MaxAttempts

\* A caller that stays is served: its want gets a tick, whatever others do and
\* however sockets drop, unless the feed has used up its reconnects (connect,
\* onclose, onmessage).
WantsAreServed ==
    \A w \in Wants :
        Alone(w) =>
            (Wanted(w) ~> (w \in stored \/ ~Wanted(w) \/ GaveUp(MarketOf[w])))
=============================================================================
