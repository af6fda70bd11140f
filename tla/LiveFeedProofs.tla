---------------------------- MODULE LiveFeedProofs -----------------------------
(***************************************************************************)
(* Theorems about the live feed, for any callers, markets, wants, aliases   *)
(* of streams and numbers of drops and reconnects.                          *)
(***************************************************************************)
EXTENDS LiveFeed, TLAPS

\* What a market is subscribed to is what the registry asks for; the timer runs
\* only behind a closed socket, and an open one was opened on these streams.
Subscribed(m) ==
    /\ streams[m] = StreamsOf(WantsIn(registry, m))
    /\ DOMAIN routes[m] = streams[m]
    /\ \A s \in streams[m] : /\ routes[m][s] \in Wants
                             /\ MarketOf[routes[m][s]] = m
                             /\ StreamOf[routes[m][s]] = s
    /\ conn[m] = "up" => url[m] = streams[m]
    /\ timer[m] => conn[m] = "closed"
    /\ streams[m] = {} => conn[m] = "none"
    /\ leaked[m] = 0

\* A stored tick belongs to a stream that is still subscribed.
Live(w) == Alone(w) => StreamOf[w] \in streams[MarketOf[w]]

Inv ==
    /\ TypeOK
    /\ \A m \in Markets : Subscribed(m)
    /\ \A w \in stored : Live(w)

USE WantAssumption, BoundAssumption

-----------------------------------------------------------------------------
LEMMA WantsTyped ==
    ASSUME NEW reg \in [Callers -> SUBSET Wants], NEW m \in Markets
    PROVE  WantsIn(reg, m) \subseteq Wants
  BY DEF WantsIn

LEMMA InitInv == Init => Inv
<1> SUFFICES ASSUME Init PROVE Inv
  OBVIOUS
<1>1. \A m \in Markets : WantsIn(registry, m) = {}
  BY DEF Init, WantsIn
<1>2. TypeOK
  BY DEF Init, TypeOK
<1>3. \A m \in Markets : Subscribed(m)
  BY <1>1 DEF Init, Subscribed, StreamsOf
<1> QED
  BY <1>2, <1>3 DEF Inv, Init

-----------------------------------------------------------------------------
\* A change of the registry.
LEMMA EnterInv ==
    ASSUME Inv, NEW c \in Callers, NEW wants \in SUBSET Wants, Enter(c, wants)
    PROVE  Inv'
<1> DEFINE ms == {MarketOf[w] : w \in registry[c] \cup wants}
           changed == {m \in ms : StreamsOf(WantsIn(registry', m)) # streams[m]}
<1> USE DEF TypeOK, Inv
<1>1. /\ registry' = [registry EXCEPT ![c] = wants]
      /\ Reconcile(ms, registry')
      /\ leaked' = leaked /\ drops' = drops
  BY DEF Enter
<1>2. registry' \in [Callers -> SUBSET Wants]
  BY <1>1
<1>3. PICK next \in [Markets -> UNION {WantedFor(registry', m) : m \in Markets}] :
        /\ \A m \in Markets : next[m] \in WantedFor(registry', m)
        /\ stored' = stored \ UNION {Stale(routes[m], next[m]) : m \in changed}
        /\ streams' = [m \in Markets |-> IF m \in changed THEN DOMAIN next[m] ELSE streams[m]]
        /\ routes' = [m \in Markets |-> IF m \in changed THEN next[m] ELSE routes[m]]
        /\ conn' = [m \in Markets |->
                      IF m \in changed
                      THEN IF WantsIn(registry', m) # {} THEN "up" ELSE "none"
                      ELSE conn[m]]
        /\ url' = [m \in Markets |-> IF m \in changed THEN DOMAIN next[m] ELSE url[m]]
        /\ late' = [m \in Markets |->
                      IF m \in changed THEN late[m] \/ conn[m] \in {"up", "dropped"}
                      ELSE late[m]]
        /\ attempts' = [m \in Markets |-> IF m \in changed THEN 0 ELSE attempts[m]]
        /\ timer' = [m \in Markets |->
                       IF m \in changed THEN TearDownTimer(timer[m]) ELSE timer[m]]
  BY <1>1 DEF Reconcile
<1>4. \A m \in Markets :
        /\ DOMAIN next[m] = StreamsOf(WantsIn(registry', m))
        /\ \A s \in DOMAIN next[m] : /\ next[m][s] \in WantsIn(registry', m)
                                     /\ StreamOf[next[m][s]] = s
  BY <1>3 DEF WantedFor
<1>5. \A m \in Markets : WantsIn(registry', m) \subseteq Wants
  BY <1>2, WantsTyped
<1>6. \A m \in Markets : \A w \in WantsIn(registry', m) : MarketOf[w] = m
  BY DEF WantsIn
<1>7. \A m \in Markets : StreamsOf(WantsIn(registry', m)) \subseteq Streams
  BY <1>5 DEF StreamsOf
<1>8. \A m \in Markets \ changed : StreamsOf(WantsIn(registry', m)) = streams[m]
  <2> SUFFICES ASSUME NEW m \in Markets \ changed
               PROVE  StreamsOf(WantsIn(registry', m)) = streams[m]
    OBVIOUS
  <2>1. CASE m \in ms
    BY <2>1
  <2>2. CASE m \notin ms
    <3>1. \A w \in registry[c] \cup wants : MarketOf[w] # m
      BY <2>2
    <3>2. \A d \in Callers : registry'[d] = IF d = c THEN wants ELSE registry[d]
      BY <1>1
    <3> DEFINE In(reg, w) == MarketOf[w] = m /\ \E d \in Callers : w \in reg[d]
    <3>a. \A w : In(registry', w) <=> In(registry, w)
      BY <3>1, <3>2
    <3>b. \A w : w \in WantsIn(registry, m) <=> In(registry, w)
      BY DEF WantsIn
    <3>c. \A w : w \in WantsIn(registry', m) <=> In(registry', w)
      BY DEF WantsIn
    <3> HIDE DEF In
    <3>3. \A w : w \in WantsIn(registry', m) <=> w \in WantsIn(registry, m)
      BY <3>a, <3>b, <3>c
    <3>4. WantsIn(registry', m) = WantsIn(registry, m)
      BY <3>3 DEF WantsIn
    <3> QED
      BY <3>4 DEF Subscribed
  <2> QED
    BY <2>1, <2>2
<1>9. ASSUME NEW m \in Markets PROVE Subscribed(m)'
  <2>1. CASE m \in changed
    <3>1. /\ streams'[m] = DOMAIN next[m] /\ routes'[m] = next[m] /\ url'[m] = DOMAIN next[m]
          /\ conn'[m] = IF WantsIn(registry', m) # {} THEN "up" ELSE "none"
          /\ timer'[m] = FALSE /\ leaked'[m] = 0
      BY <2>1, <1>1, <1>3 DEF TearDownTimer, Subscribed
    <3>2. streams'[m] = {} => WantsIn(registry', m) = {}
      <4>1. \A w \in WantsIn(registry', m) : StreamOf[w] \in StreamsOf(WantsIn(registry', m))
        BY DEF StreamsOf
      <4>2. streams'[m] = StreamsOf(WantsIn(registry', m))
        BY <3>1, <1>4
      <4> QED
        BY <4>1, <4>2
    <3>3. \A s \in DOMAIN next[m] : next[m][s] \in Wants /\ MarketOf[next[m][s]] = m
      BY <1>4, <1>5, <1>6
    <3> QED
      BY <3>1, <3>2, <3>3, <1>4 DEF Subscribed
  <2>2. CASE m \notin changed
    <3>1. /\ streams'[m] = streams[m] /\ routes'[m] = routes[m] /\ url'[m] = url[m]
          /\ conn'[m] = conn[m] /\ timer'[m] = timer[m] /\ leaked'[m] = leaked[m]
      BY <2>2, <1>1, <1>3
    <3>2. Subscribed(m)
      OBVIOUS
    <3> QED
      BY <3>1, <3>2, <2>2, <1>8 DEF Subscribed
  <2> QED
    BY <2>1, <2>2
<1>10. ASSUME NEW w \in stored' PROVE Live(w)'
  <2> DEFINE m == MarketOf[w]
  <2>1. w \in stored /\ w \in Wants /\ m \in Markets
    BY <1>3
  <2> SUFFICES ASSUME Alone(w) PROVE StreamOf[w] \in streams'[m]
    BY DEF Live, Alone
  <2>2. StreamOf[w] \in streams[m]
    BY <2>1 DEF Live
  <2>3. CASE m \in changed
    <3> SUFFICES ASSUME StreamOf[w] \notin DOMAIN next[m] PROVE FALSE
      BY <2>1, <2>3, <1>3
    <3>1. /\ routes[m][StreamOf[w]] \in Wants /\ MarketOf[routes[m][StreamOf[w]]] = m
          /\ StreamOf[routes[m][StreamOf[w]]] = StreamOf[w] /\ StreamOf[w] \in DOMAIN routes[m]
      BY <2>1, <2>2 DEF Subscribed
    <3>2. routes[m][StreamOf[w]] = w
      BY <3>1 DEF Alone
    <3>3. w \in Stale(routes[m], next[m])
      BY <3>1, <3>2 DEF Stale
    <3>4. w \in UNION {Stale(routes[n], next[n]) : n \in changed}
      BY <3>3, <2>3
    <3> QED
      BY <3>4, <1>3
  <2>4. CASE m \notin changed
    BY <2>1, <2>2, <2>4, <1>3
  <2> QED
    BY <2>3, <2>4
<1>11. TypeOK'
  <2>1. \A m \in Markets : /\ DOMAIN next[m] \subseteq Streams
                           /\ next[m] \in [DOMAIN next[m] -> Wants]
    <3> SUFFICES ASSUME NEW m \in Markets
                 PROVE  /\ DOMAIN next[m] \subseteq Streams
                        /\ next[m] \in [DOMAIN next[m] -> Wants]
      OBVIOUS
    <3>1. next[m] \in [StreamsOf(WantsIn(registry', m)) -> WantsIn(registry', m)]
      BY <1>3 DEF WantedFor
    <3> QED
      BY <3>1, <1>5, <1>7
  <2>2. streams' \in [Markets -> SUBSET Streams] /\ url' \in [Markets -> SUBSET Streams]
    BY <2>1, <1>3
  <2>3. \A m \in Markets : routes'[m] \in [streams'[m] -> Wants]
    BY <2>1, <1>3
  <2>4. conn' \in [Markets -> {"none", "up", "dropped", "closed"}]
    BY <1>3
  <2>5. attempts' \in [Markets -> 0 .. MaxAttempts]
    BY <1>3
  <2>6. timer' \in [Markets -> BOOLEAN]
    BY <1>3 DEF TearDownTimer
  <2>7. late' \in [Markets -> BOOLEAN]
    <3>1. \A m \in Markets : (late[m] \/ conn[m] \in {"up", "dropped"}) \in BOOLEAN
      OBVIOUS
    <3> QED
      BY <3>1, <1>3, Zenon
  <2> QED
    BY <2>2, <2>3, <2>4, <2>5, <2>6, <2>7, <1>1, <1>2, <1>3
<1> QED
  BY <1>9, <1>10, <1>11

-----------------------------------------------------------------------------
\* What the exchange and the event loop do to a market.
LEMMA ReconnectInv == ASSUME Inv, NEW m \in Markets, Reconnect(m) PROVE Inv'
<1>1. timer[m] /\ conn[m] = "closed" /\ streams[m] # {}
  BY DEF Inv, Subscribed, Reconnect
<1>2. /\ conn' = [conn EXCEPT ![m] = "up"] /\ url' = [url EXCEPT ![m] = streams[m]]
      /\ leaked' = leaked /\ timer' = [timer EXCEPT ![m] = FALSE]
      /\ UNCHANGED <<registry, streams, routes, late, attempts, stored, drops>>
  BY <1>1 DEF Reconnect, Connect, Inv, TypeOK
<1>3. TypeOK'
  <2>1. \A n \in Markets : routes'[n] \in [streams'[n] -> Wants]
    BY <1>2 DEF Inv, TypeOK
  <2>2. url' \in [Markets -> SUBSET Streams] /\ timer' \in [Markets -> BOOLEAN]
    BY <1>2 DEF Inv, TypeOK
  <2>3. conn' \in [Markets -> {"none", "up", "dropped", "closed"}]
    BY <1>2 DEF Inv, TypeOK
  <2>4. /\ registry \in [Callers -> SUBSET Wants] /\ streams \in [Markets -> SUBSET Streams]
        /\ late \in [Markets -> BOOLEAN] /\ leaked \in [Markets -> Nat]
        /\ attempts \in [Markets -> 0 .. MaxAttempts]
        /\ stored \subseteq Wants /\ drops \in 0 .. MaxDrops
    BY DEF Inv, TypeOK
  <2> QED
    BY <1>2, <2>1, <2>2, <2>3, <2>4 DEF TypeOK
<1>4. \A n \in Markets : Subscribed(n)'
  BY <1>1, <1>2 DEF Inv, TypeOK, Subscribed
<1> QED
  BY <1>2, <1>3, <1>4 DEF Inv, Live, Alone

LEMMA DropInv == ASSUME Inv, NEW m \in Markets, Drop(m) PROVE Inv'
<1>1. TypeOK'
  BY DEF Drop, Inv, TypeOK
<1>2. \A n \in Markets : Subscribed(n)'
  BY DEF Drop, Inv, TypeOK, Subscribed
<1> QED
  BY <1>1, <1>2 DEF Drop, Inv, Live, Alone

LEMMA OnCloseInv == ASSUME Inv, NEW m \in Markets, OnClose(m) PROVE Inv'
<1>1. TypeOK'
  <2>1. attempts' \in [Markets -> 0 .. MaxAttempts]
    BY DEF OnClose, ScheduleReconnect, Inv, TypeOK
  <2>2. timer' \in [Markets -> BOOLEAN]
    BY DEF OnClose, ScheduleReconnect, Inv, TypeOK
  <2>3. conn' \in [Markets -> {"none", "up", "dropped", "closed"}]
    BY DEF OnClose, Inv, TypeOK
  <2> QED
    BY <2>1, <2>2, <2>3 DEF OnClose, Inv, TypeOK
<1>2. \A n \in Markets : Subscribed(n)'
  BY DEF OnClose, ScheduleReconnect, Inv, TypeOK, Subscribed
<1> QED
  BY <1>1, <1>2 DEF OnClose, Inv, Live, Alone

LEMMA OnLateCloseInv == ASSUME Inv, NEW m \in Markets, OnLateClose(m) PROVE Inv'
<1>1. TypeOK'
  BY DEF OnLateClose, IgnoreLateClose, Inv, TypeOK
<1>2. \A n \in Markets : Subscribed(n)'
  BY DEF OnLateClose, IgnoreLateClose, Inv, TypeOK, Subscribed
<1> QED
  BY <1>1, <1>2 DEF OnLateClose, Inv, Live, Alone

LEMMA OnMessageInv ==
    ASSUME Inv, NEW m \in Markets, NEW s \in Streams, OnMessage(m, s) PROVE Inv'
<1>1. /\ stored' = stored \cup {routes[m][s]} /\ s \in streams[m]
      /\ UNCHANGED <<registry, streams, routes, socketVars, drops>>
  BY DEF OnMessage, Inv, Subscribed
<1>2. routes[m][s] \in Wants /\ MarketOf[routes[m][s]] = m /\ StreamOf[routes[m][s]] = s
  BY <1>1 DEF Inv, Subscribed
<1>3. TypeOK'
  BY <1>1, <1>2 DEF Inv, TypeOK, socketVars
<1>4. \A n \in Markets : Subscribed(n)'
  BY <1>1 DEF Inv, Subscribed, socketVars
<1>5. \A w \in stored' : Live(w)'
  BY <1>1, <1>2 DEF Inv, Live, Alone
<1> QED
  BY <1>3, <1>4, <1>5 DEF Inv

LEMMA StepInv == Inv /\ [Next]_vars => Inv'
<1> SUFFICES ASSUME Inv, [Next]_vars PROVE Inv'
  OBVIOUS
<1>1. ASSUME NEW c \in Callers, UnregisterLiveInterest(c) PROVE Inv'
  BY <1>1, EnterInv DEF UnregisterLiveInterest
<1>2. ASSUME NEW c \in Callers, NEW w \in Wants, RegisterLiveInterest(c, w) PROVE Inv'
  BY <1>2, EnterInv DEF RegisterLiveInterest
<1>3. ASSUME NEW m \in Markets, Reconnect(m) \/ Drop(m) \/ OnClose(m) \/ OnLateClose(m)
      PROVE  Inv'
  BY <1>3, ReconnectInv, DropInv, OnCloseInv, OnLateCloseInv
<1>4. ASSUME NEW m \in Markets, NEW s \in Streams, OnMessage(m, s) PROVE Inv'
  BY <1>4, OnMessageInv
<1>5. CASE UNCHANGED vars
  BY <1>5 DEF vars, socketVars, Inv, TypeOK, Subscribed, Live, Alone
<1> QED
  BY <1>1, <1>2, <1>3, <1>4, <1>5 DEF Next

LEMMA FeedInv == Spec => []Inv
<1> QED
  BY InitInv, StepInv, PTL DEF Spec

-----------------------------------------------------------------------------
\* One open socket per market, on the streams the registry asks for, each routed
\* to its caller's want; nothing where nothing is wanted.
THEOREM SocketServes == Spec => []SocketServesRegistry
<1>1. Inv => SocketServesRegistry
  <2> SUFFICES ASSUME Inv, NEW m \in Markets
               PROVE  LET wants == WantsIn(registry, m)
                      IN  /\ leaked[m] = 0
                          /\ conn[m] = "up" => url[m] = StreamsOf(wants)
                          /\ conn[m] = "up" =>
                                \A w \in wants : Alone(w) => routes[m][StreamOf[w]] = w
                          /\ wants = {} => conn[m] = "none" /\ ~timer[m]
    BY DEF SocketServesRegistry
  <2>1. Subscribed(m)
    BY DEF Inv
  <2>2. ASSUME NEW w \in WantsIn(registry, m), Alone(w) PROVE routes[m][StreamOf[w]] = w
    <3>1. StreamOf[w] \in streams[m] /\ MarketOf[w] = m
      BY <2>1 DEF Subscribed, StreamsOf, WantsIn
    <3> QED
      BY <3>1, <2>1, <2>2 DEF Subscribed, Alone
  <2>3. WantsIn(registry, m) = {} => streams[m] = {}
    BY <2>1 DEF Subscribed, StreamsOf
  <2> QED
    BY <2>1, <2>2, <2>3 DEF Subscribed
<1> QED
  BY FeedInv, <1>1, PTL

\* A stored price of a want with a stream of its own has a caller that wants it.
THEOREM NoOrphans == Spec => []NoOrphanTick
<1>1. Inv => NoOrphanTick
  <2> SUFFICES ASSUME Inv, NEW w \in stored, Alone(w) PROVE Wanted(w)
    BY DEF NoOrphanTick
  <2>1. w \in Wants /\ MarketOf[w] \in Markets
    BY DEF Inv, TypeOK
  <2>2. StreamOf[w] \in StreamsOf(WantsIn(registry, MarketOf[w]))
    BY <2>1 DEF Inv, Live, Subscribed
  <2>3. PICK v \in WantsIn(registry, MarketOf[w]) : StreamOf[v] = StreamOf[w]
    BY <2>2 DEF StreamsOf
  <2>4. v \in Wants /\ MarketOf[v] = MarketOf[w]
    BY DEF WantsIn, Inv, TypeOK
  <2>5. v = w
    BY <2>3, <2>4 DEF Alone
  <2> QED
    BY <2>5 DEF WantsIn, Wanted
<1> QED
  BY FeedInv, <1>1, PTL
=============================================================================
