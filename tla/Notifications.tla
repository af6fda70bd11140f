----------------------------- MODULE Notifications -----------------------------
(***************************************************************************)
(* From a follow settled by the worker to the bell of its owner: the        *)
(* follow watch of the web process (server/follow-watch.ts), the event hub  *)
(* (lib/engine/notifications.ts), the event streams of                      *)
(* routes/api/notifications.ts and the store of each browser tab            *)
(* (hooks/useNotificationStream.ts, stores/notifications.ts).               *)
(*                                                                         *)
(* The watch polls the database: between its query and its answer rows may  *)
(* settle, another check may run, and the process may restart.  Closing     *)
(* times are those of bars, so a row may settle long after its time.        *)
(***************************************************************************)
EXTENDS Integers, Sequences, FiniteSets, SequencesExt

CONSTANTS
    Follows,        \* tracked signals
    Broadcasts,     \* events without an owner: regime, setups, health, spikes
    Users,
    OwnerOf,        \* the user who followed each signal
    Clients,        \* browser tabs
    UserOf,         \* who each is signed in as, Nobody when it is not
    Nobody,
    Checks,         \* polls of the follow watch that may be under way at once
    RecentLimit,    \* RECENT_LIMIT (30 in the code)
    MaxItems,       \* MAX_ITEMS (30 in the code)
    MaxTime,        \* bound: the last closing time
    MaxFaults       \* bound: restarts, lost connections and failed queries

Events == Follows \cup Broadcasts

ASSUME NotificationAssumption ==
    /\ OwnerOf \in [Follows -> Users]
    /\ UserOf \in [Clients -> Users \cup {Nobody}]
    /\ Nobody \notin Users
    /\ Follows \cap Broadcasts = {}
    /\ IsFiniteSet(Follows)
    /\ RecentLimit \in Nat \ {0}
    /\ MaxItems \in Nat \ {0}
    /\ MaxTime \in Nat
    /\ MaxFaults \in Nat

\* A tab's store is never shorter than what the hub replays: both are 30.
ASSUME StoreAssumption == RecentLimit <= MaxItems

VARIABLES
    now,
    closedAt,       \* closed_at of each follow, 0 while it is active
    watching,       \* the interval of the follow watch has been set
    cursor,         \* lastSeenIso
    checks,         \* what each poll under way read, as an option
    recents,        \* recentEvents, newest first
    conn,           \* the tabs with an open stream
    asking,         \* the tabs whose request for a stream awaits their session
    gone,           \* the tabs whose EventSource is closed for good
    wire,           \* what each open stream still has to bring
    items,          \* the store of each tab, newest first
    published,      \* history: how often each event was emitted
    announced,      \* history: how often each tab counted an event as unread
    due,            \* history: follows settled in order, since the last restart
    faults

watchVars == <<watching, cursor, checks>>
hubVars == <<recents, wire, published>>
requestVars == <<asking, gone>>
tabVars == <<conn, requestVars, items, announced>>
vars == <<now, closedAt, watchVars, hubVars, tabVars, due, faults>>

Settled == {f \in Follows : closedAt[f] > 0}

\* visibleTo: an event with an owner is for the owner's streams only.
VisibleTo(e, user) == e \in Broadcasts \/ (e \in Follows /\ OwnerOf[e] = user)

\* The events of a sequence that a tab may see, in their order.
SeenBy(c, events) ==
    LET seen[i \in 0..Len(events)] ==
            IF i = 0 THEN <<>>
            ELSE IF VisibleTo(events[i], UserOf[c]) THEN Append(seen[i - 1], events[i])
            ELSE seen[i - 1]
    IN  seen[Len(events)]

Shortest(events, limit) == SubSeq(events, 1, IF Len(events) < limit THEN Len(events) ELSE limit)

Init ==
    /\ now = 0
    /\ closedAt = [f \in Follows |-> 0]
    /\ watching = FALSE
    /\ cursor = 0
    /\ checks = [k \in Checks |-> {}]
    /\ recents = <<>>
    /\ conn = {} /\ asking = {} /\ gone = {}
    /\ wire = [c \in Clients |-> <<>>]
    /\ items = [c \in Clients |-> <<>>]
    /\ published = [e \in Events |-> 0]
    /\ announced = [c \in Clients |-> [e \in Events |-> 0]]
    /\ due = {}
    /\ faults = 0

Fault == faults < MaxFaults /\ faults' = faults + 1

-----------------------------------------------------------------------------
(* The worker, in a process of its own.                                    *)

Tick ==
    /\ now < MaxTime
    /\ now' = now + 1
    /\ UNCHANGED <<closedAt, watchVars, hubVars, tabVars, due, faults>>

\* A follow settles at the time of the bar that closed it.  It is due when that
\* is later than everything settled and everything seen so far.
Settle ==
    /\ \E f \in Follows \ Settled, time \in 1 .. now :
          /\ closedAt' = [closedAt EXCEPT ![f] = time]
          /\ due' = IF cursor < time /\ \A g \in Settled : closedAt[g] < time
                    THEN due \cup {f} ELSE due
    /\ UNCHANGED <<now, watchVars, hubVars, tabVars, faults>>

-----------------------------------------------------------------------------
(* The hub.                                                                *)

\* emit, once for each of the events: the buffer, then every open stream.
Emit(events) ==
    /\ recents' = Shortest(Reverse(events) \o recents, RecentLimit)
    /\ wire' = [c \in Clients |->
           IF c \in conn THEN wire[c] \o SeenBy(c, events) ELSE wire[c]]
    /\ published' = [e \in Events |->
           published[e] + Cardinality({i \in DOMAIN events : events[i] = e})]

\* The market poll and the other watches, each event under an id of its own.
Broadcast ==
    /\ \E e \in Broadcasts : published[e] = 0 /\ Emit(<<e>>)
    /\ UNCHANGED <<now, closedAt, watchVars, tabVars, due, faults>>

-----------------------------------------------------------------------------
(* The follow watch.                                                       *)

\* listSettledTrackedSince
Fresh(f) == closedAt[f] > cursor

\* The query of a poll.  The interval starts one whether or not the last ended.
StartCheck(k) ==
    /\ watching
    /\ checks[k] = {}
    /\ checks' = [checks EXCEPT ![k] = {{f \in Follows : Fresh(f)}}]
    /\ UNCHANGED <<now, closedAt, watching, cursor, hubVars, tabVars, due, faults>>

\* The rows of a set by closing time, rows of one time in either order.
ByTime(rows) ==
    {order \in [1 .. Cardinality(rows) -> rows] :
        /\ \A f \in rows : \E i \in DOMAIN order : order[i] = f
        /\ \A i, j \in DOMAIN order : i < j => closedAt[order[i]] <= closedAt[order[j]]}

\* Mutated form: the cursor moves to the time of the poll.
CursorAfter_Now(rows) == {now}

\* The one place of the cursor after the rows of a poll; it never moves back.
CursorAfter(rows) ==
    {time \in {cursor} \cup {closedAt[f] : f \in rows} :
        cursor <= time /\ \A f \in rows : closedAt[f] <= time}

\* The rest of the poll runs without a pause.
ApplyCheck(k) ==
    /\ \E rows \in checks[k] :
          /\ cursor' \in CursorAfter(rows)
          /\ \E order \in ByTime(rows) : Emit(order)
    /\ checks' = [checks EXCEPT ![k] = {}]
    /\ UNCHANGED <<now, closedAt, watching, tabVars, due, faults>>

\* The query throws; the next poll reads from the same cursor.
FailCheck(k) ==
    /\ checks[k] # {}
    /\ Fault
    /\ checks' = [checks EXCEPT ![k] = {}]
    /\ UNCHANGED <<now, closedAt, watching, cursor, hubVars, tabVars, due>>

-----------------------------------------------------------------------------
(* The streams and the tabs.                                               *)

\* Mutated form: a new stream brings what comes from now on.
Replay_None(c) == <<>>

\* subscribeToNotifications: the buffer, oldest first.
Replay(c) == SeenBy(c, Reverse(recents))

\* A browser asks for a stream, the first time or again.  The first request sets
\* the interval of the follow watch, whatever becomes of it.
Ask(c) ==
    /\ c \notin conn \cup asking \cup gone
    /\ asking' = asking \cup {c}
    /\ watching' = TRUE
    /\ UNCHANGED <<now, closedAt, cursor, checks, hubVars, conn, gone, items, announced,
                   due, faults>>

\* Its session is found, or it has none: the stream opens.
Connect(c) ==
    /\ c \in asking
    /\ asking' = asking \ {c}
    /\ conn' = conn \cup {c}
    /\ wire' = [wire EXCEPT ![c] = Replay(c)]
    /\ UNCHANGED <<now, closedAt, watchVars, recents, published, gone, items, announced,
                   due, faults>>

\* The query of its session throws.  The answer is an error, after which the
\* browser does not ask again, and nothing in the tab does.
Refuse(c) ==
    /\ c \in asking /\ UserOf[c] # Nobody
    /\ Fault
    /\ asking' = asking \ {c}
    /\ gone' = gone \cup {c}
    /\ UNCHANGED <<now, closedAt, watchVars, hubVars, conn, items, announced, due>>

\* The tab is loaded anew.
Reload(c) ==
    /\ c \in gone
    /\ gone' = gone \ {c}
    /\ UNCHANGED <<now, closedAt, watchVars, hubVars, conn, asking, items, announced, due,
                   faults>>

\* The connection or the tab goes, with what was on its way.
Disconnect(c) ==
    /\ c \in conn \cup asking
    /\ Fault
    /\ conn' = conn \ {c}
    /\ asking' = asking \ {c}
    /\ wire' = [wire EXCEPT ![c] = <<>>]
    /\ UNCHANGED <<now, closedAt, watchVars, recents, published, gone, items, announced, due>>

\* Mutated form: a store smaller than the hub's buffer.
Added_Short(list, e) == Shortest(<<e>> \o list, MaxItems - 1)

Added(list, e) == Shortest(<<e>> \o list, MaxItems)

\* add: an event the store holds is ignored, another is unread.
Receive(c) ==
    /\ wire[c] # <<>>
    /\ wire' = [wire EXCEPT ![c] = Tail(@)]
    /\ LET e == Head(wire[c])
       IN  IF e \in ToSet(items[c])
           THEN UNCHANGED <<items, announced>>
           ELSE /\ items' = [items EXCEPT ![c] = Added(@, e)]
                /\ announced' = [announced EXCEPT ![c][e] = @ + 1]
    /\ UNCHANGED <<now, closedAt, watchVars, conn, requestVars, recents, published, due, faults>>

\* What lastSeenIso starts at.
BootCursor == now

\* The web process restarts: its buffer, its streams and its cursor are gone,
\* the stores of the tabs are kept by the browser.
Restart ==
    /\ Fault
    /\ watching' = FALSE
    /\ cursor' = BootCursor
    /\ checks' = [k \in Checks |-> {}]
    /\ recents' = <<>>
    /\ conn' = {} /\ asking' = {}
    /\ wire' = [c \in Clients |-> <<>>]
    /\ due' = {}
    /\ UNCHANGED <<now, closedAt, gone, items, published, announced>>

-----------------------------------------------------------------------------
CheckStep(k) == StartCheck(k) \/ ApplyCheck(k)

\* The query of the session of a request ends.
Answer(c) == Connect(c) \/ Refuse(c)

Next ==
    \/ Tick \/ Settle \/ Broadcast \/ Restart
    \/ \E k \in Checks : CheckStep(k) \/ FailCheck(k)
    \/ \E c \in Clients : Ask(c) \/ Answer(c) \/ Reload(c) \/ Disconnect(c) \/ Receive(c)

Spec == Init /\ [][Next]_vars

(* The interval fires and queries return or throw; a browser asks for its    *)
(* stream again after a lost connection, and reads from it.  Nothing makes a  *)
(* user load a tab anew.                                                     *)
Fairness ==
    /\ \A k \in Checks : WF_vars(CheckStep(k))
    /\ \A c \in Clients : WF_vars(Ask(c)) /\ WF_vars(Answer(c)) /\ WF_vars(Receive(c))

FairSpec == Spec /\ Fairness
-----------------------------------------------------------------------------
\* The cursor never passes a follow that settled in order before it was
\* announced, whatever checks overlap and whatever settles late meanwhile
\* (check, listSettledTrackedSince).
CursorBehind ==
    \A f \in due : published[f] > 0 \/ cursor < closedAt[f]

\* As long as nothing is emitted twice, no tab counts an event as unread twice,
\* however often its stream is dropped and replayed: the tab's list is never
\* shorter than what the hub replays (add, subscribeToNotifications).
AnnouncedOnce ==
    (\A e \in Events : published[e] <= 1) =>
        \A c \in Clients, e \in Events : announced[c][e] <= 1

\* A follow that settles in order reaches each tab of its owner, through lost
\* connections and failed polls, unless the web process restarts, newer events push
\* it out of the buffer, or the tab was refused a stream and is never loaded anew
\* (check, emit, GET, subscribeToNotifications, add).
PushedOut(f) == published[f] > 0 /\ f \notin ToSet(recents)

SettlementsReachOwners ==
    \A f \in Follows : \A c \in {d \in Clients : UserOf[d] = OwnerOf[f]} :
        \/ f \in due ~> (f \notin due \/ announced[c][f] > 0 \/ PushedOut(f))
        \/ <>[](c \in gone)

=============================================================================
