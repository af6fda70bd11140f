------------------------------ MODULE PermitDesk ------------------------------
(***************************************************************************)
(* The pre-trade desk of one user: the versioned trading constitution      *)
(* (execution/service.py), the account snapshot read from the exchange     *)
(* (account_service.py) and the trade permits judged from both             *)
(* (permit_request_service.py, permit_service.py).                         *)
(*                                                                         *)
(* Requests run concurrently in one process.  A request gives way to the   *)
(* others at every await: each query, commit and exchange call is a step,  *)
(* and what it has read may be out of date at the next.  Meanwhile the     *)
(* user opens and closes positions and edits the constitution.             *)
(***************************************************************************)
EXTENDS RiskEngine, Sequences

CONSTANTS
    Requests,       \* handlers of POST /execution/permits
                    \* (one that ends early stands for the other readers of the
                    \* constitution and of the account, who do the same steps)
    Editors,        \* handlers of POST /execution/constitution
    Tickets,        \* what users ask a permit for
    Payloads,       \* valid constitutions users may write
    DefaultRules,   \* the constitution that is seeded
    Deposit,        \* the wallet balance before any position is closed
    Histories,      \* the detectors the synced trades may set off
    SessionAt,      \* _determine_session: the session of every moment
    Day, Week,      \* the windows of the loss limits
    MaxAge,         \* ACCOUNT_STATE_MAX_AGE_SECONDS
    TTL,            \* PERMIT_TTL_SECONDS
    MaxTime,        \* bound: the last moment
    MaxFaults,      \* bound: how many faults a behaviour may hold
    MaxVersions,    \* bound: how many constitutions are written
    MaxPermits      \* bound: how many permits are asked for

Writers == Requests \cup Editors
Rules == Payloads \cup {DefaultRules}
Detectors == {"revenge", "overtrading", "tilt"}

ASSUME DeskAssumption ==
    /\ Requests \cap Editors = {}
    /\ Tickets \subseteq TicketShape({t.symbol : t \in Tickets}, {t.bucket : t \in Tickets})
    /\ Deposit \in Nat
    /\ {Day, Week, MaxAge, TTL, MaxTime, MaxFaults, MaxVersions, MaxPermits} \subseteq Nat
    /\ Day <= Week

\* detect_tilt compares risk percentages, which are zero for every synced trade.
ASSUME HistoryAssumption == Histories \subseteq SUBSET (Detectors \ {"tilt"})

VARIABLES
    now,
    wallet,         \* the exchange's wallet balance
    open,           \* positions that are open
    closed,         \* when a position was closed, as an option
    constitution,   \* trading_constitutions
    audit,          \* constitution_audits
    permits,        \* trade_permits, in insertion order
    cache,          \* _cache of the user, as an option
    pc,             \* where every handler is
    draft,          \* the constitution a handler is about to write
    previous,       \* the version it builds on, as an option
    ticket,         \* the ticket of a request, as an option
    judge,          \* what its permit will be judged by, as an option
    account,        \* the account figures it has read so far
    faults

exchange == <<wallet, open, closed>>
constitutions == <<constitution, audit>>
requestVars == <<ticket, judge, account>>
vars == <<now, wallet, open, closed, constitution, audit, permits, cache, pc, draft,
          previous, ticket, judge, account, faults>>

-----------------------------------------------------------------------------
(* balance to stale are AccountState; openAtStart, readAt and doneAt are    *)
(* history: the positions that were open when the balance was read, when   *)
(* that was, and when the last figures were read.                          *)
NoAccount ==
    [balance |-> 0, open |-> {}, day |-> {}, week |-> {}, flags |-> {}, stale |-> FALSE,
     openAtStart |-> {}, readAt |-> 0, doneAt |-> 0]

\* _unavailable_account_state
Unavailable == [NoAccount EXCEPT !.stale = TRUE]

Versions(rows) == {row.version : row \in rows}

\* The row with the highest version, as an option.
Latest == {row \in constitution : \A other \in constitution : other.version <= row.version}

Init ==
    /\ now = 0
    /\ wallet = Deposit
    /\ open = {}
    /\ closed = [p \in Positions |-> None]
    /\ constitution = {}
    /\ audit = {}
    /\ permits = <<>>
    /\ cache = None
    /\ pc = [h \in Writers |-> "idle"]
    /\ draft = [h \in Writers |-> DefaultRules]
    /\ previous = [h \in Writers |-> None]
    /\ ticket = [r \in Requests |-> None]
    /\ judge = [r \in Requests |-> None]
    /\ account = [r \in Requests |-> NoAccount]
    /\ faults = 0

Goto(h, place) == pc' = [pc EXCEPT ![h] = place]

-----------------------------------------------------------------------------
(* The clock and the exchange.                                             *)

Tick ==
    /\ now < MaxTime
    /\ now' = now + 1
    /\ UNCHANGED <<exchange, constitutions, permits, cache, pc, draft, previous,
                   requestVars, faults>>

OpenPosition ==
    /\ \E p \in Positions \ open :
          /\ closed[p] = None
          /\ open' = open \cup {p}
    /\ UNCHANGED <<now, wallet, closed, constitutions, permits, cache, pc, draft,
                   previous, requestVars, faults>>

ClosePosition ==
    /\ \E p \in open :
          /\ open' = open \ {p}
          /\ closed' = [closed EXCEPT ![p] = Some(now)]
          /\ wallet' = wallet - Loss[p]
    /\ UNCHANGED <<now, constitutions, permits, cache, pc, draft, previous,
                   requestVars, faults>>

-----------------------------------------------------------------------------
(* create_constitution_version, for an editor's payload or for the default *)
(* a request seeds when it finds none.                                     *)

StartEdit(e) ==
    /\ pc[e] = "idle"
    /\ Cardinality(constitution) < MaxVersions
    /\ \E rules \in Payloads : draft' = [draft EXCEPT ![e] = rules]
    /\ previous' = [previous EXCEPT ![e] = Latest]
    /\ Goto(e, "insert")
    /\ UNCHANGED <<now, exchange, constitutions, permits, cache, requestVars, faults>>

StartSeed(r) ==
    /\ pc[r] = "seed"
    /\ previous' = [previous EXCEPT ![r] = Latest]
    /\ Goto(r, "insert")
    /\ UNCHANGED <<now, exchange, constitutions, permits, cache, draft, requestVars, faults>>

\* Mutated form: versions start at zero.
NextVersion_FromZero(rows) == Max(Versions(rows) \cup {-1}) + 1

NextVersion(rows) == Max(Versions(rows) \cup {0}) + 1

\* Mutated form: the table has no unique constraint.
Conflicts_Never(version) == FALSE

\* trading_constitutions_user_id_version_key
Conflicts(version) == version \in Versions(constitution)

ChangedBy(h) == IF h \in Editors THEN "user" ELSE "SYSTEM"

\* A handler that has written, or ended, keeps nothing of the draft.
DropDraft(h) ==
    /\ previous' = [previous EXCEPT ![h] = None]
    /\ draft' = [draft EXCEPT ![h] = DefaultRules]

\* What a request will be judged by: the constitution, and evaluated_at.
Judge(row, moment) == [version |-> row.version, rules |-> row.rules, at |-> moment]

\* The row and its audit entry, in one commit.
InsertVersion(h) ==
    /\ pc[h] = "insert"
    /\ LET version == NextVersion(previous[h])
           row == [version |-> version, rules |-> draft[h], by |-> ChangedBy(h)]
       IN  /\ ~ Conflicts(version)
           /\ constitution' = constitution \cup {row}
           /\ audit' = audit \cup
                  {[version |-> version,
                    action  |-> IF previous[h] = None THEN "create" ELSE "update",
                    by      |-> ChangedBy(h),
                    before  |-> {p.rules : p \in previous[h]},
                    after   |-> draft[h]]}
           /\ judge' = [r \in Requests |-> IF r = h THEN Some(Judge(row, now)) ELSE judge[r]]
    /\ Goto(h, IF h \in Editors THEN "idle" ELSE "clock")
    /\ DropDraft(h)
    /\ UNCHANGED <<now, exchange, permits, cache, ticket, account, faults>>

\* A handler that ends keeps nothing.
EndHandler(h) ==
    /\ Goto(h, "idle")
    /\ DropDraft(h)
    /\ ticket' = [r \in Requests |-> IF r = h THEN None ELSE ticket[r]]
    /\ judge' = [r \in Requests |-> IF r = h THEN None ELSE judge[r]]
    /\ account' = [r \in Requests |-> IF r = h THEN NoAccount ELSE account[r]]

\* Another handler has written this version: the insert raises.
InsertConflicts(h) ==
    /\ pc[h] = "insert"
    /\ Conflicts(NextVersion(previous[h]))
    /\ EndHandler(h)
    /\ UNCHANGED <<now, exchange, constitutions, permits, cache, faults>>

-----------------------------------------------------------------------------
(* request_permit.                                                         *)

\* get_current_constitution answers, and the request takes the time; or there
\* is none and the request goes on to seed one.
StartRequest(r) ==
    /\ pc[r] = "idle"
    /\ Len(permits) < MaxPermits
    /\ \E t \in Tickets : ticket' = [ticket EXCEPT ![r] = Some(t)]
    /\ judge' = [judge EXCEPT ![r] = {Judge(row, now) : row \in Latest}]
    /\ Goto(r, IF Latest = None THEN "seed" ELSE "balance")
    /\ UNCHANGED <<now, exchange, constitutions, permits, cache, draft, previous,
                   account, faults>>

\* The seeded row is refreshed from the database before the time is taken.
TakeTime(r) ==
    /\ pc[r] = "clock"
    /\ judge' = [judge EXCEPT ![r] = {[j EXCEPT !.at = now] : j \in judge[r]}]
    /\ Goto(r, "balance")
    /\ UNCHANGED <<now, exchange, constitutions, permits, cache, draft, previous,
                   ticket, account, faults>>

Reads == {"balance", "positions", "income"}

\* Mutated form: the income is read before the positions.
AfterRead_IncomeFirst(read) ==
    CASE read = "balance" -> "income" [] read = "income" -> "positions" [] OTHER -> "history"

AfterRead(read) ==
    CASE read = "balance" -> "positions" [] read = "positions" -> "income" [] OTHER -> "history"

ClosedWithin(window) == {p \in Positions : \E t \in closed[p] : now - t <= window}

Figures(a, read) ==
    CASE read = "balance" ->
            [a EXCEPT !.balance = wallet, !.openAtStart = open, !.readAt = now]
      [] read = "positions" -> [a EXCEPT !.open = open]
      [] OTHER -> [a EXCEPT !.day = ClosedWithin(Day), !.week = ClosedWithin(Week), !.doneAt = now]

\* get_account_state: one exchange call; after the last the figures are cached.
ReadAccount(r) ==
    /\ pc[r] \in Reads
    /\ LET figures == Figures(account[r], pc[r])
           next == AfterRead(pc[r])
       IN  /\ account' = [account EXCEPT ![r] = figures]
           /\ cache' = IF next = "history" THEN Some([figures |-> figures, at |-> now])
                                           ELSE cache
           /\ Goto(r, next)
    /\ UNCHANGED <<now, exchange, constitutions, permits, draft, previous, ticket,
                   judge, faults>>

\* Mutated form: the cached copy passes for fresh.
Fallback_Fresh(cached) == cached.figures

\* The cached figures of another request, marked stale.
Fallback(cached) == [cached.figures EXCEPT !.stale = TRUE]

Fault ==
    /\ faults < MaxFaults
    /\ faults' = faults + 1

Recent(cached) == now - cached.at < 2 * MaxAge

\* No key, no answer, or an answer that is refused.
FallBack(r) ==
    /\ Fault
    /\ pc[r] \in Reads
    /\ \E c \in cache :
          /\ Recent(c)
          /\ account' = [account EXCEPT ![r] = Fallback(c)]
    /\ Goto(r, "history")
    /\ UNCHANGED <<now, exchange, constitutions, permits, cache, draft, previous,
                   ticket, judge>>

FetchFails(r) ==
    /\ Fault
    /\ pc[r] \in Reads
    /\ \A c \in cache : ~ Recent(c)
    /\ account' = [account EXCEPT ![r] = Unavailable]
    /\ Goto(r, "persist")
    /\ UNCHANGED <<now, exchange, constitutions, permits, cache, draft, previous,
                   ticket, judge>>

ReadHistory(r) ==
    /\ pc[r] = "history"
    /\ \E flags \in Histories :
           account' = [account EXCEPT ![r].flags = flags]
    /\ Goto(r, "persist")
    /\ UNCHANGED <<now, exchange, constitutions, permits, cache, draft, previous,
                   ticket, judge, faults>>

HistoryFails(r) ==
    /\ Fault
    /\ pc[r] = "history"
    /\ account' = [account EXCEPT ![r].stale = TRUE]
    /\ Goto(r, "persist")
    /\ UNCHANGED <<now, exchange, constitutions, permits, cache, draft, previous,
                   ticket, judge>>

\* Sized, judged and persisted, approved or not.
Permit(t, a, j) ==
    LET sizing == IF a.stale THEN NotSized ELSE SizePosition(t, a.balance)
    IN  [ticket      |-> t,
         sizing      |-> sizing,
         account     |-> a,
         version     |-> j.version,
         reasons     |-> EvaluatePermit(t, sizing, a, j.rules, SessionAt[j.at]),
         evaluatedAt |-> j.at,
         expiresAt   |-> j.at + TTL]

IssuePermit(r) ==
    /\ pc[r] = "persist"
    /\ account[r].stale \/ account[r].balance > 0
    /\ \E t \in ticket[r], j \in judge[r] :
           permits' = Append(permits, Permit(t, account[r], j))
    /\ EndHandler(r)
    /\ UNCHANGED <<now, exchange, constitutions, cache, faults>>

\* size_position raises on an empty wallet: no permit.
SizingRaises(r) ==
    /\ pc[r] = "persist"
    /\ ~ account[r].stale /\ account[r].balance <= 0
    /\ EndHandler(r)
    /\ UNCHANGED <<now, exchange, constitutions, permits, cache, faults>>

\* A query or a commit of the handler fails.
Abort(h) ==
    /\ Fault
    /\ pc[h] # "idle"
    /\ EndHandler(h)
    /\ UNCHANGED <<now, exchange, constitutions, permits, cache>>

\* The process dies, and forgets its cache.
Restart ==
    /\ Fault
    /\ cache' = None
    /\ pc' = [h \in Writers |-> "idle"]
    /\ draft' = [h \in Writers |-> DefaultRules]
    /\ previous' = [h \in Writers |-> None]
    /\ ticket' = [r \in Requests |-> None]
    /\ judge' = [r \in Requests |-> None]
    /\ account' = [r \in Requests |-> NoAccount]
    /\ UNCHANGED <<now, exchange, constitutions, permits>>

-----------------------------------------------------------------------------
WriteStep(h) == InsertVersion(h) \/ InsertConflicts(h) \/ Abort(h)

RequestStep(r) ==
    \/ StartRequest(r) \/ StartSeed(r) \/ TakeTime(r) \/ ReadAccount(r) \/ FallBack(r) \/ FetchFails(r)
    \/ ReadHistory(r) \/ HistoryFails(r) \/ IssuePermit(r) \/ SizingRaises(r)

Next ==
    \/ Tick \/ OpenPosition \/ ClosePosition \/ Restart
    \/ \E e \in Editors : StartEdit(e)
    \/ \E h \in Writers : WriteStep(h)
    \/ \E r \in Requests : RequestStep(r)

Spec == Init /\ [][Next]_vars

-----------------------------------------------------------------------------
Row == [version : Nat \ {0}, rules : Rules, by : {"user", "SYSTEM"}]

AuditEntry ==
    [version : Nat \ {0}, action : {"create", "update"}, by : {"user", "SYSTEM"},
     before : SUBSET Rules, after : Rules]

AccountState ==
    [balance : Int, open : SUBSET Positions, day : SUBSET Positions,
     week : SUBSET Positions, flags : SUBSET Detectors, stale : BOOLEAN,
     openAtStart : SUBSET Positions, readAt : Nat, doneAt : Nat]

PermitRow ==
    [ticket : Tickets,
     sizing : [quantity : Nat, notional : Nat, approved : BOOLEAN, liquidation : SUBSET Int],
     account : AccountState, version : Nat \ {0}, reasons : SUBSET PermitCheck,
     evaluatedAt : Nat, expiresAt : Nat]

PcValues == {"idle", "insert", "seed", "clock", "history", "persist"} \cup Reads

AtMostOne(S) == \A x, y \in S : x = y

\* Every variable keeps its shape; a handler that has a place in its code has
\* what it needs there.
TypeOK ==
    /\ now \in Nat
    /\ wallet \in Int
    /\ open \subseteq Positions
    /\ closed \in [Positions -> SUBSET Nat]
    /\ constitution \subseteq Row
    /\ audit \subseteq AuditEntry
    /\ permits \in Seq(PermitRow)
    /\ cache \subseteq [figures : AccountState, at : Nat] /\ AtMostOne(cache)
    /\ pc \in [Writers -> PcValues]
    /\ draft \in [Writers -> Rules]
    /\ previous \in [Writers -> SUBSET Row]
    /\ ticket \in [Requests -> SUBSET Tickets]
    /\ judge \in [Requests -> SUBSET [version : Nat \ {0}, rules : Rules, at : Nat]]
    /\ account \in [Requests -> AccountState]
    /\ faults \in Nat
    /\ \A r \in Requests :
          /\ pc[r] = "idle" <=> ticket[r] = None
          /\ pc[r] \in {"clock", "history", "persist"} \cup Reads => judge[r] # None
          /\ AtMostOne(ticket[r]) /\ AtMostOne(judge[r])

Approved(permit) == permit.reasons = {}

\* The figures behind an approved permit were read after evaluated_at, from which
\* its TTL counts: while it has not expired they are no older than the TTL, also
\* when a fetch fails and the cache of another request is at hand (get_account_state,
\* create_permit).
ApprovedOnFreshFigures ==
    \A i \in DOMAIN permits :
        Approved(permits[i]) => permits[i].account.readAt >= permits[i].evaluatedAt

\* Positions are closed while the account is read, and still nothing slips through
\* between two calls: a position that was open when the first figures were read is
\* in the permit's open positions or in its realized result, unless the calls of
\* this one request took longer than the week of the limit (get_account_state).
NothingSlips ==
    \A i \in DOMAIN permits :
        LET a == permits[i].account
        IN  ~ a.stale /\ a.doneAt - a.readAt <= Week =>
                a.openAtStart \subseteq a.open \cup a.week

\* The trail is complete: versions count up without a gap or a double, every one
\* has its one audit entry, and the entry's before and after are what stood and
\* what was written, whoever wrote at the same time (create_constitution_version).
AuditChain ==
    LET chain == 1 .. Cardinality(constitution)
        RulesOf(v) == {row.rules : row \in {x \in constitution : x.version = v}}
    IN  /\ Versions(constitution) = chain
        /\ Cardinality(audit) = Cardinality(constitution)
        /\ \A v \in chain : \E entry \in audit :
               /\ entry.version = v
               /\ entry.before = RulesOf(v - 1)
               /\ Some(entry.after) = RulesOf(v)
               /\ entry.action = "create" <=> v = 1

\* "Realized risk never exceeds the configured %": hitting the stop with the
\* quantity the permit was sized for costs at most the risk that was asked for.
RiskBudgetKept ==
    \A i \in DOMAIN permits :
        LET t == permits[i].ticket
            p == permits[i]
        IN  p.sizing.approved =>
                1000 * p.sizing.quantity * Distance(t) <= p.account.balance * t.risk

\* "It never approves a position the real liquidation would endanger": the
\* liquidation of an approved leveraged ticket lies beyond its stop.
LiquidationBeyondStop ==
    \A i \in DOMAIN permits :
        LET t == permits[i].ticket
        IN  Approved(permits[i]) /\ t.leverage > 1 => StopFiresFirst(t, LiquidationPrice(t))

=============================================================================
