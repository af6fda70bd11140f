--------------------------- MODULE PermitDeskProofs ---------------------------
(***************************************************************************)
(* Types, the constitution's trail, fresh figures and the risk budget of   *)
(* PermitDesk, for any number of requests, editors, tickets, positions and *)
(* faults.                                                                 *)
(***************************************************************************)
EXTENDS PermitDesk, FiniteSetTheorems, TLAPS

Judgement == [version : Nat \ {0}, rules : Rules, at : Nat]

CachedFigures == [figures : AccountState, at : Nat]

\* The constitution has one row per version, and what a handler is about to build
\* on is one of its rows.
VersionsUnique == \A a, b \in constitution : a.version = b.version => a = b

PreviousStands ==
    \A h \in Writers : previous[h] \subseteq constitution /\ AtMostOne(previous[h])

\* Both tables are finite and the audit holds no entry of a version that is not there.
TablesFinite ==
    /\ IsFiniteSet(constitution) /\ IsFiniteSet(audit)
    /\ \A entry \in audit : entry.version \in Versions(constitution)

TrailInv == VersionsUnique /\ PreviousStands /\ TablesFinite /\ AuditChain

\* A request that has begun to read the account, and what it read, if it is not
\* stale, was read after it took the time it will be judged by.
ReadingSince ==
    \A r \in Requests : \A j \in judge[r] :
        /\ j.at <= now
        /\ pc[r] \in {"positions", "income", "history", "persist"} /\ ~ account[r].stale
               => account[r].readAt >= j.at

PermitInv == ReadingSince /\ ApprovedOnFreshFigures /\ RiskBudgetKept

Inv == TypeOK /\ TrailInv /\ PermitInv

-----------------------------------------------------------------------------
(* Values.                                                                 *)

LEMMA TicketTypes ==
    ASSUME NEW t \in Tickets
    PROVE  /\ t.entry \in Nat \ {0} /\ t.stop \in Nat \ {0}
           /\ t.risk \in Nat /\ t.leverage \in Nat \ {0}
BY DeskAssumption DEF TicketShape

\* Rounding down never exceeds what is divided.
LEMMA FloorBelow ==
    ASSUME NEW a \in Nat, NEW d \in Nat \ {0}
    PROVE  a \div d \in Nat /\ d * (a \div d) <= a
BY SMT

LEMMA QuantityBudget ==
    ASSUME NEW t \in Tickets, NEW balance \in Nat, StopProtects(t)
    PROVE  /\ Quantity(t, balance) \in Nat
           /\ 1000 * Quantity(t, balance) * Distance(t) <= balance * t.risk
<1> DEFINE d == 1000 * Distance(t)
           a == balance * t.risk
<1>1. Distance(t) \in Nat \ {0}
  BY TicketTypes DEF StopProtects, Distance
<1>2. d \in Nat \ {0}
  BY <1>1
<1>3. a \in Nat
  BY TicketTypes
<1> HIDE DEF a, d
<1>4. a \div d \in Nat /\ d * (a \div d) <= a
  BY <1>2, <1>3, FloorBelow
<1>5. Quantity(t, balance) = a \div d
  BY DEF Quantity, a, d
<1> DEFINE q == a \div d
<1>6. 1000 * q * Distance(t) = d * q
  <2> HIDE DEF q
  <2> SUFFICES ASSUME q \in Nat PROVE 1000 * q * Distance(t) = d * q
    BY <1>4 DEF q
  <2> QED
    BY <1>1 DEF d
<1> QED
  BY <1>4, <1>5, <1>6 DEF a

SizingShape == [quantity : Nat, notional : Nat, approved : BOOLEAN, liquidation : SUBSET Int]

LEMMA SizingTypes ==
    ASSUME NEW t \in Tickets, NEW balance \in Nat
    PROVE  /\ SizePosition(t, balance) \in SizingShape
           /\ SizePosition(t, balance).approved =>
                  1000 * SizePosition(t, balance).quantity * Distance(t) <= balance * t.risk
<1> DEFINE quantity == IF Sizable(t) THEN Quantity(t, balance) ELSE 0
           notional == quantity * t.entry
           approved == quantity > 0 /\ quantity >= MinQty /\ notional >= MinNotional
           liquidation == IF approved /\ t.leverage > 1 THEN Some(LiquidationPrice(t)) ELSE None
<1>1. SizePosition(t, balance) =
        [quantity |-> quantity, notional |-> notional, approved |-> approved,
         liquidation |-> liquidation]
  BY DEF SizePosition
<1>2. quantity \in Nat
  BY QuantityBudget DEF Sizable
<1>3. approved => Sizable(t)
  OBVIOUS
<1>4. Sizable(t) => 1000 * quantity * Distance(t) <= balance * t.risk
  BY QuantityBudget DEF Sizable
<1>5. LiquidationPrice(t) \in Int
  BY TicketTypes DEF LiquidationPrice, MaintenanceMarginRate
<1> HIDE DEF quantity
<1>6. notional \in Nat
  BY <1>2, TicketTypes
<1> HIDE DEF notional
<1>7. approved \in BOOLEAN
  OBVIOUS
<1> HIDE DEF approved
<1>8. liquidation \subseteq Int
  BY <1>5 DEF Some, None
<1> QED
  BY <1>1, <1>2, <1>3, <1>4, <1>6, <1>7, <1>8 DEF SizingShape

LEMMA PermitTypes ==
    ASSUME NEW t \in Tickets, NEW a \in AccountState, NEW j \in Judgement,
           a.stale \/ a.balance > 0
    PROVE  /\ Permit(t, a, j) \in PermitRow
           /\ Permit(t, a, j).ticket = t /\ Permit(t, a, j).account = a
           /\ Permit(t, a, j).evaluatedAt = j.at
           /\ Approved(Permit(t, a, j)) => ~ a.stale
           /\ Permit(t, a, j).sizing.approved =>
                  1000 * Permit(t, a, j).sizing.quantity * Distance(t) <= a.balance * t.risk
<1> DEFINE sizing == IF a.stale THEN NotSized ELSE SizePosition(t, a.balance)
           reasons == EvaluatePermit(t, sizing, a, j.rules, SessionAt[j.at])
<1>1. Permit(t, a, j) =
        [ticket |-> t, sizing |-> sizing, account |-> a, version |-> j.version,
         reasons |-> reasons, evaluatedAt |-> j.at, expiresAt |-> j.at + TTL]
  BY DEF Permit
<1>2. a.balance \in Int /\ a.stale \in BOOLEAN
  BY DEF AccountState
<1>3. NotSized \in SizingShape /\ ~ NotSized.approved
  BY DEF NotSized, SizingShape, None
<1>4. /\ sizing \in SizingShape
      /\ sizing.approved => 1000 * sizing.quantity * Distance(t) <= a.balance * t.risk
  <2>1. CASE a.stale
    BY <2>1, <1>3
  <2>2. CASE ~ a.stale
    BY <2>2, <1>2, SizingTypes
  <2> QED
    BY <2>1, <2>2
<1> HIDE DEF sizing
<1>5. reasons \subseteq PermitCheck
  BY DEF EvaluatePermit
<1>6. reasons = {} => ~ a.stale
  <2> DEFINE passed == Checks(t, sizing, a, j.rules, SessionAt[j.at])
  <2>1. passed["STALE_ACCOUNT_STATE"] = ~ a.stale
    BY DEF Checks
  <2>2. "STALE_ACCOUNT_STATE" \in PermitCheck
    BY DEF PermitCheck
  <2>3. reasons = {check \in PermitCheck : ~ passed[check]}
    BY DEF EvaluatePermit
  <2> QED
    BY <2>1, <2>2, <2>3
<1> HIDE DEF reasons
<1>7. j.version \in Nat \ {0} /\ j.at \in Nat /\ j.at + TTL \in Nat
  BY DeskAssumption DEF Judgement
<1>8. Permit(t, a, j) \in PermitRow
  BY <1>1, <1>4, <1>5, <1>7 DEF PermitRow, SizingShape
<1> QED
  BY <1>1, <1>4, <1>6, <1>8 DEF Approved

-----------------------------------------------------------------------------
(* Types.                                                                  *)

\* The two halves of TypeOK: what is shared, and what every handler has at hand.
SharedTypes ==
    /\ now \in Nat
    /\ wallet \in Int
    /\ open \subseteq Positions
    /\ closed \in [Positions -> SUBSET Nat]
    /\ constitution \subseteq Row
    /\ audit \subseteq AuditEntry
    /\ permits \in Seq(PermitRow)
    /\ cache \subseteq CachedFigures /\ AtMostOne(cache)
    /\ faults \in Nat

HandlerTypes ==
    /\ pc \in [Writers -> PcValues]
    /\ draft \in [Writers -> Rules]
    /\ previous \in [Writers -> SUBSET Row]
    /\ ticket \in [Requests -> SUBSET Tickets]
    /\ judge \in [Requests -> SUBSET Judgement]
    /\ account \in [Requests -> AccountState]

Places ==
    \A r \in Requests :
        /\ pc[r] = "idle" <=> ticket[r] = None
        /\ pc[r] \in {"clock", "history", "persist"} \cup Reads => judge[r] # None
        /\ AtMostOne(ticket[r]) /\ AtMostOne(judge[r])

LEMMA TypeHalves == TypeOK <=> SharedTypes /\ HandlerTypes /\ Places
BY DEF TypeOK, SharedTypes, HandlerTypes, Places, CachedFigures, Judgement

LEMMA TypeHalvesPrimed == TypeOK' <=> SharedTypes' /\ HandlerTypes' /\ Places'
BY DEF TypeOK, SharedTypes, HandlerTypes, Places, CachedFigures, Judgement

LEMMA AccountTypes ==
    /\ NoAccount \in AccountState /\ Unavailable \in AccountState
    /\ \A c \in CachedFigures : Fallback(c) \in AccountState
<1>1. NoAccount \in AccountState
  BY DEF NoAccount, AccountState
<1>2. Unavailable \in AccountState
  BY <1>1 DEF Unavailable, AccountState
<1>3. ASSUME NEW c \in CachedFigures PROVE Fallback(c) \in AccountState
  BY DEF CachedFigures, Fallback, AccountState
<1> QED
  BY <1>1, <1>2, <1>3

LEMMA FiguresTypes ==
    ASSUME SharedTypes, NEW a \in AccountState, NEW read \in Reads
    PROVE  Figures(a, read) \in AccountState
BY DEF SharedTypes, AccountState, Figures, Reads, ClosedWithin

LEMMA NextVersionType ==
    ASSUME NEW rows \in SUBSET Row, AtMostOne(rows)
    PROVE  /\ rows = {} => NextVersion(rows) = 1
           /\ \A row \in rows : NextVersion(rows) = row.version + 1
           /\ NextVersion(rows) \in Nat \ {0}
<1>1. CASE rows = {}
  <2>1. Versions(rows) \cup {0} = {0}
    BY <1>1 DEF Versions
  <2>2. Max({0}) = 0
    BY DEF Max
  <2> QED
    BY <1>1, <2>1, <2>2 DEF NextVersion
<1>2. ASSUME NEW row \in rows PROVE NextVersion(rows) = row.version + 1 /\ row.version \in Nat
  <2>1. row.version \in Nat \ {0}
    BY DEF Row
  <2> DEFINE v == row.version
  <2>2. Versions(rows) \cup {0} = {v, 0}
    BY DEF Versions, AtMostOne
  <2>3. Max({v, 0}) = v
    BY <2>1 DEF Max
  <2> QED
    BY <2>1, <2>2, <2>3 DEF NextVersion
<1> QED
  BY <1>1, <1>2

LEMMA TypeInit == Init => TypeOK
<1> SUFFICES ASSUME Init PROVE TypeOK
  OBVIOUS
<1>1. SharedTypes
  BY DeskAssumption DEF Init, SharedTypes, None, AtMostOne
<1>2. HandlerTypes
  BY AccountTypes DEF Init, HandlerTypes, PcValues, Rules, None, Writers
<1>3. Places
  BY DEF Init, Places, None, AtMostOne, Reads, Writers
<1> QED
  BY <1>1, <1>2, <1>3, TypeHalves

LEMMA EndHandlerTypes ==
    ASSUME HandlerTypes, Places, NEW h \in Writers, EndHandler(h)
    PROVE  HandlerTypes' /\ Places'
<1>1. HandlerTypes'
  BY AccountTypes DEF HandlerTypes, EndHandler, Goto, DropDraft, PcValues, Rules, None
<1>2. Places'
  BY DEF HandlerTypes, Places, EndHandler, Goto, None, AtMostOne, Reads, Writers
<1> QED
  BY <1>1, <1>2

\* Time and the exchange touch no handler.
LEMMA WorldTypes ==
    ASSUME TypeOK, Tick \/ OpenPosition \/ ClosePosition
    PROVE  TypeOK'
<1>1. SharedTypes /\ HandlerTypes /\ Places
  BY TypeHalves
<1>2. HandlerTypes' /\ Places'
  BY <1>1 DEF Tick, OpenPosition, ClosePosition, HandlerTypes, Places, requestVars
<1>3. SharedTypes'
  <2>1. CASE Tick
    BY <1>1, <2>1 DEF Tick, SharedTypes, exchange, constitutions
  <2>2. CASE OpenPosition
    BY <1>1, <2>2 DEF OpenPosition, SharedTypes, constitutions
  <2>3. CASE ClosePosition
    <3>1. PICK p \in open : /\ open' = open \ {p}
                            /\ closed' = [closed EXCEPT ![p] = Some(now)]
                            /\ wallet' = wallet - Loss[p]
      BY <2>3 DEF ClosePosition
    <3>2. wallet' \in Int
      BY <1>1, <3>1, PositionAssumption DEF SharedTypes
    <3>3. closed' \in [Positions -> SUBSET Nat]
      BY <1>1, <3>1 DEF SharedTypes, Some
    <3> QED
      BY <1>1, <2>3, <3>1, <3>2, <3>3 DEF ClosePosition, SharedTypes, constitutions
  <2> QED
    BY <2>1, <2>2, <2>3
<1> QED
  BY <1>2, <1>3, TypeHalvesPrimed

LEMMA WriteTypes ==
    ASSUME Inv, NEW h \in Writers, InsertVersion(h) \/ InsertConflicts(h)
    PROVE  TypeOK'
<1>1. SharedTypes /\ HandlerTypes /\ Places
  BY TypeHalves DEF Inv
<1>2. CASE InsertConflicts(h)
  <2>1. HandlerTypes' /\ Places'
    BY <1>1, <1>2, EndHandlerTypes DEF InsertConflicts
  <2>2. SharedTypes'
    BY <1>1, <1>2 DEF InsertConflicts, SharedTypes, exchange, constitutions
  <2> QED
    BY <2>1, <2>2, TypeHalvesPrimed
<1>3. CASE InsertVersion(h)
  <2> DEFINE version == NextVersion(previous[h])
             row == [version |-> version, rules |-> draft[h], by |-> ChangedBy(h)]
             entry == [version |-> version,
                       action  |-> IF previous[h] = None THEN "create" ELSE "update",
                       by      |-> ChangedBy(h),
                       before  |-> {p.rules : p \in previous[h]},
                       after   |-> draft[h]]
  <2>1. previous[h] \in SUBSET Row /\ AtMostOne(previous[h]) /\ draft[h] \in Rules
    BY <1>1 DEF HandlerTypes, Inv, TrailInv, PreviousStands
  <2>2. version \in Nat \ {0}
    BY <2>1, NextVersionType
  <2>3. ChangedBy(h) \in {"user", "SYSTEM"}
    BY DEF ChangedBy
  <2>4. {p.rules : p \in previous[h]} \subseteq Rules
    BY <2>1 DEF Row
  <2> HIDE DEF version
  <2>5. row \in Row
    BY <2>1, <2>2, <2>3 DEF Row
  <2>6. entry \in AuditEntry
    BY <2>1, <2>2, <2>3, <2>4 DEF AuditEntry
  <2>7. Judge(row, now) \in Judgement
    BY <1>1, <2>5 DEF Judge, Judgement, Row, SharedTypes
  <2> HIDE DEF row, entry
  <2>8. /\ constitution' = constitution \cup {row}
        /\ audit' = audit \cup {entry}
        /\ judge' = [r \in Requests |-> IF r = h THEN Some(Judge(row, now)) ELSE judge[r]]
        /\ pc' = [pc EXCEPT ![h] = IF h \in Editors THEN "idle" ELSE "clock"]
        /\ previous' = [previous EXCEPT ![h] = None]
        /\ draft' = [draft EXCEPT ![h] = DefaultRules]
        /\ pc[h] = "insert"
        /\ UNCHANGED <<now, wallet, open, closed, permits, cache, ticket, account, faults>>
    BY <1>3 DEF InsertVersion, Goto, DropDraft, exchange, row, entry, version
  <2>9. SharedTypes'
    BY <1>1, <2>5, <2>6, <2>8 DEF SharedTypes
  <2>10. HandlerTypes'
    BY <1>1, <2>7, <2>8 DEF HandlerTypes, PcValues, Rules, None, Some
  <2>11. Places'
    <3> SUFFICES ASSUME NEW r \in Requests
                 PROVE  /\ pc'[r] = "idle" <=> ticket'[r] = None
                        /\ pc'[r] \in {"clock", "history", "persist"} \cup Reads
                               => judge'[r] # None
                        /\ AtMostOne(ticket'[r]) /\ AtMostOne(judge'[r])
      BY DEF Places
    <3>1. CASE r = h
      <4>1. r \notin Editors
        BY DeskAssumption
      <4>2. pc'[r] = "clock" /\ pc[r] = "insert" /\ judge'[r] = Some(Judge(row, now))
        BY <1>1, <2>8, <3>1, <4>1 DEF HandlerTypes
      <4> QED
        BY <1>1, <2>8, <4>2 DEF Places, Some, None, AtMostOne, Reads
    <3>2. CASE r # h
      BY <1>1, <2>8, <3>2 DEF Places, HandlerTypes, Writers
    <3> QED
      BY <3>1, <3>2
  <2> QED
    BY <2>9, <2>10, <2>11, TypeHalvesPrimed
<1> QED
  BY <1>2, <1>3

LEMMA LatestTypes ==
    ASSUME SharedTypes, VersionsUnique
    PROVE  Latest \subseteq constitution /\ Latest \subseteq Row /\ AtMostOne(Latest)
BY DEF SharedTypes, VersionsUnique, Latest, AtMostOne, Row

LEMMA StartTypes ==
    ASSUME Inv,
           \/ \E e \in Editors : StartEdit(e)
           \/ \E r \in Requests : StartSeed(r) \/ StartRequest(r) \/ TakeTime(r)
    PROVE  TypeOK'
<1>1. SharedTypes /\ HandlerTypes /\ Places
  BY TypeHalves DEF Inv
<1>2. Latest \subseteq Row /\ AtMostOne(Latest)
  BY <1>1, LatestTypes DEF Inv, TrailInv
<1>3. ASSUME NEW e \in Editors, StartEdit(e) PROVE TypeOK'
  <2>1. e \notin Requests /\ e \in Writers
    BY DeskAssumption DEF Writers
  <2>2. SharedTypes'
    BY <1>1, <1>3 DEF StartEdit, SharedTypes, exchange, constitutions
  <2>3. HandlerTypes'
    BY <1>1, <1>2, <1>3 DEF StartEdit, HandlerTypes, Goto, PcValues, Rules, requestVars
  <2>4. Places'
    BY <1>1, <1>3, <2>1 DEF StartEdit, HandlerTypes, Places, Goto, Writers, requestVars
  <2> QED
    BY <2>2, <2>3, <2>4, TypeHalvesPrimed
<1>4. ASSUME NEW r \in Requests, StartSeed(r) PROVE TypeOK'
  <2>2. SharedTypes'
    BY <1>1, <1>4 DEF StartSeed, SharedTypes, exchange, constitutions
  <2>3. HandlerTypes'
    BY <1>1, <1>2, <1>4 DEF StartSeed, HandlerTypes, Goto, PcValues, requestVars
  <2>4. Places'
    BY <1>1, <1>4 DEF StartSeed, HandlerTypes, Places, Goto, Writers, Reads, requestVars
  <2> QED
    BY <2>2, <2>3, <2>4, TypeHalvesPrimed
<1>5. ASSUME NEW r \in Requests, StartRequest(r) PROVE TypeOK'
  <2>1. {Judge(row, now) : row \in Latest} \subseteq Judgement
    BY <1>1, <1>2 DEF Judge, Judgement, Row, SharedTypes
  <2>2. SharedTypes'
    BY <1>1, <1>5 DEF StartRequest, SharedTypes, exchange, constitutions
  <2>3. HandlerTypes'
    BY <1>1, <1>5, <2>1 DEF StartRequest, HandlerTypes, Goto, PcValues, Reads, Some
  <2>4. ASSUME NEW q \in Requests
        PROVE  /\ pc'[q] = "idle" <=> ticket'[q] = None
               /\ pc'[q] \in {"clock", "history", "persist"} \cup Reads => judge'[q] # None
               /\ AtMostOne(ticket'[q]) /\ AtMostOne(judge'[q])
    <3>1. CASE q = r
      <4>1. /\ pc'[q] = (IF Latest = None THEN "seed" ELSE "balance")
            /\ judge'[q] = {Judge(row, now) : row \in Latest}
            /\ \E t \in Tickets : ticket'[q] = Some(t)
        BY <1>1, <1>5, <3>1 DEF StartRequest, HandlerTypes, Goto, Writers
      <4>2. AtMostOne(judge'[q])
        BY <1>2, <4>1 DEF AtMostOne
      <4> QED
        BY <4>1, <4>2 DEF None, Some, AtMostOne, Reads
    <3>2. CASE q # r
      BY <1>1, <1>5, <3>2 DEF StartRequest, HandlerTypes, Places, Goto, Writers
    <3> QED
      BY <3>1, <3>2
  <2> QED
    BY <2>2, <2>3, <2>4, TypeHalvesPrimed DEF Places
<1>6. ASSUME NEW r \in Requests, TakeTime(r) PROVE TypeOK'
  <2>1. \A j \in judge[r] : [j EXCEPT !.at = now] \in Judgement
    BY <1>1 DEF SharedTypes, HandlerTypes, Judgement
  <2>2. SharedTypes'
    BY <1>1, <1>6 DEF TakeTime, SharedTypes, exchange, constitutions
  <2> DEFINE timed == {[j EXCEPT !.at = now] : j \in judge[r]}
  <2>5. timed \subseteq Judgement
    BY <2>1
  <2>6. judge' = [judge EXCEPT ![r] = timed]
    BY <1>6 DEF TakeTime
  <2>7. AtMostOne(judge[r]) /\ judge[r] # None => AtMostOne(timed) /\ timed # None
    <3>1. ASSUME AtMostOne(judge[r]), NEW x \in timed, NEW y \in timed PROVE x = y
      <4>1. PICK j \in judge[r] : x = [j EXCEPT !.at = now]
        BY <3>1
      <4>2. PICK k \in judge[r] : y = [k EXCEPT !.at = now]
        BY <3>1
      <4>3. j = k
        BY <3>1 DEF AtMostOne
      <4> QED
        BY <4>1, <4>2, <4>3
    <3>2. ASSUME judge[r] # None PROVE timed # None
      BY <3>2 DEF None
    <3> QED
      BY <3>1, <3>2 DEF AtMostOne
  <2> HIDE DEF timed
  <2>3. HandlerTypes'
    BY <1>1, <1>6, <2>5, <2>6 DEF TakeTime, HandlerTypes, Goto, PcValues, Reads
  <2>4. ASSUME NEW q \in Requests
        PROVE  /\ pc'[q] = "idle" <=> ticket'[q] = None
               /\ pc'[q] \in {"clock", "history", "persist"} \cup Reads => judge'[q] # None
               /\ AtMostOne(ticket'[q]) /\ AtMostOne(judge'[q])
    <3>1. CASE q = r
      <4>1. /\ pc[q] = "clock" /\ pc'[q] = "balance" /\ ticket'[q] = ticket[q]
            /\ judge'[q] = timed
        BY <1>1, <1>6, <2>6, <3>1 DEF TakeTime, HandlerTypes, Goto, Writers
      <4>2. judge[q] # None /\ AtMostOne(judge[q]) /\ AtMostOne(ticket[q]) /\ ticket[q] # None
        BY <1>1, <4>1 DEF Places
      <4>3. AtMostOne(judge'[q]) /\ judge'[q] # None
        BY <2>7, <3>1, <4>1, <4>2
      <4> QED
        BY <4>1, <4>2, <4>3
    <3>2. CASE q # r
      BY <1>1, <1>6, <3>2 DEF TakeTime, HandlerTypes, Places, Goto, Writers
    <3> QED
      BY <3>1, <3>2
  <2> QED
    BY <2>2, <2>3, <2>4, TypeHalvesPrimed DEF Places
<1> QED
  BY <1>3, <1>4, <1>5, <1>6

\* The steps of a request that read the account or the history: what is shared
\* stays but for the cache, and the request goes on with figures of the right shape.
Advances(r, figures, place) ==
    /\ account' = [account EXCEPT ![r] = figures]
    /\ pc' = [pc EXCEPT ![r] = place]
    /\ UNCHANGED <<now, wallet, open, closed, constitution, audit, permits, draft,
                   previous, ticket, judge>>

LEMMA AdvancesTypes ==
    ASSUME TypeOK, NEW r \in Requests, NEW figures \in AccountState, NEW place \in PcValues,
           Advances(r, figures, place),
           pc[r] \in Reads \cup {"history"}, place \in Reads \cup {"history", "persist"},
           cache' \subseteq CachedFigures, AtMostOne(cache'), faults' \in Nat
    PROVE  TypeOK'
<1>1. SharedTypes /\ HandlerTypes /\ Places
  BY TypeHalves
<1>2. SharedTypes'
  BY <1>1 DEF Advances, SharedTypes
<1>3. HandlerTypes'
  BY <1>1 DEF Advances, HandlerTypes
<1>4. Places'
  BY <1>1 DEF Advances, HandlerTypes, Places, Writers, Reads
<1> QED
  BY <1>2, <1>3, <1>4, TypeHalvesPrimed

\* Which step goes on with which figures.
ReadingStep(r, figures, place) ==
    /\ Advances(r, figures, place)
    /\ \/ /\ pc[r] \in Reads /\ place = AfterRead(pc[r])
          /\ figures = Figures(account[r], pc[r])
          /\ cache' \in {cache, Some([figures |-> figures, at |-> now])}
       \/ /\ cache' = cache /\ pc[r] \in Reads \cup {"history"}
          /\ place \in {"history", "persist"} /\ figures.stale
       \/ /\ cache' = cache /\ pc[r] = "history" /\ place = "persist"
          /\ \E flags \in Histories : figures = [account[r] EXCEPT !.flags = flags]

LEMMA ReadingSteps ==
    ASSUME TypeOK, NEW r \in Requests,
           ReadAccount(r) \/ FallBack(r) \/ FetchFails(r) \/ ReadHistory(r) \/ HistoryFails(r)
    PROVE  /\ \E figures \in AccountState, place \in Reads \cup {"history", "persist"} :
                  ReadingStep(r, figures, place)
           /\ faults' \in Nat
<1>1. SharedTypes /\ HandlerTypes /\ account[r] \in AccountState /\ account[r].stale \in BOOLEAN
  BY TypeHalves DEF HandlerTypes, AccountState
<1>2. CASE ReadAccount(r)
  <2> DEFINE figures == Figures(account[r], pc[r])
             place == AfterRead(pc[r])
  <2>1. figures \in AccountState
    BY <1>1, <1>2, FiguresTypes DEF ReadAccount
  <2>2. place \in Reads \cup {"history", "persist"}
    BY <1>2 DEF ReadAccount, AfterRead, Reads
  <2>3. ReadingStep(r, figures, place)
    BY <1>2 DEF ReadAccount, ReadingStep, Advances, Goto, exchange, constitutions
  <2> QED
    BY <1>1, <1>2, <2>1, <2>2, <2>3 DEF ReadAccount, SharedTypes
<1>3. CASE FallBack(r)
  <2>1. PICK c \in cache : account' = [account EXCEPT ![r] = Fallback(c)]
    BY <1>3 DEF FallBack
  <2>2. Fallback(c) \in AccountState /\ Fallback(c).stale
    BY <1>1, <2>1, AccountTypes DEF SharedTypes, Fallback, CachedFigures, AccountState
  <2>3. ReadingStep(r, Fallback(c), "history")
    BY <1>3, <2>1, <2>2 DEF FallBack, ReadingStep, Advances, Goto, exchange, constitutions
  <2> QED
    BY <1>1, <1>3, <2>2, <2>3 DEF FallBack, Fault, SharedTypes
<1>4. CASE FetchFails(r)
  <2>1. Unavailable \in AccountState /\ Unavailable.stale
    BY AccountTypes DEF Unavailable, NoAccount
  <2>2. ReadingStep(r, Unavailable, "persist")
    BY <1>4, <2>1 DEF FetchFails, ReadingStep, Advances, Goto, exchange, constitutions
  <2> QED
    BY <1>1, <1>4, <2>1, <2>2 DEF FetchFails, Fault, SharedTypes
<1>5. CASE ReadHistory(r)
  <2>1. PICK flags \in Histories : account' = [account EXCEPT ![r].flags = flags]
    BY <1>5 DEF ReadHistory
  <2> DEFINE figures == [account[r] EXCEPT !.flags = flags]
  <2>2. /\ figures \in AccountState
        /\ \E f \in Histories : figures = [account[r] EXCEPT !.flags = f]
    BY <1>1, HistoryAssumption DEF AccountState
  <2>3. account' = [account EXCEPT ![r] = figures]
    BY <2>1
  <2> HIDE DEF figures
  <2>4. ReadingStep(r, figures, "persist")
    BY <1>5, <2>2, <2>3 DEF ReadHistory, ReadingStep, Advances, Goto, exchange, constitutions
  <2> QED
    BY <1>1, <1>5, <2>2, <2>4 DEF ReadHistory, SharedTypes
<1>6. CASE HistoryFails(r)
  <2> DEFINE figures == [account[r] EXCEPT !.stale = TRUE]
  <2>1. figures \in AccountState /\ figures.stale
    BY <1>1 DEF AccountState
  <2>2. account' = [account EXCEPT ![r] = figures]
    BY <1>6 DEF HistoryFails
  <2> HIDE DEF figures
  <2>3. ReadingStep(r, figures, "persist")
    BY <1>6, <2>1, <2>2 DEF HistoryFails, ReadingStep, Advances, Goto, exchange, constitutions
  <2> QED
    BY <1>1, <1>6, <2>1, <2>3 DEF HistoryFails, Fault, SharedTypes
<1> QED
  BY <1>2, <1>3, <1>4, <1>5, <1>6

LEMMA ReadingTypes ==
    ASSUME TypeOK, NEW r \in Requests,
           ReadAccount(r) \/ FallBack(r) \/ FetchFails(r) \/ ReadHistory(r) \/ HistoryFails(r)
    PROVE  TypeOK'
<1>1. PICK figures \in AccountState, place \in Reads \cup {"history", "persist"} :
          ReadingStep(r, figures, place)
  BY ReadingSteps
<1>2. cache \subseteq CachedFigures /\ AtMostOne(cache) /\ now \in Nat
  BY TypeHalves DEF SharedTypes
<1>3. cache' \subseteq CachedFigures /\ AtMostOne(cache')
  BY <1>1, <1>2 DEF ReadingStep, CachedFigures, AtMostOne, Some
<1>4. place \in PcValues
  BY DEF PcValues
<1> QED
  BY <1>1, <1>3, <1>4, AdvancesTypes, ReadingSteps DEF ReadingStep

LEMMA IssueTypes ==
    ASSUME TypeOK, NEW r \in Requests, IssuePermit(r)
    PROVE  /\ TypeOK'
           /\ \E t \in Tickets, j \in judge[r] :
                  /\ j \in Judgement
                  /\ account[r].stale \/ account[r].balance > 0
                  /\ permits' = Append(permits, Permit(t, account[r], j))
<1>1. SharedTypes /\ HandlerTypes /\ Places /\ r \in Writers
  BY TypeHalves DEF Writers
<1>2. PICK t \in ticket[r], j \in judge[r] :
          permits' = Append(permits, Permit(t, account[r], j))
  BY DEF IssuePermit
<1>3. t \in Tickets /\ j \in Judgement /\ account[r] \in AccountState
  BY <1>1, <1>2 DEF HandlerTypes
<1>4. account[r].stale \/ account[r].balance > 0
  BY DEF IssuePermit
<1>5. Permit(t, account[r], j) \in PermitRow
  BY <1>3, <1>4, PermitTypes
<1>6. SharedTypes'
  BY <1>1, <1>2, <1>5 DEF IssuePermit, SharedTypes, exchange, constitutions
<1>7. HandlerTypes' /\ Places'
  BY <1>1, EndHandlerTypes DEF IssuePermit
<1> QED
  BY <1>2, <1>3, <1>4, <1>6, <1>7, TypeHalvesPrimed

LEMMA EndTypes ==
    ASSUME TypeOK, NEW h \in Writers, Abort(h) \/ (h \in Requests /\ SizingRaises(h))
    PROVE  TypeOK'
<1>1. SharedTypes /\ HandlerTypes /\ Places
  BY TypeHalves
<1>2. EndHandler(h)
  BY DEF Abort, SizingRaises
<1>3. SharedTypes'
  BY <1>1 DEF Abort, SizingRaises, Fault, SharedTypes, exchange, constitutions
<1> QED
  BY <1>1, <1>2, <1>3, EndHandlerTypes, TypeHalvesPrimed

LEMMA RestartTypes == ASSUME TypeOK, Restart PROVE TypeOK'
<1>1. SharedTypes /\ HandlerTypes /\ Places
  BY TypeHalves
<1>2. SharedTypes'
  BY <1>1 DEF Restart, Fault, SharedTypes, exchange, constitutions, None, AtMostOne
<1>3. HandlerTypes'
  BY AccountTypes DEF Restart, HandlerTypes, PcValues, Rules, None
<1>4. Places'
  BY DEF Restart, Places, None, AtMostOne, Reads, Writers
<1> QED
  BY <1>2, <1>3, <1>4, TypeHalvesPrimed

\* The steps of a handler by what they do to the tables.
LEMMA StepKinds ==
    ASSUME Next
    PROVE  \/ Tick \/ OpenPosition \/ ClosePosition \/ Restart
           \/ \E e \in Editors : StartEdit(e)
           \/ \E r \in Requests : StartSeed(r) \/ StartRequest(r) \/ TakeTime(r)
           \/ \E h \in Writers : InsertVersion(h) \/ InsertConflicts(h)
           \/ \E h \in Writers : Abort(h) \/ (h \in Requests /\ SizingRaises(h))
           \/ \E r \in Requests : ReadAccount(r) \/ FallBack(r) \/ FetchFails(r)
                                  \/ ReadHistory(r) \/ HistoryFails(r)
           \/ \E r \in Requests : IssuePermit(r)
BY DEF Next, WriteStep, RequestStep, Writers

LEMMA TypeStutter == ASSUME TypeOK, UNCHANGED vars PROVE TypeOK'
BY DEF TypeOK, vars

LEMMA TypeStep == ASSUME Inv, [Next]_vars PROVE TypeOK'
<1>1. TypeOK
  BY DEF Inv
<1> QED
  BY <1>1, StepKinds, TypeStutter, WorldTypes, StartTypes, WriteTypes, ReadingTypes, IssueTypes,
     EndTypes, RestartTypes

-----------------------------------------------------------------------------
(* The trail of the constitution.                                          *)

LEMMA TrailInit == Init => TrailInv
<1> SUFFICES ASSUME Init PROVE TrailInv
  OBVIOUS
<1>1. constitution = {} /\ audit = {} /\ \A h \in Writers : previous[h] = {}
  BY DEF Init, None
<1>2. Cardinality({}) = 0 /\ IsFiniteSet({})
  BY FS_EmptySet
<1>3. AuditChain
  BY <1>1, <1>2 DEF AuditChain, Versions
<1> QED
  BY <1>1, <1>2, <1>3 DEF TrailInv, VersionsUnique, PreviousStands, TablesFinite, AtMostOne

\* Only an insert writes the two tables; what handlers build on stays among the rows.
LEMMA TrailKept ==
    ASSUME TrailInv, UNCHANGED constitutions, PreviousStands'
    PROVE  TrailInv'
BY DEF TrailInv, VersionsUnique, TablesFinite, AuditChain, Versions, constitutions

LEMMA TrailInsert ==
    ASSUME Inv, NEW h \in Writers, InsertVersion(h)
    PROVE  TrailInv'
<1>1. SharedTypes /\ HandlerTypes
  BY TypeHalves DEF Inv
<1>2. VersionsUnique /\ PreviousStands /\ TablesFinite /\ AuditChain
  BY DEF Inv, TrailInv
<1> DEFINE n == Cardinality(constitution)
           version == NextVersion(previous[h])
           row == [version |-> version, rules |-> draft[h], by |-> ChangedBy(h)]
           entry == [version |-> version,
                     action  |-> IF previous[h] = None THEN "create" ELSE "update",
                     by      |-> ChangedBy(h),
                     before  |-> {p.rules : p \in previous[h]},
                     after   |-> draft[h]]
           RulesOf(v) == {x.rules : x \in {y \in constitution : y.version = v}}
<1>3. /\ constitution' = constitution \cup {row}
      /\ audit' = audit \cup {entry}
      /\ previous' = [previous EXCEPT ![h] = None]
      /\ version \notin Versions(constitution)
  BY DEF InsertVersion, Conflicts, DropDraft
<1>4. Versions(constitution) = 1 .. n /\ n \in Nat /\ Cardinality(audit) = n
  BY <1>2, FS_CardinalityType DEF AuditChain, TablesFinite
<1>5. \A p \in previous[h] : p \in constitution /\ p.version \in 1 .. n
  BY <1>2, <1>4 DEF PreviousStands, Versions
<1>6. previous[h] \in SUBSET Row /\ AtMostOne(previous[h])
  BY <1>1, <1>2 DEF HandlerTypes, PreviousStands
\* The previous row is the last one: its successor would exist otherwise.
<1>7. /\ version = n + 1
      /\ previous[h] = {} <=> n = 0
      /\ \A p \in previous[h] : p.version = n
  <2>1. CASE previous[h] = {}
    <3>1. version = 1
      BY <1>6, <2>1, NextVersionType
    <3> QED
      BY <1>3, <1>4, <2>1, <3>1
  <2>2. ASSUME NEW p \in previous[h]
        PROVE  version = n + 1 /\ p.version = n /\ n # 0
    <3>1. version = p.version + 1
      BY <1>6, NextVersionType
    <3> QED
      BY <1>3, <1>4, <1>5, <3>1
  <2> QED
    BY <2>1, <2>2, <1>6 DEF AtMostOne
<1>8. {p.rules : p \in previous[h]} = RulesOf(n)
  <2>1. CASE previous[h] = {}
    <3>1. n = 0
      BY <1>7, <2>1
    <3>2. \A y \in constitution : y.version # n
      BY <1>4, <3>1 DEF Versions
    <3> QED
      BY <2>1, <3>2
  <2>2. CASE previous[h] # {}
    <3>1. PICK p \in previous[h] : TRUE
      BY <2>2
    <3>2. previous[h] = {p} /\ p \in constitution /\ p.version = n
      BY <1>5, <1>6, <1>7, <3>1 DEF AtMostOne
    <3>3. {y \in constitution : y.version = n} = {p}
      BY <1>2, <3>2 DEF VersionsUnique
    <3> QED
      BY <3>2, <3>3
  <2> QED
    BY <2>1, <2>2
<1> HIDE DEF version
<1>9. row \notin constitution /\ entry \notin audit
  BY <1>2, <1>3 DEF Versions, TablesFinite
<1>10. row.version = n + 1 /\ row.rules = draft[h]
  BY <1>7
<1>11. /\ entry.version = n + 1 /\ entry.before = RulesOf(n) /\ entry.after = draft[h]
       /\ entry.action = "create" <=> n = 0
  BY <1>7, <1>8 DEF None
<1> HIDE DEF row, entry
<1>12. /\ IsFiniteSet(constitution') /\ Cardinality(constitution') = n + 1
       /\ IsFiniteSet(audit') /\ Cardinality(audit') = n + 1
  BY <1>2, <1>3, <1>4, <1>9, FS_AddElement DEF TablesFinite
<1>13. Versions(constitution)' = 1 .. n + 1
  <2>1. Versions(constitution)' = Versions(constitution) \cup {row.version}
    BY <1>3 DEF Versions
  <2> QED
    BY <1>4, <1>10, <2>1
<1>14. VersionsUnique'
  BY <1>2, <1>3, <1>4, <1>10 DEF VersionsUnique, Versions
<1>15. PreviousStands'
  BY <1>1, <1>2, <1>3 DEF PreviousStands, HandlerTypes, None, AtMostOne
<1>16. TablesFinite'
  <2>1. ASSUME NEW e \in audit' PROVE e.version \in Versions(constitution)'
    <3>1. CASE e = entry
      BY <1>4, <1>11, <1>13, <3>1
    <3>2. CASE e \in audit
      BY <1>2, <1>4, <1>13, <3>2 DEF TablesFinite
    <3> QED
      BY <1>3, <3>1, <3>2
  <2> QED
    BY <1>12, <2>1 DEF TablesFinite
<1>17. AuditChain'
  <2> DEFINE NewRules(v) == {x.rules : x \in {y \in constitution' : y.version = v}}
  <2>1. ASSUME NEW v \in 0 .. n PROVE NewRules(v) = RulesOf(v)
    <3>1. {y \in constitution' : y.version = v} = {y \in constitution : y.version = v}
      BY <1>3, <1>4, <1>10
    <3> QED
      BY <3>1
  <2>2. NewRules(n + 1) = Some(draft[h])
    <3>1. {y \in constitution' : y.version = n + 1} = {row}
      BY <1>3, <1>4, <1>10 DEF Versions
    <3> QED
      BY <1>10, <3>1 DEF Some
  <2> HIDE DEF NewRules
  <2>3. ASSUME NEW v \in 1 .. n + 1
        PROVE  \E e \in audit' : /\ e.version = v
                                 /\ e.before = NewRules(v - 1)
                                 /\ Some(e.after) = NewRules(v)
                                 /\ e.action = "create" <=> v = 1
    <3>1. CASE v = n + 1
      <4>1. v - 1 = n /\ n \in 0 .. n
        BY <1>4, <3>1
      <4>2. entry.before = NewRules(v - 1)
        BY <1>11, <2>1, <4>1
      <4>3. Some(entry.after) = NewRules(v)
        BY <1>11, <2>2, <3>1
      <4>4. entry.action = "create" <=> v = 1
        BY <1>4, <1>11, <3>1
      <4> QED
        BY <1>3, <1>11, <3>1, <4>2, <4>3, <4>4
    <3>2. CASE v \in 1 .. n
      <4>1. PICK e \in audit : /\ e.version = v
                               /\ e.before = RulesOf(v - 1)
                               /\ Some(e.after) = RulesOf(v)
                               /\ e.action = "create" <=> v = 1
        BY <1>2, <3>2 DEF AuditChain
      <4>2. v - 1 \in 0 .. n /\ v \in 0 .. n
        BY <1>4, <3>2
      <4> QED
        BY <1>3, <2>1, <4>1, <4>2
    <3> QED
      BY <1>4, <3>1, <3>2
  <2> QED
    BY <1>12, <1>13, <2>3 DEF AuditChain, NewRules
<1> QED
  BY <1>14, <1>15, <1>16, <1>17 DEF TrailInv

\* Every other step: the tables stay, and a handler builds on the last row or nothing.
LEMMA TrailStep == ASSUME Inv, [Next]_vars PROVE TrailInv'
<1>1. SharedTypes /\ HandlerTypes /\ VersionsUnique /\ PreviousStands /\ TrailInv
  BY TypeHalves DEF Inv, TrailInv
<1>2. Latest \subseteq constitution /\ AtMostOne(Latest)
  BY <1>1, LatestTypes
<1>3. CASE UNCHANGED <<constitution, audit, previous>>
  BY <1>1, <1>3, TrailKept DEF PreviousStands, constitutions
<1>4. ASSUME NEW h \in Writers, UNCHANGED constitutions, previous' = [previous EXCEPT ![h] = Latest]
      PROVE  TrailInv'
  <2>1. PreviousStands'
    BY <1>1, <1>2, <1>4 DEF PreviousStands, HandlerTypes, constitutions
  <2> QED
    BY <1>1, <1>4, <2>1, TrailKept
<1>5. ASSUME NEW h \in Writers, UNCHANGED constitutions, EndHandler(h) PROVE TrailInv'
  <2>1. PreviousStands'
    BY <1>1, <1>5 DEF PreviousStands, HandlerTypes, EndHandler, DropDraft, constitutions, None,
                      AtMostOne
  <2> QED
    BY <1>1, <1>5, <2>1, TrailKept
<1>6. CASE Tick \/ OpenPosition \/ ClosePosition \/ UNCHANGED vars
  BY <1>3, <1>6 DEF Tick, OpenPosition, ClosePosition, constitutions, vars
<1>7. CASE Restart
  <2>1. UNCHANGED constitutions /\ previous' = [h \in Writers |-> None]
    BY <1>7 DEF Restart
  <2>2. PreviousStands'
    BY <2>1 DEF PreviousStands, None, AtMostOne
  <2> QED
    BY <1>1, <2>1, <2>2, TrailKept
<1>8. ASSUME NEW e \in Editors, StartEdit(e) PROVE TrailInv'
  BY <1>4, <1>8 DEF StartEdit, Writers
<1>9. ASSUME NEW r \in Requests, StartSeed(r) \/ StartRequest(r) \/ TakeTime(r) PROVE TrailInv'
  BY <1>3, <1>4, <1>9 DEF StartSeed, StartRequest, TakeTime, Writers, constitutions
<1>10. ASSUME NEW h \in Writers, InsertVersion(h) PROVE TrailInv'
  BY <1>10, TrailInsert
<1>11. ASSUME NEW h \in Writers,
              InsertConflicts(h) \/ Abort(h) \/ SizingRaises(h) \/ IssuePermit(h)
       PROVE  TrailInv'
  BY <1>5, <1>11 DEF InsertConflicts, Abort, SizingRaises, IssuePermit, constitutions
<1>12. ASSUME NEW r \in Requests,
              ReadAccount(r) \/ FallBack(r) \/ FetchFails(r) \/ ReadHistory(r) \/ HistoryFails(r)
       PROVE  TrailInv'
  BY <1>3, <1>12 DEF ReadAccount, FallBack, FetchFails, ReadHistory, HistoryFails, constitutions
<1>13. ASSUME NEW r \in Requests PROVE r \in Writers
  BY DEF Writers
<1> QED
  BY <1>6, <1>7, <1>8, <1>9, <1>10, <1>11, <1>12, <1>13, StepKinds

-----------------------------------------------------------------------------
(* What the permits were judged by.                                        *)

Reading == {"positions", "income", "history", "persist"}

\* ReadingSince of one request.
Since(r) ==
    \A j \in judge[r] :
        /\ j.at <= now
        /\ pc[r] \in Reading /\ ~ account[r].stale => account[r].readAt >= j.at

LEMMA SinceAll == ReadingSince <=> \A r \in Requests : Since(r)
BY DEF ReadingSince, Since, Reading

LEMMA SinceAllPrimed == ReadingSince' <=> \A r \in Requests : Since(r)'
BY DEF ReadingSince, Since, Reading

\* A request that stays where it is, and one that ends, keep it.
LEMMA SinceKept ==
    ASSUME TypeOK, NEW r \in Requests, Since(r), now' \in Nat, now' >= now,
           UNCHANGED <<judge[r], pc[r], account[r]>>
    PROVE  Since(r)'
<1>1. now \in Nat /\ judge[r] \subseteq Judgement
  BY TypeHalves DEF SharedTypes, HandlerTypes
<1> QED
  BY <1>1 DEF Since, Judgement

LEMMA SinceEnded ==
    ASSUME Inv, NEW h \in Writers, EndHandler(h), now' = now
    PROVE  ReadingSince'
<1>1. TypeOK /\ HandlerTypes /\ now \in Nat /\ \A r \in Requests : Since(r)
  BY TypeHalves, SinceAll DEF Inv, PermitInv, SharedTypes
<1>2. ASSUME NEW r \in Requests PROVE Since(r)'
  <2>1. CASE r = h
    BY <2>1 DEF EndHandler, Since, None
  <2>2. CASE r # h
    <3>1. UNCHANGED <<judge[r], pc[r], account[r]>>
      BY <1>1, <2>2 DEF EndHandler, Goto, HandlerTypes, Writers
    <3> QED
      BY <1>1, <3>1, SinceKept
  <2> QED
    BY <2>1, <2>2
<1> QED
  BY <1>2, SinceAllPrimed

LEMMA SinceStarted ==
    ASSUME Inv, NEW h \in Writers,
           \/ h \in Editors /\ StartEdit(h)
           \/ h \in Requests /\ (StartSeed(h) \/ StartRequest(h) \/ TakeTime(h))
           \/ InsertVersion(h)
    PROVE  ReadingSince'
<1>1. TypeOK /\ HandlerTypes /\ now \in Nat /\ \A r \in Requests : Since(r)
  BY TypeHalves, SinceAll DEF Inv, PermitInv, SharedTypes
<1>2. now' = now /\ account' = account
  BY DEF StartEdit, StartSeed, StartRequest, TakeTime, InsertVersion, requestVars
<1>3. ASSUME NEW r \in Requests PROVE Since(r)'
  <2>1. CASE r # h
    <3>1. UNCHANGED <<judge[r], pc[r], account[r]>>
      BY <1>1, <1>2, <2>1 DEF StartEdit, StartSeed, StartRequest, TakeTime, InsertVersion, Goto,
                              HandlerTypes, Writers, requestVars
    <3> QED
      BY <1>1, <1>2, <3>1, SinceKept
  <2>2. CASE r = h
    <3>1. r \notin Editors
      BY DeskAssumption
    <3>2. pc'[r] \notin Reading
      BY <1>1, <2>2, <3>1 DEF StartSeed, StartRequest, TakeTime, InsertVersion, Goto,
                              HandlerTypes, Reading
    <3>3. \A j \in judge'[r] : j.at <= now'
      <4>1. CASE StartSeed(h)
        BY <1>1, <1>2, <2>2, <4>1 DEF StartSeed, Since, requestVars
      <4>2. CASE StartRequest(h)
        BY <1>1, <1>2, <2>2, <4>2 DEF StartRequest, Judge, HandlerTypes
      <4>3. CASE TakeTime(h)
        <5>1. judge'[r] = {[j EXCEPT !.at = now] : j \in judge[r]} /\ judge[r] \subseteq Judgement
          BY <1>1, <2>2, <4>3 DEF TakeTime, HandlerTypes
        <5> QED
          BY <1>1, <1>2, <5>1 DEF Judgement
      <4>4. CASE InsertVersion(h)
        <5>1. PICK row : judge'[r] = Some(Judge(row, now))
          BY <2>2, <4>4 DEF InsertVersion
        <5> QED
          BY <1>1, <1>2, <5>1 DEF Some, Judge
      <4> QED
        BY <2>2, <3>1, <4>1, <4>2, <4>3, <4>4
    <3> QED
      BY <3>2, <3>3 DEF Since
  <2> QED
    BY <2>1, <2>2
<1> QED
  BY <1>3, SinceAllPrimed

\* The balance is read at or after the time taken; later reads keep that moment,
\* and whatever fails leaves the figures stale.
LEMMA SinceRead ==
    ASSUME Inv, NEW r \in Requests,
           ReadAccount(r) \/ FallBack(r) \/ FetchFails(r) \/ ReadHistory(r) \/ HistoryFails(r)
    PROVE  ReadingSince'
<1>1. TypeOK /\ HandlerTypes /\ now \in Nat /\ \A q \in Requests : Since(q)
  BY TypeHalves, SinceAll DEF Inv, PermitInv, SharedTypes
<1>2. PICK figures \in AccountState, place \in Reads \cup {"history", "persist"} :
          ReadingStep(r, figures, place)
  BY <1>1, ReadingSteps
<1>3. /\ account' = [account EXCEPT ![r] = figures] /\ pc' = [pc EXCEPT ![r] = place]
      /\ now' = now /\ judge' = judge
  BY <1>2 DEF ReadingStep, Advances
<1>4. ASSUME NEW q \in Requests PROVE Since(q)'
  <2>1. CASE q # r
    BY <1>1, <1>3, <2>1, SinceKept DEF HandlerTypes, Writers
  <2>2. CASE q = r
    <3>1. account'[q] = figures /\ pc'[q] = place /\ judge'[q] = judge[q]
      BY <1>1, <1>3, <2>2 DEF HandlerTypes, Writers
    <3>2. account[r] \in AccountState /\ judge[r] \subseteq Judgement
      BY <1>1 DEF HandlerTypes
    <3>3. ASSUME ~ figures.stale, NEW j \in judge[r] PROVE figures.readAt >= j.at
      <4>1. CASE pc[r] = "balance"
        <5>1. figures = Figures(account[r], "balance")
          BY <1>2, <3>3, <4>1 DEF ReadingStep
        <5>2. figures.readAt = now
          BY <3>2, <5>1 DEF Figures, AccountState
        <5> QED
          BY <1>1, <5>2 DEF Since
      <4>2. CASE pc[r] # "balance"
        <5>1. pc[r] \in Reading
          BY <1>2, <4>2 DEF ReadingStep, Reads, Reading
        <5>2. figures.readAt = account[r].readAt /\ figures.stale = account[r].stale
          BY <1>2, <3>2, <3>3, <4>2 DEF ReadingStep, Reads, Figures, AccountState
        <5> QED
          BY <1>1, <3>3, <5>1, <5>2 DEF Since
      <4> QED
        BY <4>1, <4>2
    <3> QED
      BY <1>1, <1>3, <2>2, <3>1, <3>3 DEF Since
  <2> QED
    BY <2>1, <2>2
<1> QED
  BY <1>4, SinceAllPrimed

LEMMA SinceStep == ASSUME Inv, [Next]_vars PROVE ReadingSince'
<1>1. TypeOK /\ now \in Nat /\ \A r \in Requests : Since(r)
  BY TypeHalves, SinceAll DEF Inv, PermitInv, SharedTypes
<1>2. CASE Tick \/ OpenPosition \/ ClosePosition \/ UNCHANGED vars
  <2>1. now' \in Nat /\ now' >= now /\ UNCHANGED <<judge, pc, account>>
    BY <1>1, <1>2 DEF Tick, OpenPosition, ClosePosition, requestVars, vars
  <2>2. ASSUME NEW r \in Requests PROVE Since(r)'
    BY <1>1, <2>1, SinceKept
  <2> QED
    BY <2>2, SinceAllPrimed
<1>3. CASE Restart
  <2>1. \A r \in Requests : judge'[r] = {}
    BY <1>3 DEF Restart, None
  <2> QED
    BY <2>1 DEF ReadingSince
<1>4. ASSUME NEW h \in Writers,
             InsertConflicts(h) \/ Abort(h) \/ SizingRaises(h) \/ IssuePermit(h)
      PROVE  ReadingSince'
  BY <1>4, SinceEnded DEF InsertConflicts, Abort, SizingRaises, IssuePermit
<1>5. \A r \in Requests : r \in Writers
  BY DEF Writers
<1>6. \A e \in Editors : e \in Writers
  BY DEF Writers
<1> QED
  BY <1>2, <1>3, <1>4, <1>5, <1>6, SinceStarted, SinceRead, StepKinds

\* Permits are only ever added, by IssuePermit.
LEMMA PermitsKept ==
    ASSUME [Next]_vars, \A r \in Requests : ~ IssuePermit(r)
    PROVE  permits' = permits
BY DEF Next, WriteStep, RequestStep, Tick, OpenPosition, ClosePosition, Restart, StartEdit, StartSeed,
       InsertVersion, InsertConflicts, Abort, StartRequest, TakeTime, ReadAccount, FallBack,
       FetchFails, ReadHistory, HistoryFails, SizingRaises, vars

LEMMA PermitStep == ASSUME Inv, [Next]_vars PROVE (ApprovedOnFreshFigures /\ RiskBudgetKept)'
<1>1. ApprovedOnFreshFigures /\ RiskBudgetKept
  BY DEF Inv, PermitInv
<1>2. CASE \A r \in Requests : ~ IssuePermit(r)
  BY <1>1, <1>2, PermitsKept DEF ApprovedOnFreshFigures, RiskBudgetKept
<1>3. ASSUME NEW r \in Requests, IssuePermit(r)
      PROVE  (ApprovedOnFreshFigures /\ RiskBudgetKept)'
  <2>1. PICK t \in Tickets, j \in judge[r] :
            /\ j \in Judgement
            /\ account[r].stale \/ account[r].balance > 0
            /\ permits' = Append(permits, Permit(t, account[r], j))
    BY <1>3, IssueTypes DEF Inv
  <2> DEFINE permit == Permit(t, account[r], j)
  <2>2. permits \in Seq(PermitRow) /\ account[r] \in AccountState
    BY TypeHalves DEF Inv, SharedTypes, HandlerTypes
  <2>3. /\ permit \in PermitRow
        /\ permit.ticket = t /\ permit.account = account[r] /\ permit.evaluatedAt = j.at
        /\ Approved(permit) => ~ account[r].stale
        /\ permit.sizing.approved =>
               1000 * permit.sizing.quantity * Distance(t) <= account[r].balance * t.risk
    BY <2>1, <2>2, PermitTypes
  <2>4. pc[r] \in Reading
    BY <1>3 DEF IssuePermit, Reading
  <2>5. ~ account[r].stale => account[r].readAt >= j.at
    BY <2>1, <2>4 DEF Inv, PermitInv, ReadingSince, Reading
  <2> HIDE DEF permit
  <2>6. ASSUME NEW i \in DOMAIN permits'
        PROVE  permits'[i] = permit \/ (i \in DOMAIN permits /\ permits'[i] = permits[i])
    BY <2>1, <2>2, <2>3, <2>6 DEF permit
  <2>7. ApprovedOnFreshFigures'
    <3> SUFFICES ASSUME NEW i \in DOMAIN permits', Approved(permits'[i])
                 PROVE  permits'[i].account.readAt >= permits'[i].evaluatedAt
      BY DEF ApprovedOnFreshFigures, Approved
    <3>1. CASE permits'[i] = permit
      BY <2>3, <2>5, <3>1
    <3>2. CASE i \in DOMAIN permits /\ permits'[i] = permits[i]
      BY <1>1, <3>2 DEF ApprovedOnFreshFigures
    <3> QED
      BY <2>6, <3>1, <3>2
  <2>8. RiskBudgetKept'
    <3> SUFFICES ASSUME NEW i \in DOMAIN permits', permits'[i].sizing.approved
                 PROVE  1000 * permits'[i].sizing.quantity * Distance(permits'[i].ticket)
                            <= permits'[i].account.balance * permits'[i].ticket.risk
      BY DEF RiskBudgetKept, Distance
    <3>1. CASE permits'[i] = permit
      BY <2>3, <3>1
    <3>2. CASE i \in DOMAIN permits /\ permits'[i] = permits[i]
      BY <1>1, <3>2 DEF RiskBudgetKept
    <3> QED
      BY <2>6, <3>1, <3>2
  <2> QED
    BY <2>7, <2>8
<1> QED
  BY <1>2, <1>3

-----------------------------------------------------------------------------
(* What was open when the balance was read.                                *)

\* Closed at the moment the balance was read, or later.
ClosedSince(p, moment) == \E t \in closed[p] : moment <= t

\* A position that was open at the start is open or closed since until the positions
\* are read, listed or closed since until the income is, and from then on in the
\* figures, if the reads took no longer than the window.
StartKept(r) ==
    LET a == account[r]
    IN  ~ a.stale =>
            /\ pc[r] \in Reading => a.readAt <= now
            /\ pc[r] = "positions" =>
                  \A p \in a.openAtStart : p \in open \/ ClosedSince(p, a.readAt)
            /\ pc[r] = "income" =>
                  \A p \in a.openAtStart : p \in a.open \/ ClosedSince(p, a.readAt)
            /\ pc[r] \in {"history", "persist"} /\ a.doneAt - a.readAt <= Week =>
                  a.openAtStart \subseteq a.open \cup a.week

SlipInv == (\A r \in Requests : StartKept(r)) /\ NothingSlips

\* A position that is open or closed since a moment stays so.
LEMMA NothingVanishes ==
    ASSUME TypeOK, [Next]_vars, NEW moment \in Nat, moment <= now
    PROVE  /\ moment <= now'
           /\ \A p \in Positions :
                 /\ p \in open \/ ClosedSince(p, moment) =>
                        p \in open' \/ ClosedSince(p, moment)'
                 /\ ClosedSince(p, moment) => ClosedSince(p, moment)'
<1>1. closed \in [Positions -> SUBSET Nat] /\ open \subseteq Positions /\ now \in Nat
  BY TypeHalves DEF SharedTypes
<1>2. CASE UNCHANGED <<open, closed>> /\ (now' = now \/ now' = now + 1)
  BY <1>1, <1>2 DEF ClosedSince
<1>3. CASE OpenPosition
  BY <1>3 DEF OpenPosition, ClosedSince
<1>4. CASE ClosePosition
  <2>1. PICK p \in open : /\ open' = open \ {p}
                          /\ closed' = [closed EXCEPT ![p] = Some(now)]
                          /\ wallet' = wallet - Loss[p]
    BY <1>4, Zenon DEF ClosePosition
  <2>2. now' = now
    BY <1>4 DEF ClosePosition
  <2>3. closed'[p] = {now} /\ \A q \in Positions \ {p} : closed'[q] = closed[q]
    BY <1>1, <2>1 DEF Some
  <2>4. ClosedSince(p, moment)'
    BY <2>3 DEF ClosedSince
  <2>5. \A q \in Positions \ {p} : ClosedSince(q, moment)' <=> ClosedSince(q, moment)
    BY <2>3 DEF ClosedSince
  <2> QED
    BY <2>1, <2>2, <2>4, <2>5
<1>5. CASE Tick
  BY <1>2, <1>5 DEF Tick, exchange
<1>6. \/ UNCHANGED <<open, closed>> /\ now' = now
      \/ OpenPosition \/ ClosePosition \/ Tick
  BY DEF Next, WriteStep, RequestStep, Restart, StartEdit, StartSeed,
         InsertVersion, InsertConflicts, Abort, StartRequest, TakeTime, ReadAccount, FallBack,
         FetchFails, ReadHistory, HistoryFails, IssuePermit, SizingRaises, exchange, vars
<1> QED
  BY <1>2, <1>3, <1>4, <1>5, <1>6

\* A request that stays where it is keeps it, and one that is not reading has nothing
\* to keep.
LEMMA StartStays ==
    ASSUME TypeOK, [Next]_vars, NEW r \in Requests, StartKept(r),
           \/ UNCHANGED <<pc[r], account[r]>>
           \/ pc'[r] \notin Reading
    PROVE  StartKept(r)'
<1>1. CASE pc'[r] \notin Reading
  BY <1>1 DEF StartKept, Reading
<1>2. CASE UNCHANGED <<pc[r], account[r]>>
  <2>1. pc'[r] = pc[r] /\ account'[r] = account[r]
    BY <1>2
  <2>2. account[r] \in AccountState
    BY TypeHalves DEF HandlerTypes
  <2>3. account[r].readAt \in Nat /\ account[r].openAtStart \subseteq Positions
    BY <2>2 DEF AccountState
  <2>4. CASE ~ account[r].stale /\ pc[r] \in Reading
    <3>1. account[r].readAt <= now
      BY <2>4 DEF StartKept
    <3>2. /\ account[r].readAt <= now'
          /\ \A p \in Positions :
                /\ p \in open \/ ClosedSince(p, account[r].readAt) =>
                       p \in open' \/ ClosedSince(p, account[r].readAt)'
                /\ ClosedSince(p, account[r].readAt) => ClosedSince(p, account[r].readAt)'
      BY <2>1, <2>3, <3>1, NothingVanishes
    <3> QED
      BY <2>1, <2>3, <3>2 DEF StartKept
  <2>5. CASE account[r].stale \/ pc[r] \notin Reading
    BY <2>1, <2>5 DEF StartKept, Reading
  <2> QED
    BY <2>4, <2>5
<1> QED
  BY <1>1, <1>2

\* Each read hands the positions of the start on to the next.
LEMMA StartRead ==
    ASSUME TypeOK, SlipInv, [Next]_vars, NEW r \in Requests,
           ReadAccount(r) \/ FallBack(r) \/ FetchFails(r) \/ ReadHistory(r) \/ HistoryFails(r)
    PROVE  \A q \in Requests : StartKept(q)'
<1>1. HandlerTypes /\ SharedTypes
  BY TypeHalves
<1>2. PICK figures \in AccountState, place \in Reads \cup {"history", "persist"} :
          ReadingStep(r, figures, place)
  BY ReadingSteps
<1>3. /\ account' = [account EXCEPT ![r] = figures] /\ pc' = [pc EXCEPT ![r] = place]
      /\ open' = open /\ closed' = closed /\ now' = now
  BY <1>2 DEF ReadingStep, Advances
<1>4. ASSUME NEW q \in Requests, q # r PROVE StartKept(q)'
  <2>1. UNCHANGED <<pc[q], account[q]>>
    BY <1>1, <1>3, <1>4 DEF HandlerTypes, Writers
  <2> QED
    BY <2>1, StartStays DEF SlipInv
<1>5. StartKept(r)'
  <2>1. account'[r] = figures /\ pc'[r] = place
    BY <1>1, <1>3 DEF HandlerTypes, Writers
  <2>2. account[r] \in AccountState /\ StartKept(r)
    BY <1>1 DEF HandlerTypes, SlipInv
  <2>3. /\ now' = now /\ now \in Nat /\ account[r].readAt \in Nat /\ Week \in Nat
        /\ account[r].openAtStart \subseteq Positions /\ closed \in [Positions -> SUBSET Nat]
        /\ \A p, m : ClosedSince(p, m)' = ClosedSince(p, m)
    BY <1>1, <1>3, <2>2, DeskAssumption DEF SharedTypes, AccountState, ClosedSince
  <2>4. CASE figures.stale
    BY <2>1, <2>4 DEF StartKept
  <2>5. CASE pc[r] = "balance" /\ figures = Figures(account[r], "balance") /\ place = "positions"
    <3>1. figures.openAtStart = open /\ figures.readAt = now
      BY <2>2, <2>5 DEF Figures, AccountState
    <3> QED
      BY <1>3, <2>1, <2>3, <2>5, <3>1 DEF StartKept
  <2>6. CASE /\ pc[r] = "positions" /\ figures = Figures(account[r], "positions")
             /\ place = "income"
    <3>1. /\ figures.openAtStart = account[r].openAtStart /\ figures.open = open
          /\ figures.readAt = account[r].readAt /\ figures.stale = account[r].stale
      BY <2>2, <2>6 DEF Figures, AccountState
    <3> QED
      BY <1>3, <2>1, <2>2, <2>3, <2>6, <3>1 DEF StartKept, Reading
  <2>7. CASE pc[r] = "income" /\ figures = Figures(account[r], "income") /\ place = "history"
    <3>1. /\ figures.openAtStart = account[r].openAtStart /\ figures.open = account[r].open
          /\ figures.readAt = account[r].readAt /\ figures.doneAt = now
          /\ figures.week = ClosedWithin(Week) /\ figures.stale = account[r].stale
      BY <2>2, <2>7 DEF Figures, AccountState
    <3>2. CASE account[r].stale
      BY <2>4, <3>1, <3>2
    <3>3. CASE ~ account[r].stale
      <4>1. /\ account[r].readAt <= now
            /\ \A p \in account[r].openAtStart :
                  p \in account[r].open \/ ClosedSince(p, account[r].readAt)
        BY <2>2, <2>7, <3>3 DEF StartKept, Reading
      <4>2. ASSUME now - account[r].readAt <= Week,
                   NEW p \in account[r].openAtStart, ClosedSince(p, account[r].readAt)
            PROVE  p \in ClosedWithin(Week)
        <5>1. PICK t \in closed[p] : account[r].readAt <= t
          BY <4>2 DEF ClosedSince
        <5>2. p \in Positions /\ t \in Nat
          BY <2>3, <5>1
        <5>3. now - t <= Week
          BY <2>3, <4>2, <5>1, <5>2
        <5> QED
          BY <5>1, <5>2, <5>3 DEF ClosedWithin
      <4> QED
        BY <2>1, <2>3, <2>7, <3>1, <4>1, <4>2 DEF StartKept
    <3> QED
      BY <3>2, <3>3
  <2>8. CASE /\ pc[r] = "history" /\ place = "persist"
             /\ \E flags \in Histories : figures = [account[r] EXCEPT !.flags = flags]
    <3>1. /\ figures.openAtStart = account[r].openAtStart /\ figures.open = account[r].open
          /\ figures.week = account[r].week /\ figures.stale = account[r].stale
          /\ figures.readAt = account[r].readAt /\ figures.doneAt = account[r].doneAt
      BY <2>2, <2>8 DEF AccountState
    <3> QED
      BY <2>1, <2>2, <2>3, <2>8, <3>1 DEF StartKept, Reading
  <2>9. ASSUME pc[r] \in Reads, place = AfterRead(pc[r]), figures = Figures(account[r], pc[r])
        PROVE  \/ pc[r] = "balance" /\ figures = Figures(account[r], "balance") /\ place = "positions"
               \/ pc[r] = "positions" /\ figures = Figures(account[r], "positions") /\ place = "income"
               \/ pc[r] = "income" /\ figures = Figures(account[r], "income") /\ place = "history"
    BY <2>9 DEF Reads, AfterRead
  <2> QED
    BY <1>2, <2>4, <2>5, <2>6, <2>7, <2>8, <2>9 DEF ReadingStep
<1> QED
  BY <1>4, <1>5

LEMMA StartStep ==
    ASSUME TypeOK, SlipInv, [Next]_vars PROVE \A r \in Requests : StartKept(r)'
<1>1. HandlerTypes /\ \A r \in Requests : StartKept(r)
  BY TypeHalves DEF SlipInv
<1>2. CASE Tick \/ OpenPosition \/ ClosePosition \/ UNCHANGED vars
  <2>1. UNCHANGED <<pc, account>>
    BY <1>2 DEF Tick, OpenPosition, ClosePosition, requestVars, vars
  <2> QED
    BY <1>1, <2>1, StartStays
<1>3. CASE Restart
  <2>1. \A r \in Requests : pc'[r] \notin Reading
    BY <1>3 DEF Restart, Reading, Writers
  <2> QED
    BY <1>1, <2>1, StartStays
<1>4. ASSUME NEW h \in Writers, EndHandler(h) PROVE \A r \in Requests : StartKept(r)'
  <2>1. ASSUME NEW r \in Requests, r # h PROVE UNCHANGED <<pc[r], account[r]>>
    BY <1>1, <1>4, <2>1 DEF EndHandler, Goto, HandlerTypes, Writers
  <2>2. pc'[h] \notin Reading
    BY <1>1, <1>4 DEF EndHandler, Goto, HandlerTypes, Reading
  <2> QED
    BY <1>1, <2>1, <2>2, StartStays
<1>5. ASSUME NEW h \in Writers,
             \/ h \in Editors /\ StartEdit(h)
             \/ h \in Requests /\ (StartSeed(h) \/ StartRequest(h) \/ TakeTime(h))
             \/ InsertVersion(h)
      PROVE  \A r \in Requests : StartKept(r)'
  <2>1. \E place \in PcValues \ Reading : pc' = [pc EXCEPT ![h] = place]
    BY <1>5 DEF StartEdit, StartSeed, StartRequest, TakeTime, InsertVersion, Goto, PcValues,
                Reads, Reading
  <2>2. account' = account
    BY <1>5 DEF StartEdit, StartSeed, StartRequest, TakeTime, InsertVersion, requestVars
  <2>3. \A r \in Requests : UNCHANGED <<pc[r], account[r]>> \/ pc'[r] \notin Reading
    BY <1>1, <2>1, <2>2 DEF HandlerTypes, Writers
  <2> QED
    BY <1>1, <2>3, StartStays
<1>6. ASSUME NEW h \in Writers,
             InsertConflicts(h) \/ Abort(h) \/ SizingRaises(h) \/ IssuePermit(h)
      PROVE  \A r \in Requests : StartKept(r)'
  BY <1>4, <1>6 DEF InsertConflicts, Abort, SizingRaises, IssuePermit
<1>7. ASSUME NEW r \in Requests PROVE r \in Writers
  BY DEF Writers
<1>8. ASSUME NEW e \in Editors PROVE e \in Writers
  BY DEF Writers
<1> QED
  BY <1>2, <1>3, <1>5, <1>6, <1>7, <1>8, StartRead, StepKinds

LEMMA SlipStep == ASSUME TypeOK, SlipInv, [Next]_vars PROVE SlipInv'
<1>1. \A r \in Requests : StartKept(r)'
  BY StartStep
<1>2. CASE \A r \in Requests : ~ IssuePermit(r)
  BY <1>1, <1>2, PermitsKept DEF SlipInv, NothingSlips
<1>3. ASSUME NEW r \in Requests, IssuePermit(r) PROVE NothingSlips'
  <2>1. PICK t \in Tickets, j \in judge[r] :
            /\ j \in Judgement
            /\ account[r].stale \/ account[r].balance > 0
            /\ permits' = Append(permits, Permit(t, account[r], j))
    BY <1>3, IssueTypes
  <2> DEFINE permit == Permit(t, account[r], j)
  <2>2. permits \in Seq(PermitRow) /\ account[r] \in AccountState
    BY TypeHalves DEF SharedTypes, HandlerTypes
  <2>3. permit \in PermitRow /\ permit.account = account[r]
    BY <2>1, <2>2, PermitTypes
  <2>4. ~ account[r].stale /\ account[r].doneAt - account[r].readAt <= Week =>
            account[r].openAtStart \subseteq account[r].open \cup account[r].week
    BY <1>3 DEF SlipInv, StartKept, IssuePermit
  <2> HIDE DEF permit
  <2>5. ASSUME NEW i \in DOMAIN permits'
        PROVE  permits'[i] = permit \/ (i \in DOMAIN permits /\ permits'[i] = permits[i])
    BY <2>1, <2>2, <2>3, <2>5 DEF permit
  <2> QED
    BY <2>3, <2>4, <2>5 DEF SlipInv, NothingSlips
<1> QED
  BY <1>1, <1>2, <1>3 DEF SlipInv

LEMMA SlipStart == Init => SlipInv
<1> SUFFICES ASSUME Init PROVE SlipInv
  OBVIOUS
<1>1. ASSUME NEW r \in Requests PROVE StartKept(r)
  BY DEF Init, StartKept, Writers, Reading
<1>2. NothingSlips
  BY DEF Init, NothingSlips
<1> QED
  BY <1>1, <1>2 DEF SlipInv

-----------------------------------------------------------------------------
LEMMA Start == Init => Inv
<1> SUFFICES ASSUME Init PROVE Inv
  OBVIOUS
<1>1. permits = <<>> /\ \A r \in Requests : judge[r] = {}
  BY DEF Init, None
<1>2. PermitInv
  BY <1>1 DEF PermitInv, ReadingSince, ApprovedOnFreshFigures, RiskBudgetKept
<1> QED
  BY <1>2, TypeInit, TrailInit DEF Inv

LEMMA Step == Inv /\ [Next]_vars => Inv'
BY TypeStep, TrailStep, SinceStep, PermitStep DEF Inv, PermitInv

LEMMA Always == Spec => []Inv
BY Start, Step, PTL DEF Spec

\* Types: whatever requests and editors do at the same time, every row, permit and
\* cached figure has its shape, and a handler has what its next step needs.
THEOREM DeskTyped == Spec => []TypeOK
<1>1. Inv => TypeOK
  BY DEF Inv
<1> QED
  BY <1>1, Always, PTL

\* However many editors and seeding requests write at once, versions count up
\* without a gap or a double and every one has its one, true audit entry
\* (create_constitution_version).
THEOREM TrailComplete == Spec => []AuditChain
<1>1. Inv => AuditChain
  BY DEF Inv, TrailInv
<1> QED
  BY <1>1, Always, PTL

\* However requests share the account cache, no permit is approved on figures read
\* before its evaluated_at (get_account_state, request_permit).
THEOREM FreshApprovals == Spec => []ApprovedOnFreshFigures
<1>1. Inv => ApprovedOnFreshFigures
  BY DEF Inv, PermitInv
<1> QED
  BY <1>1, Always, PTL

\* For every balance and every ticket, also in the rounding, the stop costs at most
\* the risk that was asked for (size_position).
THEOREM BudgetKept == Spec => []RiskBudgetKept
<1>1. Inv => RiskBudgetKept
  BY DEF Inv, PermitInv
<1> QED
  BY <1>1, Always, PTL

\* However long the service runs, positions that are closed while a request reads the
\* account are in its open positions or in its realized result, unless that one
\* request read for longer than a week (get_account_state).
THEOREM NothingIsMissed == Spec => []NothingSlips
<1>1. Inv => TypeOK
  BY DEF Inv
<1>2. SlipInv /\ TypeOK /\ [Next]_vars => SlipInv'
  BY SlipStep
<1>3. SlipInv => NothingSlips
  BY DEF SlipInv
<1> QED
  BY <1>1, <1>2, <1>3, SlipStart, Always, PTL DEF Spec
=============================================================================
