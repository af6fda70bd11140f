--------------------------- MODULE ForwardTestProofs ---------------------------
(***************************************************************************)
(* Theorems about ForwardTest, for every value of its constants.           *)
(***************************************************************************)
EXTENDS ForwardTest, SequenceTheorems, TLAPS

\* No fetched window holds the forming bar.
WindowsClosed == \A w \in Workers : window[w].last < now

TypeInv == TypeOK /\ WindowsClosed

-----------------------------------------------------------------------------
(* What the operators of Settlement and Hysteresis return.                 *)

\* The R multiple of a plan and an exit is an integer number of hundredths.
LEMMA ResultRType ==
    ASSUME NEW levels, levels.entry \in Int, levels.stop \in Int, NEW exit \in Int
    PROVE  ResultR(levels, exit) \in Int
BY DEF ResultR

ClosedPatch(Statuses) ==
    [status : Statuses, filledAt : {None}, closedAt : SUBSET Nat,
     closePrice : SUBSET Int, resultR : SUBSET Int]

\* A close at an integer price is a patch of closed values.
LEMMA ClosePatchType ==
    ASSUME NEW levels, levels.entry \in Int, levels.stop \in Int,
           NEW Statuses, NEW status \in Statuses, NEW price \in Int, NEW e \in Nat
    PROVE  ClosePatch(levels, status, price, e) \in ClosedPatch(Statuses)
<1>1. ResultR(levels, price) \in Int
  BY ResultRType
<1> QED
  BY <1>1 DEF ClosePatch, Patch, ClosedPatch, Some, None

ExitStatuses == {"stopped-out", "target1-hit", "target2-hit"}

\* The patch of a bar that touches a level.
LEMMA LevelPatchType ==
    ASSUME NEW levels \in ExitLevels(Int), NEW bars, NEW e \in Nat,
           ExitStatus(levels, bars[e]) # "open"
    PROVE  LevelPatch(levels, bars, e) \in ClosedPatch(ExitStatuses)
<1> DEFINE status == ExitStatus(levels, bars[e])
<1>1. status \in ExitStatuses
  BY DEF ExitStatus, ExitStatuses
<1>2. ExitLevel(levels, status) \in Int
  BY DEF ExitLevel, ExitLevels
<1>3. levels.entry \in Int /\ levels.stop \in Int
  BY DEF ExitLevels
<1> HIDE DEF status
<1>4. ClosePatch(levels, status, ExitLevel(levels, status), e) \in ClosedPatch(ExitStatuses)
  BY <1>1, <1>2, <1>3, ClosePatchType
<1> QED
  BY <1>4 DEF LevelPatch, status

Candles == [first : Nat \ {0}, last : Nat]

\* The bars the patches of a row look at are closed bars of the tape.
LEMMA FirstBarType ==
    ASSUME NEW row, row.opened \in Nat, NEW candles \in Candles
    PROVE  FirstBar(row, candles) \in Nat \ {0}
BY DEF FirstBar, Greater, Candles

\* A shadow patch closes the row with a status of its own table.
LEMMA ShadowPatchType ==
    ASSUME NEW row \in ShadowRow, NEW maxBars \in Nat \ {0}, NEW bars \in Seq(Bars),
           NEW candles \in Candles, candles.last <= Len(bars),
           NEW p \in SettleShadow(row, maxBars, bars, candles)
    PROVE  p \in ClosedPatch(ExitStatuses \cup {"expired"})
<1> DEFINE from == FirstBar(row, candles)
           last == from + maxBars - 1
           exits == ExitBars(row.levels, bars, from, Lesser(candles.last, last))
<1>1. row.levels \in ExitLevels(Int) /\ row.opened \in Nat
  BY DEF ShadowRow, Rows
<1>2. from \in Nat \ {0}
  BY <1>1, FirstBarType
<1>3. row.levels.entry \in Int /\ row.levels.stop \in Int
  BY <1>1 DEF ExitLevels
<1>4. CASE \E e \in First(exits) : p = LevelPatch(row.levels, bars, e)
  <2>1. PICK e \in First(exits) : p = LevelPatch(row.levels, bars, e)
    BY <1>4
  <2>2. e \in Nat /\ ExitStatus(row.levels, bars[e]) # "open"
    BY <1>2 DEF First, ExitBars, Lesser, Candles
  <2>3. p \in ClosedPatch(ExitStatuses)
    BY <1>1, <2>1, <2>2, LevelPatchType
  <2> QED
    BY <2>3 DEF ClosedPatch
<1>5. CASE \E e \in {last} \cap (1 .. candles.last) :
              p = ClosePatch(row.levels, "expired", bars[e].close, e)
  <2>1. PICK e \in {last} \cap (1 .. candles.last) :
              p = ClosePatch(row.levels, "expired", bars[e].close, e)
    BY <1>5
  <2>2. e \in 1 .. Len(bars)
    BY <2>1 DEF Candles
  <2>3. bars[e].close \in Int
    BY <2>2, DataAssumption
  <2> DEFINE S == ExitStatuses \cup {"expired"}
  <2>4. "expired" \in S /\ e \in Nat
    BY <2>2
  <2> HIDE DEF last, exits, S
  <2>5. ClosePatch(row.levels, "expired", bars[e].close, e) \in ClosedPatch(S)
    BY <1>3, <2>3, <2>4, ClosePatchType
  <2> QED
    BY <2>1, <2>5 DEF S
<1> QED
  BY <1>4, <1>5 DEF SettleShadow, None

\* A tracked patch closes the row on a level.
LEMMA TrackedPatchType ==
    ASSUME NEW row \in TrackedRow, NEW bars \in Seq(Bars), NEW candles \in Candles,
           NEW p \in SettleTracked(row, bars, candles)
    PROVE  p \in ClosedPatch(ExitStatuses)
<1>1. row.levels \in ExitLevels(Int) /\ row.opened \in Nat
  BY DEF TrackedRow, Rows
<1>2. FirstBar(row, candles) \in Nat \ {0}
  BY <1>1, FirstBarType
<1>3. PICK e \in First(ExitBars(row.levels, bars, FirstBar(row, candles), candles.last)) :
          p = LevelPatch(row.levels, bars, e)
  BY DEF SettleTracked, None
<1>4. e \in Nat /\ ExitStatus(row.levels, bars[e]) # "open"
  BY <1>2, <1>3 DEF First, ExitBars, Candles
<1> QED
  BY <1>1, <1>3, <1>4, LevelPatchType


RowPatch(Statuses) ==
    [status : Statuses, filledAt : SUBSET Nat, closedAt : SUBSET Nat,
     closePrice : SUBSET Int, resultR : SUBSET Int]

PositionStatuses == {"stopped-out", "objective-hit", "expired"}

\* The walk of a filled position closes it on bars of the tape.
LEMMA FilledWalkType ==
    ASSUME NEW levels \in AnticipatoryLevels(Int), NEW maxBars \in Nat \ {0},
           NEW bars \in Seq(Bars), NEW from \in Nat \ {0}, NEW last \in Nat,
           last <= Len(bars), NEW fill \in Nat,
           NEW p \in WalkFilledPosition(levels, bars, from, last, fill, maxBars)
    PROVE  p \in ClosedPatch(PositionStatuses)
<1> DEFINE end == from + maxBars - 1
           Status(i) == PositionStatus(levels, bars, fill, i)
           resolved == {i \in from .. Lesser(last, end) : Status(i) # "open"}
           level(e) == IF Status(e) = "stopped-out" THEN levels.stop ELSE levels.objective
<1>1. /\ levels.entry \in Int /\ levels.stop \in Int /\ levels.objective \in Int
      /\ end \in Nat
  BY DEF AnticipatoryLevels
<1>2. CASE \E e \in First(resolved) : p = ClosePatch(levels, Status(e), level(e), e)
  <2>1. PICK e \in First(resolved) : p = ClosePatch(levels, Status(e), level(e), e)
    BY <1>2
  <2>2. e \in Nat /\ Status(e) # "open"
    BY <1>1, <2>1 DEF First, Lesser
  <2>3. Status(e) \in PositionStatuses
    BY <2>2 DEF PositionStatus, PositionStatuses
  <2>4. level(e) \in Int
    BY <1>1
  <2> HIDE DEF Status, level
  <2>5. ClosePatch(levels, Status(e), level(e), e) \in ClosedPatch(PositionStatuses)
    BY <1>1, <2>2, <2>3, <2>4, ClosePatchType
  <2> QED
    BY <2>1, <2>5
<1>3. CASE \E i \in {end} \cap (1 .. last) :
              p = ClosePatch(levels, "expired", bars[i].close, i)
  <2>1. PICK i \in {end} \cap (1 .. last) :
              p = ClosePatch(levels, "expired", bars[i].close, i)
    BY <1>3
  <2>2. i \in 1 .. Len(bars)
    BY <2>1
  <2>3. bars[i].close \in Int
    BY <2>2, DataAssumption
  <2>4. "expired" \in PositionStatuses
    BY DEF PositionStatuses
  <2> HIDE DEF end
  <2>5. ClosePatch(levels, "expired", bars[i].close, i) \in ClosedPatch(PositionStatuses)
    BY <1>1, <2>2, <2>3, <2>4, ClosePatchType
  <2> QED
    BY <2>1, <2>5
<1> QED
  BY <1>2, <1>3 DEF WalkFilledPosition

\* A patch of a limit that fills, whatever becomes of its position.
LEMMA FilledPatchType ==
    ASSUME NEW row \in AnticRow, NEW maxBars \in Nat \ {0}, NEW bars \in Seq(Bars),
           NEW candles \in Candles, candles.last <= Len(bars), NEW fill \in Nat \ {0},
           NEW p \in FilledPatch(row, maxBars, bars, candles, fill)
    PROVE  p \in RowPatch(AnticStatus)
<1> DEFINE outcome == WalkFilledPosition(row.levels, bars, fill, candles.last, fill, maxBars)
<1>1. row.levels \in AnticipatoryLevels(Int) /\ candles.last \in Nat
  BY DEF AnticRow, Rows, Candles
<1>2. \A q \in outcome : q \in ClosedPatch(PositionStatuses)
  BY <1>1, FilledWalkType
<1> HIDE DEF outcome
<1>3. CASE p = Patch("filled", Some(fill), None, None, None)
  BY <1>3 DEF Patch, Some, None, RowPatch, AnticStatus
<1>4. CASE \E q \in outcome : p = [q EXCEPT !.filledAt = Some(fill)]
  BY <1>2, <1>4 DEF ClosedPatch, PositionStatuses, Some, RowPatch, AnticStatus
<1> QED
  BY <1>3, <1>4 DEF FilledPatch, Some, outcome

\* Every patch of an anticipatory row keeps the types of its table.
LEMMA AnticPatchType ==
    ASSUME NEW row \in AnticRow, NEW maxBars \in Nat \ {0}, NEW bars \in Seq(Bars),
           NEW candles \in Candles, candles.last <= Len(bars),
           NEW p \in SettleAnticipatory(row, maxBars, bars, candles)
    PROVE  p \in RowPatch(AnticStatus)
<1> DEFINE from == FirstBar(row, candles)
           end == from + maxBars - 1
           touches == FillBars(row.levels, bars, from, Lesser(candles.last, end))
<1>1. /\ row.levels \in AnticipatoryLevels(Int) /\ row.opened \in Nat
      /\ row.filledAt \in SUBSET Nat
      /\ candles.first \in Nat \ {0} /\ candles.last \in Nat
  BY DEF AnticRow, Rows, Candles
<1>2. from \in Nat \ {0}
  BY <1>1, FirstBarType
<1>3. CASE p \in SettlePending(row, maxBars, bars, candles)
  <2>1. CASE \E fill \in First(touches) : p \in FilledPatch(row, maxBars, bars, candles, fill)
    <3>1. PICK fill \in First(touches) : p \in FilledPatch(row, maxBars, bars, candles, fill)
      BY <2>1
    <3>2. fill \in Nat \ {0}
      BY <1>1, <1>2 DEF First, FillBars, Lesser
    <3> HIDE DEF from, touches
    <3> QED
      BY <3>1, <3>2, FilledPatchType
  <2>2. CASE \E i \in {end} \cap (1 .. candles.last) :
                p = Patch("never-filled", None, Some(i + 1), None, None)
    BY <2>2, <1>1 DEF Patch, Some, None, RowPatch, AnticStatus
  <2> QED
    BY <1>3, <2>1, <2>2 DEF SettlePending
<1>4. CASE p \in SettleFilled(row, maxBars, bars, candles)
  <2> DEFINE start(f) == Greater(candles.first, f)
  <2>1. PICK f \in row.filledAt :
            p \in WalkFilledPosition(row.levels, bars, start(f), candles.last,
                                     IF start(f) = f THEN f ELSE 0, maxBars)
    BY <1>4 DEF SettleFilled
  <2>2. start(f) \in Nat \ {0} /\ (IF start(f) = f THEN f ELSE 0) \in Nat
    BY <1>1 DEF Greater
  <2> HIDE DEF start
  <2>3. p \in ClosedPatch(PositionStatuses)
    BY <1>1, <2>1, <2>2, FilledWalkType
  <2> QED
    BY <2>3 DEF ClosedPatch, PositionStatuses, None, RowPatch, AnticStatus
<1> QED
  BY <1>3, <1>4 DEF SettleAnticipatory, None


-----------------------------------------------------------------------------
(* What the table operations return.                                       *)

\* An insert appends the row or does nothing.
LEMMA InsertType ==
    ASSUME NEW Row, NEW table \in Seq(Row), NEW row \in Row
    PROVE  /\ Insert(table, row) \in Seq(Row)
           /\ DOMAIN table \subseteq DOMAIN Insert(table, row)
BY DEF Insert

\* A new row has the types of its table.
LEMMA NewRowType ==
    ASSUME NEW Levels, NEW Statuses, NEW key \in Key, NEW levels \in Levels,
           NEW combo \in Combos, NEW status \in Statuses, NEW opened \in Nat
    PROVE  NewRow(key, levels, combo, status, opened) \in Rows(Levels, Statuses)
BY DEF NewRow, Rows, None

\* Coalescing two options gives one of them.
LEMMA PatchRowType ==
    ASSUME NEW Levels, NEW Statuses, NEW row \in Rows(Levels, Statuses),
           NEW p \in RowPatch(Statuses), NEW t \in Nat
    PROVE  PatchRow(row, p, t) \in Rows(Levels, Statuses)
BY ZenonT(40) DEF PatchRow, Coalesce, None, Rows, RowPatch

\* A closing patch is a patch.
LEMMA ClosedIsPatch ==
    ASSUME NEW Statuses, NEW Wider, Statuses \subseteq Wider, NEW p \in ClosedPatch(Statuses)
    PROVE  p \in RowPatch(Wider)
BY DEF ClosedPatch, RowPatch, None

\* A patch changes one row and keeps the table's shape.
LEMMA PatchedType ==
    ASSUME NEW Levels, NEW Statuses, NEW table \in Seq(Rows(Levels, Statuses)),
           NEW r, r.id \in DOMAIN table, NEW p \in RowPatch(Statuses),
           NEW candles \in Candles
    PROVE  /\ Patched(table, r, p, candles) \in Seq(Rows(Levels, Statuses))
           /\ DOMAIN Patched(table, r, p, candles) = DOMAIN table
           /\ \A j \in DOMAIN table :
                 j # r.id => Patched(table, r, p, candles)[j] = table[j]
           /\ Patched(table, r, p, candles)[r.id] \in
                 {table[r.id], PatchRow(table[r.id], p, candles.last + 1)}
<1> DEFINE new == PatchRow(table[r.id], p, candles.last + 1)
<1>1. table[r.id] \in Rows(Levels, Statuses) /\ candles.last + 1 \in Nat
      /\ r.id \in 1 .. Len(table)
  BY DEF Candles
<1>2. new \in Rows(Levels, Statuses)
  BY <1>1, PatchRowType
<1> HIDE DEF new
<1>3. /\ [table EXCEPT ![r.id] = new] \in Seq(Rows(Levels, Statuses))
      /\ Len([table EXCEPT ![r.id] = new]) = Len(table)
      /\ \A j \in 1 .. Len(table) :
            [table EXCEPT ![r.id] = new][j] = IF j = r.id THEN new ELSE table[j]
  BY <1>1, <1>2, ExceptSeq
<1>4. DOMAIN table = 1 .. Len(table)
  OBVIOUS
<1>5. DOMAIN [table EXCEPT ![r.id] = new] = DOMAIN table
  OBVIOUS
<1>6. CASE table[r.id].status = "deleted"
  BY <1>6 DEF Patched
<1>7. CASE table[r.id].status # "deleted"
  <2>1. Patched(table, r, p, candles) = [table EXCEPT ![r.id] = new]
    BY <1>7 DEF Patched, new
  <2> QED
    BY <1>1, <1>3, <1>4, <1>5, <2>1 DEF new
<1> QED
  BY <1>6, <1>7


Scope == Markets \X Symbols

\* What one symbol's evaluation hands to the worker.
LEMMA EvaluateSymbolType ==
    ASSUME TypeOK, NEW scope \in Scope, NEW fresh \in [Intents -> Assessments],
           NEW late \in [Intents -> BOOLEAN], NEW combos
    PROVE  EvaluateSymbol(scope, fresh, late, combos) \in Output
<1> DEFINE KeyOf(i) == <<scope[1], scope[2], i>>
           Entry(i) == ApplyRecordAdjustment(fresh[i], combos)
           adopted == {i \in Intents :
                         Adopts(hold[KeyOf(i)], Entry(i), now, late[i], MaxBars[i])}
           Drafts(i, plans, status) ==
              {NewRow(KeyOf(i), levels, fresh[i].combo, status, now) : levels \in plans}
           favored(i) == IsFavoredRead(fresh[i])
           again == {call \in calls : \E i \in Intents :
                        /\ call.key = KeyOf(i) /\ favored(i)
                        /\ call.direction = fresh[i].direction}
           holds == {[key |-> KeyOf(i), hold |-> CaptureHold(Entry(i), now),
                      favored |-> favored(i)] : i \in adopted}
           calling == {j \in adopted : IsCall(fresh[j], combos)}
           shadows == UNION {Drafts(i, fresh[i].plan, "active") : i \in calling}
           antics == UNION {Drafts(i, fresh[i].limit, "pending") : i \in Intents}
<1>1. ASSUME NEW i \in Intents
      PROVE  /\ KeyOf(i) \in Key
             /\ fresh[i].verdict \in Verdicts /\ fresh[i].direction \in Biases
             /\ fresh[i].bias \in Biases /\ fresh[i].invalidation \in Int
             /\ fresh[i].combo \in Combos
             /\ fresh[i].plan \in SUBSET ExitLevels(Int)
             /\ fresh[i].limit \in SUBSET AnticipatoryLevels(Int)
  BY <1>1, DataAssumption DEF Key, Scope
<1>2. now \in Nat
  BY DEF TypeOK
<1>3. ASSUME NEW i \in Intents
      PROVE  CaptureHold(Entry(i), now) \in HeldVerdict
  <2>1. CASE Entry(i) = fresh[i]
    BY <1>1, <1>2, <1>3, <2>1 DEF CaptureHold, HeldVerdict, None, Some
  <2>2. CASE Entry(i) = [fresh[i] EXCEPT !.verdict = "caution"]
    <3>1. fresh[i] \in [verdict : Verdicts, direction : Biases, bias : Biases,
                        lastClose : Int, invalidation : Int, combo : Combos,
                        plan : SUBSET ExitLevels(Int),
                        limit : SUBSET AnticipatoryLevels(Int)]
      BY <1>3, DataAssumption
    <3> QED
      BY <1>2, <2>2, <3>1 DEF CaptureHold, HeldVerdict, None, Some, Verdicts
  <2> QED
    BY <2>1, <2>2 DEF ApplyRecordAdjustment
<1> HIDE DEF KeyOf, Entry, favored
<1>4. holds \in SUBSET [key : Key, hold : HeldVerdict, favored : BOOLEAN]
  <2>1. ASSUME NEW i \in Intents PROVE favored(i) \in BOOLEAN
    BY DEF favored, IsFavoredRead
  <2> QED
    BY <1>1, <1>3, <2>1
<1>5. shadows \in SUBSET ShadowRow
  <2>1. ASSUME NEW i \in Intents, NEW levels \in fresh[i].plan
        PROVE  NewRow(KeyOf(i), levels, fresh[i].combo, "active", now) \in ShadowRow
    BY <1>1, <1>2, <2>1, NewRowType DEF ShadowRow, ShadowStatus
  <2> QED
    BY <2>1
<1>6. antics \in SUBSET AnticRow
  <2>1. ASSUME NEW i \in Intents, NEW levels \in fresh[i].limit
        PROVE  NewRow(KeyOf(i), levels, fresh[i].combo, "pending", now) \in AnticRow
    BY <1>1, <1>2, <2>1, NewRowType DEF AnticRow, AnticStatus
  <2> QED
    BY <2>1
<1>7. EvaluateSymbol(scope, fresh, late, combos)
        = [holds |-> holds, shadow |-> shadows, antic |-> antics, again |-> again]
  BY DEF EvaluateSymbol, KeyOf, Entry, favored
<1>8. again \in SUBSET Call
  BY DEF TypeOK
<1> HIDE DEF holds, shadows, antics, again
<1> QED
  BY <1>4, <1>5, <1>6, <1>7, <1>8 DEF Output

\* The window a group is fetched with starts at a bar and ends before the
\* forming one.
LEMMA FetchWindowType ==
    ASSUME NEW earliest \in Nat, NEW t \in Nat \ {0}
    PROVE  /\ FetchWindow(earliest, t, MinLimit, FetchLimit) \in Candles
           /\ FetchWindow(earliest, t, MinLimit, FetchLimit).last < t
BY BoundAssumption DEF FetchWindow, Candles, Greater, Lesser


-----------------------------------------------------------------------------
(* Type correctness.                                                       *)

LEMMA TypeInit == Init => TypeInv
<1> SUFFICES ASSUME Init PROVE TypeInv
  OBVIOUS
<1>1. \A k \in Key : tape[k] \in Seq(Bars) /\ Len(tape[k]) = 0
  BY DEF Init
<1>2. 1 \in Markets /\ 1 \in Symbols
  BY OrderAssumption DEF Counted
<1>3. 0 \in 0 .. MaxFaults
  BY BoundAssumption
<1>4. NoOutput \in Output
  BY DEF NoOutput, Output
<1>5. EmptyWindow \in Candles /\ EmptyWindow.last = 0
  BY DEF EmptyWindow, Candles
<1> QED
  BY <1>1, <1>2, <1>3, <1>4, <1>5
     DEF Init, TypeInv, TypeOK, WindowsClosed, Candles, PcValues, None

\* The locals of an aborted tick.
LEMMA AbortType ==
    ASSUME TypeInv, NEW w \in Workers, NEW next \in PcValues, AbortTick(w, next),
           UNCHANGED <<market, tables>>
    PROVE  /\ pc' \in [Workers -> PcValues]
           /\ at' \in [Workers -> Markets \X Symbols]
           /\ demoted' \in [Workers -> SUBSET Combos]
           /\ out' \in [Workers -> Output]
           /\ snap' \in [Workers -> SUBSET SnapItem']
           /\ group' \in [Workers -> SUBSET Key]
           /\ window' \in [Workers -> Candles]
           /\ WindowsClosed'
<1>1. 1 \in Markets /\ 1 \in Symbols
  BY OrderAssumption DEF Counted
<1>2. NoOutput \in Output
  BY DEF NoOutput, Output
<1>3. EmptyWindow \in Candles /\ EmptyWindow.last = 0
  BY DEF EmptyWindow, Candles
<1>4. SnapItem' = SnapItem
  BY DEF SnapItem, SnapOf, tables
<1> QED
  BY <1>1, <1>2, <1>3, <1>4
     DEF TypeInv, TypeOK, WindowsClosed, AbortTick, Candles, None, market

\* The locals after a symbol.
LEMMA NextSymbolType ==
    ASSUME TypeInv, NEW w \in Workers, NextSymbol(w)
    PROVE  /\ pc' \in [Workers -> PcValues]
           /\ at' \in [Workers -> Markets \X Symbols]
           /\ demoted' \in [Workers -> SUBSET Combos]
           /\ out' \in [Workers -> Output]
<1> DEFINE m == at[w][1]
           s == at[w][2]
           next == SymbolAfter(m, s)
<1>1. 1 \in Markets /\ 1 \in Symbols
  BY OrderAssumption DEF Counted
<1>2. NoOutput \in Output
  BY DEF NoOutput, Output
<1>3. m \in Markets /\ s \in Symbols
  BY DEF TypeInv, TypeOK
<1>4. next[1] \in Markets => next \in Markets \X Symbols
  BY <1>1, <1>3 DEF SymbolAfter
<1>5. pc' \in [Workers -> PcValues]
  BY DEF NextSymbol, PcValues, TypeInv, TypeOK
<1>6. at' \in [Workers -> Markets \X Symbols]
  <2>1. at' = [at EXCEPT ![w] = IF next[1] \in Markets THEN next ELSE <<1, 1>>]
    BY DEF NextSymbol
  <2>2. (IF next[1] \in Markets THEN next ELSE <<1, 1>>) \in Markets \X Symbols
    BY <1>1, <1>4
  <2> HIDE DEF next
  <2> QED
    BY <2>1, <2>2 DEF TypeInv, TypeOK
<1>7. demoted' \in [Workers -> SUBSET Combos] /\ out' \in [Workers -> Output]
  BY <1>2 DEF NextSymbol, TypeInv, TypeOK
<1> QED
  BY <1>5, <1>6, <1>7

\* The snapshots stay valid while the tables only grow.
LEMMA SnapGrows ==
    ASSUME snap \in [Workers -> SUBSET SnapItem],
           DOMAIN shadow \subseteq DOMAIN shadow', DOMAIN antic \subseteq DOMAIN antic',
           DOMAIN tracked \subseteq DOMAIN tracked'
    PROVE  snap \in [Workers -> SUBSET SnapItem']
<1>1. SnapItem \subseteq SnapItem'
  BY DEF SnapItem, SnapOf
<1> QED
  BY <1>1

LEMMA EnvironmentType ==
    ASSUME TypeInv, CloseBar \/ FollowTracked \/ DeleteTracked
    PROVE  TypeInv'
<1> USE DEF TypeInv
<1>1. CASE CloseBar
  <2>1. PICK bar \in [Key -> Bars] : tape' = [k \in Key |-> Append(tape[k], bar[k])]
    BY <1>1 DEF CloseBar
  <2>2. tape' \in [Key -> Seq(Bars)] /\ \A k \in Key : Len(tape'[k]) = now' - 1
    BY <1>1, <2>1 DEF TypeOK, CloseBar
  <2>3. SnapItem' = SnapItem
    BY <1>1 DEF CloseBar, tables, SnapItem, SnapOf
  <2>4. TypeOK'
    BY <1>1, <2>2, <2>3 DEF TypeOK, CloseBar, tables, locals
  <2>5. WindowsClosed'
    BY <1>1 DEF TypeOK, WindowsClosed, CloseBar, locals
  <2> QED
    BY <2>4, <2>5
<1>2. CASE FollowTracked
  <2>1. PICK k \in Key, levels \in FollowPlans, combo \in Combos :
            tracked' = Append(tracked, NewRow(k, levels, combo, "active", now))
    BY <1>2 DEF FollowTracked
  <2>2. NewRow(k, levels, combo, "active", now) \in TrackedRow
    BY DataAssumption, NewRowType DEF TrackedRow, TrackedStatus, TypeOK
  <2>3. tracked' \in Seq(TrackedRow) /\ DOMAIN tracked \subseteq DOMAIN tracked'
    BY <2>1, <2>2 DEF TypeOK
  <2>4. snap \in [Workers -> SUBSET SnapItem']
    BY <1>2, <2>3, SnapGrows DEF TypeOK, FollowTracked
  <2> QED
    BY <1>2, <2>3, <2>4 DEF TypeOK, WindowsClosed, FollowTracked, market, locals
<1>3. CASE DeleteTracked
  <2>1. PICK i \in DOMAIN tracked : tracked' = [tracked EXCEPT ![i].status = "deleted"]
    BY <1>3 DEF DeleteTracked
  <2> DEFINE new == [tracked[i] EXCEPT !.status = "deleted"]
  <2>2. tracked[i] \in TrackedRow /\ i \in 1 .. Len(tracked) /\ tracked \in Seq(TrackedRow)
    BY DEF TypeOK
  <2>3. new \in TrackedRow
    BY <2>2 DEF TrackedRow, Rows, TrackedStatus
  <2>4. tracked' = [tracked EXCEPT ![i] = new]
    BY <2>1
  <2> HIDE DEF new
  <2>5. tracked' \in Seq(TrackedRow) /\ DOMAIN tracked' = DOMAIN tracked
    BY <2>2, <2>3, <2>4, ExceptSeq
  <2>6. snap \in [Workers -> SUBSET SnapItem']
    BY <1>3, <2>5, SnapGrows DEF TypeOK, DeleteTracked
  <2> QED
    BY <1>3, <2>5, <2>6 DEF TypeOK, WindowsClosed, DeleteTracked, market, locals
<1> QED
  BY <1>1, <1>2, <1>3


LEMMA EvalType ==
    ASSUME TypeInv, NEW w \in Workers, EvalStep(w)
    PROVE  TypeInv'
<1> USE DEF TypeInv
<1>0. /\ at[w] \in Scope /\ out[w] \in Output
      /\ WindowsClosed
  BY DEF TypeOK, Scope
<1>1. CASE StartTick(w)
  <2>1. 1 \in Markets /\ 1 \in Symbols
    BY OrderAssumption DEF Counted
  <2>2. SnapItem' = SnapItem
    BY <1>1 DEF StartTick, tables, SnapItem, SnapOf
  <2> QED
    BY <1>1, <2>1, <2>2
       DEF StartTick, TypeOK, WindowsClosed, market, tables, PcValues
<1>2. CASE LoadComboStats(w)
  <2>1. DemotedCombos(shadow, Combos, MinTrades) \in SUBSET Combos
    BY DEF DemotedCombos
  <2>2. SnapItem' = SnapItem
    BY <1>2 DEF LoadComboStats, tables, SnapItem, SnapOf
  <2> QED
    BY <1>2, <2>1, <2>2
       DEF LoadComboStats, TypeOK, WindowsClosed, market, tables, PcValues
<1>3. CASE AssessSymbol(w)
  <2>1. PICK fresh \in [Intents -> Assessments], late \in [Intents -> BOOLEAN] :
            out' = [out EXCEPT ![w] = EvaluateSymbol(at[w], fresh, late, demoted[w])]
    BY <1>3 DEF AssessSymbol
  <2>2. EvaluateSymbol(at[w], fresh, late, demoted[w]) \in Output
    BY <1>0, EvaluateSymbolType
  <2>3. out' \in [Workers -> Output]
    BY <2>1, <2>2 DEF TypeOK
  <2>4. SnapItem' = SnapItem
    BY <1>3 DEF AssessSymbol, tables, SnapItem, SnapOf
  <2> QED
    BY <1>3, <2>3, <2>4
       DEF AssessSymbol, TypeOK, WindowsClosed, market, tables, PcValues
<1>4. CASE SkipSymbol(w) \/ EndSymbol(w)
  <2>1. NextSymbol(w) /\ UNCHANGED <<market, tables, snap, group, window, run, faults>>
    BY <1>4 DEF SkipSymbol, EndSymbol
  <2>2. SnapItem' = SnapItem
    BY <2>1 DEF tables, SnapItem, SnapOf
  <2> QED
    BY <2>1, <2>2, NextSymbolType DEF TypeOK, WindowsClosed, market, tables
<1>5. CASE UpsertHolds(w)
  <2>1. out[w].holds \in SUBSET [key : Key, hold : HeldVerdict, favored : BOOLEAN]
    BY <1>0 DEF Output
  <2>2. hold' \in [Key -> SUBSET HeldVerdict]
    BY <1>5, <2>1 DEF UpsertHolds, TypeOK
  <2>3. calls' \subseteq Call
    BY <1>5, <2>1 DEF UpsertHolds, TypeOK, HeldVerdict, Call
  <2>4. SnapItem' = SnapItem
    BY <1>5 DEF UpsertHolds, SnapItem, SnapOf
  <2> QED
    BY <1>5, <2>2, <2>3, <2>4
       DEF UpsertHolds, TypeOK, WindowsClosed, market, locals, PcValues
<1>6. CASE OpenShadow(w)
  <2>1. PICK d \in out[w].shadow : /\ shadow' = Insert(shadow, d)
                                   /\ out' = [out EXCEPT ![w].shadow = @ \ {d}]
    BY <1>6 DEF OpenShadow
  <2>2. out[w].shadow \in SUBSET ShadowRow
    BY <1>0 DEF Output
  <2>3. shadow' \in Seq(ShadowRow) /\ DOMAIN shadow \subseteq DOMAIN shadow'
    BY <2>1, <2>2, InsertType DEF TypeOK
  <2>4. out' \in [Workers -> Output]
    <3> DEFINE new == [out[w] EXCEPT !.shadow = @ \ {d}]
    <3>1. new \in Output
      BY <1>0, <2>2 DEF Output
    <3>2. out' = [out EXCEPT ![w] = new]
      BY <2>1
    <3> HIDE DEF new
    <3> QED
      BY <3>1, <3>2 DEF TypeOK
  <2>5. snap \in [Workers -> SUBSET SnapItem']
    BY <1>6, <2>3, SnapGrows DEF TypeOK, OpenShadow
  <2> QED
    BY <1>6, <2>3, <2>4, <2>5 DEF OpenShadow, TypeOK, WindowsClosed, market
<1>7. CASE OpenAnticipatory(w)
  <2>1. PICK d \in out[w].antic : /\ antic' = Insert(antic, d)
                                  /\ out' = [out EXCEPT ![w].antic = @ \ {d}]
    BY <1>7 DEF OpenAnticipatory
  <2>2. out[w].antic \in SUBSET AnticRow
    BY <1>0 DEF Output
  <2>3. antic' \in Seq(AnticRow) /\ DOMAIN antic \subseteq DOMAIN antic'
    BY <2>1, <2>2, InsertType DEF TypeOK
  <2>4. out' \in [Workers -> Output]
    <3> DEFINE new == [out[w] EXCEPT !.antic = @ \ {d}]
    <3>1. new \in Output
      BY <1>0, <2>2 DEF Output
    <3>2. out' = [out EXCEPT ![w] = new]
      BY <2>1
    <3> HIDE DEF new
    <3> QED
      BY <3>1, <3>2 DEF TypeOK
  <2>5. snap \in [Workers -> SUBSET SnapItem']
    BY <1>7, <2>3, SnapGrows DEF TypeOK, OpenAnticipatory
  <2> QED
    BY <1>7, <2>3, <2>4, <2>5 DEF OpenAnticipatory, TypeOK, WindowsClosed, market
<1> QED
  BY <1>1, <1>2, <1>3, <1>4, <1>5, <1>6, <1>7 DEF EvalStep


\* A snapshot item refers to a row of its table, and its patches fit that table.
LEMMA SettlePatchType ==
    ASSUME TypeInv, NEW w \in Workers, NEW r \in snap[w], NEW p \in SettlePatch(r, window[w])
    PROVE  /\ r.kind = "shadow" => /\ r.id \in DOMAIN shadow /\ r.row \in ShadowRow
                                   /\ p \in RowPatch(ShadowStatus)
           /\ r.kind = "antic" => /\ r.id \in DOMAIN antic /\ r.row \in AnticRow
                                  /\ p \in RowPatch(AnticStatus)
           /\ r.kind \notin {"shadow", "antic"} =>
                 r.id \in DOMAIN tracked /\ r.row \in TrackedRow /\ p \in RowPatch(TrackedStatus)
<1> USE DEF TypeInv
<1> DEFINE k == r.row.key
<1>1. r \in SnapItem
  BY DEF TypeOK
<1>2. window[w] \in Candles /\ window[w].last <= now - 1
  BY DEF TypeOK, WindowsClosed, Candles
<1>3. ASSUME k \in Key
      PROVE  /\ MaxBars[k[3]] \in Nat \ {0} /\ tape[k] \in Seq(Bars)
             /\ window[w].last <= Len(tape[k])
  BY <1>2, <1>3, BoundAssumption DEF Key, TypeOK
<1>4. CASE r.kind = "shadow"
  <2>1. r.id \in DOMAIN shadow /\ r.row \in ShadowRow
    BY <1>1, <1>4 DEF SnapItem, SnapOf
  <2>2. k \in Key
    BY <2>1 DEF ShadowRow, Rows
  <2>3. p \in SettleShadow(r.row, MaxBars[k[3]], tape[k], window[w])
    BY <1>4 DEF SettlePatch
  <2> HIDE DEF k
  <2>4. p \in ClosedPatch(ExitStatuses \cup {"expired"})
    BY <1>2, <1>3, <2>1, <2>2, <2>3, ShadowPatchType
  <2>5. ExitStatuses \cup {"expired"} \subseteq ShadowStatus
    BY DEF ExitStatuses, ShadowStatus
  <2> QED
    BY <1>4, <2>1, <2>4, <2>5, ClosedIsPatch
<1>5. CASE r.kind = "antic"
  <2>1. r.id \in DOMAIN antic /\ r.row \in AnticRow
    BY <1>1, <1>5 DEF SnapItem, SnapOf
  <2>2. k \in Key
    BY <2>1 DEF AnticRow, Rows
  <2>3. p \in SettleAnticipatory(r.row, MaxBars[k[3]], tape[k], window[w])
    BY <1>5 DEF SettlePatch
  <2> HIDE DEF k
  <2>4. p \in RowPatch(AnticStatus)
    BY <1>2, <1>3, <2>1, <2>2, <2>3, AnticPatchType
  <2> QED
    BY <1>5, <2>1, <2>4
<1>6. CASE r.kind \notin {"shadow", "antic"}
  <2>1. r.id \in DOMAIN tracked /\ r.row \in TrackedRow
    BY <1>1, <1>6 DEF SnapItem, SnapOf
  <2>2. k \in Key
    BY <2>1 DEF TrackedRow, Rows
  <2>3. p \in SettleTracked(r.row, tape[k], window[w])
    BY <1>6 DEF SettlePatch
  <2> HIDE DEF k
  <2>4. p \in ClosedPatch(ExitStatuses)
    BY <1>2, <1>3, <2>1, <2>2, <2>3, TrackedPatchType
  <2>5. ExitStatuses \subseteq TrackedStatus
    BY DEF ExitStatuses, TrackedStatus
  <2> QED
    BY <1>6, <2>1, <2>4, <2>5, ClosedIsPatch
<1> QED
  BY <1>4, <1>5, <1>6

\* A patch keeps the types of the three tables and their domains.
LEMMA PatchRecordType ==
    ASSUME TypeInv, NEW w \in Workers, NEW r \in snap[w], NEW p \in SettlePatch(r, window[w]),
           PatchRecord(r, p, window[w])
    PROVE  /\ shadow' \in Seq(ShadowRow) /\ DOMAIN shadow' = DOMAIN shadow
           /\ antic' \in Seq(AnticRow) /\ DOMAIN antic' = DOMAIN antic
           /\ tracked' \in Seq(TrackedRow) /\ DOMAIN tracked' = DOMAIN tracked
<1>1. window[w] \in Candles
  BY DEF TypeInv, TypeOK, Candles
<1>2. CASE r.kind = "shadow"
  <2>1. shadow' = Patched(shadow, r, p, window[w]) /\ UNCHANGED <<antic, tracked>>
    BY <1>2 DEF PatchRecord
  <2>2. r.id \in DOMAIN shadow /\ p \in RowPatch(ShadowStatus)
    BY <1>2, SettlePatchType
  <2> QED
    BY <1>1, <2>1, <2>2, PatchedType DEF ShadowRow, TypeInv, TypeOK
<1>3. CASE r.kind = "antic"
  <2>1. antic' = Patched(antic, r, p, window[w]) /\ UNCHANGED <<shadow, tracked>>
    BY <1>3 DEF PatchRecord
  <2>2. r.id \in DOMAIN antic /\ p \in RowPatch(AnticStatus)
    BY <1>3, SettlePatchType
  <2> QED
    BY <1>1, <2>1, <2>2, PatchedType DEF AnticRow, TypeInv, TypeOK
<1>4. CASE r.kind \notin {"shadow", "antic"}
  <2>1. tracked' = Patched(tracked, r, p, window[w]) /\ UNCHANGED <<shadow, antic>>
    BY <1>4 DEF PatchRecord
  <2>2. r.id \in DOMAIN tracked /\ p \in RowPatch(TrackedStatus)
    BY <1>4, SettlePatchType
  <2> QED
    BY <1>1, <2>1, <2>2, PatchedType DEF TrackedRow, TypeInv, TypeOK
<1> QED
  BY <1>2, <1>3, <1>4


LEMMA SettleType ==
    ASSUME TypeInv, NEW w \in Workers, SettleStep(w)
    PROVE  TypeInv'
<1> USE DEF TypeInv
<1>1. CASE ListOpen(w)
  <2>1. /\ OpenRecords("shadow", shadow) \in SUBSET SnapItem
        /\ OpenRecords("antic", antic) \in SUBSET SnapItem
        /\ OpenRecords("tracked", tracked) \in SUBSET SnapItem
    BY DEF OpenRecords, SnapItem, SnapOf, TypeOK
  <2>2. SnapItem' = SnapItem
    BY <1>1 DEF ListOpen, tables, SnapItem, SnapOf
  <2>3. snap' \in [Workers -> SUBSET SnapItem']
    BY <1>1, <2>1, <2>2 DEF ListOpen, TypeOK
  <2> QED
    BY <1>1, <2>3 DEF ListOpen, TypeOK, WindowsClosed, market, tables, PcValues
<1>2. CASE FetchGroup(w)
  <2>1. PICK k \in Key : \E earliest \in First({r.row.opened : r \in InGroup(k, snap[w])}) :
            /\ window' = [window EXCEPT ![w] =
                             FetchWindow(earliest, now, MinLimit, FetchLimit)]
            /\ group' = [group EXCEPT ![w] = Some(k)]
    BY <1>2 DEF FetchGroup
  <2>2. PICK earliest \in First({r.row.opened : r \in InGroup(k, snap[w])}) :
            /\ window' = [window EXCEPT ![w] =
                             FetchWindow(earliest, now, MinLimit, FetchLimit)]
            /\ group' = [group EXCEPT ![w] = Some(k)]
    BY <2>1
  <2>3. \A r \in SnapItem : r.row.opened \in Nat
    BY DEF SnapItem, SnapOf, ShadowRow, AnticRow, TrackedRow, Rows
  <2>4. earliest \in Nat
    BY <2>2, <2>3 DEF First, InGroup, TypeOK
  <2> DEFINE candles == FetchWindow(earliest, now, MinLimit, FetchLimit)
  <2>5. candles \in Candles /\ candles.last < now
    BY <2>4, FetchWindowType DEF TypeOK
  <2> HIDE DEF candles
  <2>6. window' = [window EXCEPT ![w] = candles]
    BY <2>2 DEF candles
  <2>7. window' \in [Workers -> Candles] /\ WindowsClosed'
    BY <1>2, <2>5, <2>6 DEF TypeOK, WindowsClosed, Candles, FetchGroup, market
  <2>8. group' \in [Workers -> SUBSET Key]
    BY <2>2 DEF TypeOK, Some
  <2>9. SnapItem' = SnapItem
    BY <1>2 DEF FetchGroup, tables, SnapItem, SnapOf
  <2> QED
    BY <1>2, <2>7, <2>8, <2>9 DEF FetchGroup, TypeOK, Candles, market, tables, PcValues
<1>3. CASE SettleRecord(w)
  <2>1. PICK r \in snap[w] :
            /\ \/ \E p \in SettlePatch(r, window[w]) : PatchRecord(r, p, window[w])
               \/ SettlePatch(r, window[w]) = None /\ UNCHANGED <<shadow, antic, tracked>>
            /\ snap' = [snap EXCEPT ![w] = @ \ {r}]
    BY <1>3 DEF SettleRecord
  <2>2. /\ shadow' \in Seq(ShadowRow) /\ DOMAIN shadow' = DOMAIN shadow
        /\ antic' \in Seq(AnticRow) /\ DOMAIN antic' = DOMAIN antic
        /\ tracked' \in Seq(TrackedRow) /\ DOMAIN tracked' = DOMAIN tracked
    <3>1. CASE \E p \in SettlePatch(r, window[w]) : PatchRecord(r, p, window[w])
      BY <3>1, PatchRecordType
    <3>2. CASE UNCHANGED <<shadow, antic, tracked>>
      BY <3>2 DEF TypeOK
    <3> QED
      BY <2>1, <3>1, <3>2
  <2>3. snap \in [Workers -> SUBSET SnapItem']
    BY <2>2, SnapGrows DEF TypeOK
  <2>4. snap' \in [Workers -> SUBSET SnapItem']
    BY <2>1, <2>3
  <2> QED
    BY <1>3, <2>2, <2>4 DEF SettleRecord, TypeOK, WindowsClosed, market
<1>4. CASE PatchConflicts(w)
  <2>1. AbortTick(w, "failed") /\ UNCHANGED <<market, tables, run, faults>>
    BY <1>4 DEF PatchConflicts
  <2> QED
    BY <2>1, AbortType DEF TypeOK, Candles, PcValues, market, tables
<1>5. CASE EndGroup(w)
  <2>1. EmptyWindow \in Candles /\ EmptyWindow.last = 0
    BY DEF EmptyWindow, Candles
  <2>2. SnapItem' = SnapItem
    BY <1>5 DEF EndGroup, tables, SnapItem, SnapOf
  <2>3. WindowsClosed'
    BY <1>5, <2>1 DEF EndGroup, TypeOK, WindowsClosed, market
  <2>4. window' \in [Workers -> Candles] /\ group' \in [Workers -> SUBSET Key]
    BY <1>5, <2>1 DEF EndGroup, TypeOK, Candles, None
  <2>5. pc' \in [Workers -> PcValues]
    BY <1>5 DEF EndGroup, TypeOK, PcValues
  <2> QED
    <3>1. UNCHANGED <<market, tables, at, demoted, out, snap, run, faults>>
      BY <1>5 DEF EndGroup
    <3>2. snap' \in [Workers -> SUBSET SnapItem']
      BY <2>2, <3>1 DEF TypeOK
    <3>3. TypeOK'
      BY <2>4, <2>5, <3>1, <3>2 DEF TypeOK, Candles, market, tables
    <3> QED
      BY <2>3, <3>3
<1>6. CASE FinishRun(w) \/ FinishError(w)
  <2>1. UNCHANGED <<market, tables, locals, faults>>
    BY <1>6 DEF FinishRun, FinishError
  <2>2. snap' \in [Workers -> SUBSET SnapItem']
    BY <2>1 DEF tables, locals, SnapItem, SnapOf, TypeOK
  <2>3. pc' \in [Workers -> PcValues] /\ run' \in [Workers -> {"none", "running", "ok", "error"}]
    BY <1>6 DEF FinishRun, FinishError, TypeOK, PcValues
  <2>4. TypeOK'
    BY <2>1, <2>2, <2>3 DEF TypeOK, market, tables, locals
  <2>5. WindowsClosed'
    BY <2>1 DEF WindowsClosed, market, locals
  <2> QED
    BY <2>4, <2>5
<1> QED
  BY <1>1, <1>2, <1>3, <1>4, <1>5, <1>6 DEF SettleStep

LEMMA FaultType ==
    ASSUME TypeInv, NEW w \in Workers, FaultStep(w)
    PROVE  TypeInv'
<1> USE DEF TypeInv
<1>0. ASSUME Fault PROVE faults' \in 0 .. MaxFaults
  BY <1>0, BoundAssumption DEF Fault, TypeOK
<1>1. CASE EvalFails(w)
  <2>1. NextSymbol(w) /\ Fault /\ UNCHANGED <<market, tables, snap, group, window, run>>
    BY <1>1 DEF EvalFails
  <2>2. SnapItem' = SnapItem
    BY <2>1 DEF tables, SnapItem, SnapOf
  <2> QED
    BY <1>0, <2>1, <2>2, NextSymbolType DEF TypeOK, WindowsClosed, market, tables
<1>2. CASE FeedDown(w)
  <2>1. snap' \in [Workers -> SUBSET SnapItem]
    BY <1>2 DEF FeedDown, TypeOK
  <2>2. SnapItem' = SnapItem
    BY <1>2 DEF FeedDown, tables, SnapItem, SnapOf
  <2> QED
    BY <1>0, <1>2, <2>1, <2>2 DEF FeedDown, TypeOK, WindowsClosed, market, tables
<1>3. CASE TickFails(w) \/ KlinesUnparsable(w) \/ Crash(w)
  <2>1. /\ AbortTick(w, "failed") \/ AbortTick(w, "idle")
        /\ Fault /\ UNCHANGED <<market, tables, run>>
    BY <1>3 DEF TickFails, KlinesUnparsable, Crash
  <2>2. "failed" \in PcValues /\ "idle" \in PcValues
    BY DEF PcValues
  <2> QED
    BY <1>0, <2>1, <2>2, AbortType DEF TypeOK, Candles, market, tables
<1> QED
  BY <1>1, <1>2, <1>3 DEF FaultStep

LEMMA TypeStep == TypeInv /\ [Next]_vars => TypeInv'
<1> SUFFICES ASSUME TypeInv, [Next]_vars PROVE TypeInv'
  OBVIOUS
<1>1. CASE CloseBar \/ FollowTracked \/ DeleteTracked
  BY <1>1, EnvironmentType
<1>2. ASSUME NEW w \in Workers, EvalStep(w) PROVE TypeInv'
  BY <1>2, EvalType
<1>3. ASSUME NEW w \in Workers, SettleStep(w) PROVE TypeInv'
  BY <1>3, SettleType
<1>4. ASSUME NEW w \in Workers, FaultStep(w) PROVE TypeInv'
  BY <1>4, FaultType
<1>5. CASE UNCHANGED vars
  BY <1>5 DEF vars, TypeInv, TypeOK, WindowsClosed, SnapItem, SnapOf
<1> QED
  BY <1>1, <1>2, <1>3, <1>4, <1>5 DEF Next

\* Every variable keeps its shape in every behaviour, whatever the constants:
\* rows keep the columns of their table, snapshots refer to existing rows, and
\* no tick holds candles of a bar that has not closed.
THEOREM TypeCorrect == Spec => [](TypeOK /\ WindowsClosed)
<1>1. Init => TypeInv
  BY TypeInit
<1>2. TypeInv /\ [Next]_vars => TypeInv'
  BY TypeStep
<1> QED
  BY <1>1, <1>2, PTL DEF Spec, TypeInv

=============================================================================
