------------------------------ MODULE RecordProofs ------------------------------
(***************************************************************************)
(* The track record is graded by the tape, for every value of the          *)
(* constants of ForwardTest: any number of workers, symbols, bars, faults. *)
(* The invariant is inductive together with PassUsable: what a settle pass *)
(* works with stays usable while other ticks write.                        *)
(***************************************************************************)
EXTENDS ForwardTestProofs

-----------------------------------------------------------------------------
(* What one settlement of a record says.                                   *)

\* A shadow patch, applied to a row whose candles reach back to its opening,
\* gives the row the outcome of the whole tape.
LEMMA ShadowPatchGrades ==
    ASSUME NEW row \in ShadowRow, NEW seen \in ShadowRow,
           seen.levels = row.levels, seen.opened = row.opened,
           NEW maxBars \in Nat \ {0}, NEW bars \in Seq(Bars),
           NEW candles \in Candles, candles.last <= Len(bars),
           candles.first <= row.opened + 1,
           NEW p \in SettleShadow(seen, maxBars, bars, candles), NEW t \in Nat
    PROVE  ShadowOutcome(PatchRow(row, p, t), maxBars, bars)
<1> DEFINE from == row.opened + 1
           last == from + maxBars - 1
           exits == ExitBars(row.levels, bars, from, Lesser(candles.last, last))
           new == PatchRow(row, p, t)
<1>1. /\ row.opened \in Nat /\ last = row.opened + maxBars
      /\ candles.last \in Nat
  BY DEF ShadowRow, Rows, Candles
<1>2. FirstBar(seen, candles) = from
  BY <1>1 DEF FirstBar, Greater, Candles
<1>3. \A e \in exits : /\ e \in from .. last /\ e <= candles.last
                       /\ ExitStatus(row.levels, bars[e]) # "open"
  BY <1>1 DEF ExitBars, Lesser
<1>4. \A i \in from .. last : i <= candles.last /\ i \notin exits
                                 => ExitStatus(row.levels, bars[i]) = "open"
  BY <1>1 DEF ExitBars, Lesser
<1>5. ASSUME NEW status, NEW price, NEW e,
             p = ClosePatch(row.levels, status, price, e)
      PROVE  /\ new.levels = row.levels /\ new.opened = row.opened
             /\ new.status = status /\ new.closedAt = Some(e + 1)
             /\ new.closePrice = Some(price)
             /\ new.resultR = Some(ResultR(row.levels, price))
  BY <1>5, SMTT(30) DEF ClosePatch, Patch, PatchRow, Coalesce, Some, None, ShadowRow, Rows
<1>6. \/ exits # {} /\ \E e \in First(exits) : p = LevelPatch(row.levels, bars, e)
      \/ /\ exits = {} /\ last <= candles.last
         /\ p = ClosePatch(row.levels, "expired", bars[last].close, last)
  BY <1>2 DEF SettleShadow, None
<1> HIDE DEF exits, new
<1>7. CASE \E e \in First(exits) : p = LevelPatch(row.levels, bars, e)
  <2>1. PICK e \in First(exits) : p = LevelPatch(row.levels, bars, e)
    BY <1>7
  <2> DEFINE status == ExitStatus(row.levels, bars[e])
             price == ExitLevel(row.levels, status)
  <2>2. p = ClosePatch(row.levels, status, price, e)
    BY <2>1 DEF LevelPatch
  <2>3. e \in from .. last /\ e <= Len(bars) /\ status # "open"
    BY <1>1, <1>3, <2>1 DEF First
  <2>4. \A i \in from .. e - 1 : ExitStatus(row.levels, bars[i]) = "open"
    BY SMTT(30), <1>1, <1>3, <1>4, <2>1 DEF First
  <2> HIDE DEF status, price
  <2>5. /\ new.levels = row.levels /\ new.opened = row.opened
        /\ new.status = status /\ new.closedAt = Some(e + 1)
        /\ new.closePrice = Some(price)
        /\ new.resultR = Some(ResultR(row.levels, price))
    BY <1>5, <2>2
  <2> QED
    BY <1>1, <2>3, <2>4, <2>5 DEF ShadowOutcome, new, Some, status, price
<1>8. CASE /\ exits = {} /\ last <= candles.last
           /\ p = ClosePatch(row.levels, "expired", bars[last].close, last)
  <2>1. \A i \in from .. last : ExitStatus(row.levels, bars[i]) = "open"
    BY <1>1, <1>4, <1>8
  <2>2. /\ new.levels = row.levels /\ new.opened = row.opened
        /\ new.status = "expired" /\ new.closedAt = Some(last + 1)
        /\ new.closePrice = Some(bars[last].close)
        /\ new.resultR = Some(ResultR(row.levels, bars[last].close))
    BY <1>5, <1>8
  <2>3. last \in row.opened + 1 .. row.opened + maxBars /\ last <= Len(bars)
    BY <1>1, <1>8
  <2> QED
    BY SMTT(30), <1>1, <2>1, <2>2, <2>3 DEF ShadowOutcome, new, Some
<1> QED
  BY <1>6, <1>7, <1>8

\* An outcome read off a tape is the outcome read off a longer one.
LEMMA OutcomeStable ==
    ASSUME NEW row \in ShadowRow, NEW maxBars \in Nat \ {0}, NEW bars \in Seq(Bars),
           NEW bar \in Bars, ShadowOutcome(row, maxBars, bars)
    PROVE  ShadowOutcome(row, maxBars, Append(bars, bar))
<1> DEFINE longer == Append(bars, bar)
<1>1. row.opened \in Nat
  BY DEF ShadowRow, Rows
<1>2. Len(bars) <= Len(longer) /\ \A i \in 1 .. Len(bars) : longer[i] = bars[i]
  OBVIOUS
<1>3. PICK e \in row.opened + 1 .. row.opened + maxBars :
        /\ e <= Len(bars)
        /\ row.closedAt = Some(e + 1)
        /\ \A i \in row.opened + 1 .. e - 1 : ExitStatus(row.levels, bars[i]) = "open"
        /\ \/ /\ ExitStatus(row.levels, bars[e]) # "open"
              /\ row.status = ExitStatus(row.levels, bars[e])
              /\ row.closePrice = Some(ExitLevel(row.levels, row.status))
           \/ /\ ExitStatus(row.levels, bars[e]) = "open"
              /\ e = row.opened + maxBars
              /\ row.status = "expired"
              /\ row.closePrice = Some(bars[e].close)
        /\ \A price \in row.closePrice : row.resultR = Some(ResultR(row.levels, price))
  BY DEF ShadowOutcome
<1>4. longer[e] = bars[e] /\ \A i \in row.opened + 1 .. e - 1 : longer[i] = bars[i]
  BY <1>1, <1>2, <1>3
<1>5. e <= Len(longer)
  BY <1>1, <1>2, <1>3
<1> HIDE DEF longer
<1> QED
  BY <1>3, <1>4, <1>5 DEF ShadowOutcome, longer

\* The window of a group reaches back to the opening of each of its records.
LEMMA FetchReaches ==
    ASSUME NEW earliest \in Nat, NEW opened \in Nat, earliest <= opened,
           NEW t \in Nat \ {0},
           LET candles == FetchWindow(earliest, t, MinLimit, FetchLimit)
           IN  candles.last + 1 - opened <= FetchLimit
    PROVE  FetchWindow(earliest, t, MinLimit, FetchLimit).first <= opened + 1
BY BoundAssumption DEF FetchWindow, Greater, Lesser

\* A patch of a followed signal closes it on the first bar that touches a level.
LEMMA TrackedPatchGrades ==
    ASSUME NEW row \in TrackedRow, NEW seen \in TrackedRow,
           seen.levels = row.levels, seen.opened = row.opened,
           NEW bars \in Seq(Bars),
           NEW candles \in Candles, candles.last <= Len(bars),
           candles.first <= row.opened + 1,
           NEW p \in SettleTracked(seen, bars, candles), NEW t \in Nat
    PROVE  TrackedOutcome(PatchRow(row, p, t), bars)
<1> DEFINE from == row.opened + 1
           exits == ExitBars(row.levels, bars, from, candles.last)
           new == PatchRow(row, p, t)
<1>1. row.opened \in Nat /\ candles.last \in Nat
  BY DEF TrackedRow, Rows, Candles
<1>2. FirstBar(seen, candles) = from
  BY <1>1 DEF FirstBar, Greater, Candles
<1>3. PICK e \in First(exits) : p = LevelPatch(row.levels, bars, e)
  BY <1>2 DEF SettleTracked, None
<1>4. e \in from .. Len(bars) /\ \A i \in from .. e - 1 : ExitStatus(row.levels, bars[i]) = "open"
  BY <1>1, <1>3 DEF First, ExitBars
<1>5. /\ new.levels = row.levels /\ new.opened = row.opened
      /\ new.closedAt = Some(e + 1)
      /\ new.status = ExitStatus(row.levels, bars[e])
  BY <1>3 DEF LevelPatch, ClosePatch, Patch, PatchRow, Coalesce, Some, None,
              TrackedRow, Rows
<1> HIDE DEF new
<1>6. \A closed \in new.closedAt : closed = e + 1
  BY <1>5 DEF Some
<1>7. (e + 1) - 1 = e /\ (e + 1) - 2 = e - 1
  BY <1>1, <1>4
<1> QED
  BY <1>4, <1>5, <1>6, <1>7 DEF TrackedOutcome, new

\* The same outcome is read off a longer tape.
LEMMA TrackedOutcomeStable ==
    ASSUME NEW row \in TrackedRow, NEW bars \in Seq(Bars), NEW bar \in Bars,
           TrackedOutcome(row, bars)
    PROVE  TrackedOutcome(row, Append(bars, bar))
<1> DEFINE longer == Append(bars, bar)
<1>1. row.opened \in Nat /\ row.closedAt \subseteq Nat
  BY DEF TrackedRow, Rows
<1>2. Len(bars) <= Len(longer) /\ \A i \in 1 .. Len(bars) : longer[i] = bars[i]
  OBVIOUS
<1> HIDE DEF longer
<1>3. ASSUME NEW closed \in row.closedAt
      PROVE  /\ closed - 1 \in row.opened + 1 .. Len(longer)
             /\ \A j \in row.opened + 1 .. closed - 2 :
                    ExitStatus(row.levels, longer[j]) = "open"
             /\ row.status \in {"deleted", ExitStatus(row.levels, longer[closed - 1])}
  <2>1. closed - 1 \in row.opened + 1 .. Len(bars)
    BY <1>3 DEF TrackedOutcome
  <2>2. /\ longer[closed - 1] = bars[closed - 1]
        /\ \A j \in row.opened + 1 .. closed - 2 : longer[j] = bars[j]
    BY <1>1, <1>2, <2>1
  <2>3. closed - 1 \in row.opened + 1 .. Len(longer)
    BY <1>1, <1>2, <2>1, LenProperties DEF longer
  <2> QED
    BY <1>3, <2>2, <2>3 DEF TrackedOutcome
<1> QED
  BY <1>3 DEF TrackedOutcome, longer

-----------------------------------------------------------------------------
(* The invariant and the steps that touch none of the tables.              *)

RecordInv == PassUsable /\ ShadowGradedByTape /\ TrackedGradedByTape

SameColumns(a, b) == <<a.key, a.levels, a.opened>> = <<b.key, b.levels, b.opened>>

\* Rows may be added and patched, never renamed or removed.
Grows(old, new) == \A i \in DOMAIN old : i \in DOMAIN new /\ SameColumns(old[i], new[i])

TablesGrow == Grows(shadow, shadow') /\ Grows(antic, antic') /\ Grows(tracked, tracked')

\* No worker takes on work it did not hold.
SnapShrinks == \A v \in Workers : snap'[v] \subseteq snap[v]
WindowsKept ==
    \A v \in Workers : pc'[v] = "patch" =>
        pc[v] = "patch" /\ group'[v] = group[v] /\ window'[v] = window[v]
DraftsShrink == \A v \in Workers : out'[v].shadow \subseteq out[v].shadow

\* A record in a snapshot names a row of the table of its kind.
LEMMA ItemTable ==
    ASSUME TypeOK, NEW w \in Workers, NEW r \in snap[w]
    PROVE  /\ r.kind \in {"shadow", "antic", "tracked"}
           /\ r.id \in DOMAIN TableOf(r.kind)
           /\ r.row.opened \in Nat /\ r.row.key \in Key
<1>1. r \in SnapItem
  BY DEF TypeOK
<1>2. CASE r \in SnapOf("shadow", shadow, ShadowRow)
  BY <1>2 DEF SnapOf, TableOf, ShadowRow, Rows
<1>3. CASE r \in SnapOf("antic", antic, AnticRow)
  BY <1>3 DEF SnapOf, TableOf, AnticRow, Rows
<1>4. CASE r \in SnapOf("tracked", tracked, TrackedRow)
  BY <1>4 DEF SnapOf, TableOf, TrackedRow, Rows
<1> QED
  BY <1>1, <1>2, <1>3, <1>4 DEF SnapItem

\* Snapshots agree with tables that only grow.
LEMMA AgreeStep ==
    ASSUME TypeOK, SnapshotsAgree, TablesGrow, SnapShrinks
    PROVE  SnapshotsAgree'
<1> SUFFICES ASSUME NEW w \in Workers, NEW r \in snap'[w]
             PROVE  SameColumns(r.row, TableOf(r.kind)'[r.id])
  BY DEF SnapshotsAgree, SameColumns
<1>1. r \in snap[w]
  BY DEF SnapShrinks
<1>2. r.kind \in {"shadow", "antic", "tracked"} /\ r.id \in DOMAIN TableOf(r.kind)
  BY <1>1, ItemTable
<1>3. SameColumns(r.row, TableOf(r.kind)[r.id])
  BY <1>1 DEF SnapshotsAgree, SameColumns
<1>4. SameColumns(TableOf(r.kind)[r.id], TableOf(r.kind)'[r.id])
  BY <1>2 DEF TablesGrow, Grows, TableOf
<1> QED
  BY <1>3, <1>4 DEF SameColumns

\* Windows that are kept still reach back.
LEMMA ReachStep ==
    ASSUME WindowsReach, SnapShrinks, WindowsKept
    PROVE  WindowsReach'
BY DEF WindowsReach, SnapShrinks, WindowsKept, InGroup

\* A step that leaves the tables and the tape alone and narrows every worker's
\* work keeps the invariant.
LEMMA QuietStep ==
    ASSUME TypeOK, RecordInv, UNCHANGED <<tape, shadow, antic, tracked>>,
           SnapShrinks, WindowsKept, DraftsShrink
    PROVE  RecordInv'
<1>1. TablesGrow
  BY DEF TablesGrow, Grows, SameColumns
<1>2. SnapshotsAgree' /\ WindowsReach'
  BY <1>1, AgreeStep, ReachStep DEF RecordInv, PassUsable
<1>3. DraftsOpen'
  BY DEF RecordInv, PassUsable, DraftsOpen, DraftsShrink
<1>4. ShadowGradedByTape' /\ TrackedGradedByTape'
  BY DEF RecordInv, ShadowGradedByTape, TrackedGradedByTape
<1> QED
  BY <1>2, <1>3, <1>4 DEF RecordInv, PassUsable

\* A step that writes the tables keeps the invariant once its rows are graded.
LEMMA TableStep ==
    ASSUME TypeOK, RecordInv, TablesGrow, SnapShrinks, WindowsKept,
           DraftsOpen', ShadowGradedByTape', TrackedGradedByTape'
    PROVE  RecordInv'
BY AgreeStep, ReachStep DEF RecordInv, PassUsable

-----------------------------------------------------------------------------
(* The exchange and the users.                                             *)

LEMMA CloseBarRecord ==
    ASSUME TypeInv, RecordInv, CloseBar
    PROVE  RecordInv'
<1> USE DEF TypeInv
<1>1. PICK bar \in [Key -> Bars] : tape' = [k \in Key |-> Append(tape[k], bar[k])]
  BY DEF CloseBar
<1>2. UNCHANGED <<shadow, antic, tracked, snap, pc, group, window, out>>
  BY DEF CloseBar, tables, locals
<1>3. TablesGrow /\ SnapShrinks /\ WindowsKept /\ DraftsOpen'
  BY <1>2 DEF TablesGrow, Grows, SameColumns, SnapShrinks, WindowsKept,
              RecordInv, PassUsable, DraftsOpen
<1>4. ShadowGradedByTape'
  <2> SUFFICES ASSUME NEW i \in DOMAIN shadow, ~ IsOpen(shadow[i]), Covered(shadow[i])
               PROVE  ShadowOutcome(shadow[i], MaxBars[shadow[i].key[3]],
                                    tape'[shadow[i].key])
    BY <1>2 DEF ShadowGradedByTape
  <2> DEFINE k == shadow[i].key
  <2>1. shadow[i] \in ShadowRow
    BY DEF TypeOK
  <2>2. k \in Key
    BY <2>1 DEF ShadowRow, Rows
  <2>3. MaxBars[k[3]] \in Nat \ {0}
    BY <2>2, BoundAssumption DEF Key
  <2>4. tape[k] \in Seq(Bars) /\ bar[k] \in Bars /\ tape'[k] = Append(tape[k], bar[k])
    BY <1>1, <2>2 DEF TypeOK
  <2>5. ShadowOutcome(shadow[i], MaxBars[k[3]], tape[k])
    BY DEF RecordInv, ShadowGradedByTape
  <2> QED
    BY <2>1, <2>3, <2>4, <2>5, OutcomeStable
<1>5. TrackedGradedByTape'
  <2> SUFFICES ASSUME NEW i \in DOMAIN tracked, Covered(tracked[i])
               PROVE  TrackedOutcome(tracked[i], tape'[tracked[i].key])
    BY <1>2 DEF TrackedGradedByTape
  <2> DEFINE k == tracked[i].key
  <2>1. tracked[i] \in TrackedRow
    BY DEF TypeOK
  <2>2. k \in Key
    BY <2>1 DEF TrackedRow, Rows
  <2>3. tape[k] \in Seq(Bars) /\ bar[k] \in Bars /\ tape'[k] = Append(tape[k], bar[k])
    BY <1>1, <2>2 DEF TypeOK
  <2>4. TrackedOutcome(tracked[i], tape[k])
    BY DEF RecordInv, TrackedGradedByTape
  <2> QED
    BY <2>1, <2>3, <2>4, TrackedOutcomeStable
<1> QED
  BY <1>3, <1>4, <1>5, TableStep

\* A row appended to a table leaves the others as they are.
LEMMA AppendGrows ==
    ASSUME NEW Row, NEW table \in Seq(Row), NEW row \in Row
    PROVE  /\ Grows(table, Append(table, row)) /\ Grows(table, Insert(table, row))
           /\ \A i \in DOMAIN Insert(table, row) :
                  \/ i \in DOMAIN table /\ Insert(table, row)[i] = table[i]
                  \/ Insert(table, row)[i] = row
           /\ \A i \in DOMAIN Append(table, row) :
                  \/ i \in DOMAIN table /\ Append(table, row)[i] = table[i]
                  \/ Append(table, row)[i] = row
<1>1. /\ DOMAIN table = 1 .. Len(table)
      /\ DOMAIN Append(table, row) = 1 .. Len(table) + 1
      /\ \A i \in 1 .. Len(table) : Append(table, row)[i] = table[i]
      /\ Append(table, row)[Len(table) + 1] = row
  OBVIOUS
<1> QED
  BY <1>1 DEF Grows, SameColumns, Insert

LEMMA UserRecord ==
    ASSUME TypeInv, RecordInv, FollowTracked \/ DeleteTracked
    PROVE  RecordInv'
<1> USE DEF TypeInv
<1>1. UNCHANGED <<tape, shadow, antic, snap, pc, group, window, out>>
  BY DEF FollowTracked, DeleteTracked, market, locals
<1>2. /\ SnapShrinks /\ WindowsKept /\ DraftsOpen' /\ ShadowGradedByTape'
      /\ Grows(shadow, shadow') /\ Grows(antic, antic')
  BY <1>1 DEF Grows, SameColumns, SnapShrinks, WindowsKept, RecordInv, PassUsable,
              DraftsOpen, ShadowGradedByTape
<1>3. CASE FollowTracked
  <2>1. PICK k \in Key, levels \in FollowPlans, combo \in Combos :
            tracked' = Append(tracked, NewRow(k, levels, combo, "active", now))
    BY <1>3 DEF FollowTracked
  <2> DEFINE row == NewRow(k, levels, combo, "active", now)
  <2>2. levels \in ExitLevels(Int) /\ "active" \in TrackedStatus /\ now \in Nat
    BY DataAssumption DEF TypeOK, TrackedStatus
  <2>3. row \in TrackedRow
    BY <2>2, NewRowType DEF TrackedRow
  <2>4. TrackedOutcome(row, tape[row.key])
    BY DEF TrackedOutcome, NewRow, None
  <2> HIDE DEF row
  <2>5. /\ Grows(tracked, tracked')
        /\ \A i \in DOMAIN tracked' :
               \/ i \in DOMAIN tracked /\ tracked'[i] = tracked[i]
               \/ tracked'[i] = row
    BY <2>1, <2>3, AppendGrows DEF TypeOK, row
  <2>6. TrackedGradedByTape'
    BY <1>1, <2>4, <2>5 DEF RecordInv, TrackedGradedByTape
  <2> QED
    BY <1>2, <2>5, <2>6, TableStep DEF TablesGrow
<1>4. CASE DeleteTracked
  <2>1. PICK i \in DOMAIN tracked : tracked' = [tracked EXCEPT ![i].status = "deleted"]
    BY <1>4 DEF DeleteTracked
  <2>2. \A j \in DOMAIN tracked : tracked[j] \in TrackedRow
    BY DEF TypeOK
  <2>3. /\ DOMAIN tracked' = DOMAIN tracked
        /\ \A j \in DOMAIN tracked : j # i => tracked'[j] = tracked[j]
        /\ tracked'[i] = [tracked[i] EXCEPT !.status = "deleted"]
    BY <2>1 DEF TypeOK
  <2>4. Grows(tracked, tracked')
    BY <2>2, <2>3 DEF Grows, SameColumns, TrackedRow, Rows
  <2>5. ASSUME Covered(tracked'[i])
        PROVE  TrackedOutcome(tracked'[i], tape[tracked'[i].key])
    <3>1. /\ tracked'[i].key = tracked[i].key /\ tracked'[i].opened = tracked[i].opened
          /\ tracked'[i].levels = tracked[i].levels
          /\ tracked'[i].closedAt = tracked[i].closedAt
          /\ tracked'[i].fetchedAt = tracked[i].fetchedAt
          /\ tracked'[i].status = "deleted"
      BY <2>2, <2>3 DEF TrackedRow, Rows
    <3>2. TrackedOutcome(tracked[i], tape[tracked[i].key])
      BY <2>5, <3>1 DEF Covered, RecordInv, TrackedGradedByTape
    <3> QED
      BY <3>1, <3>2 DEF TrackedOutcome
  <2>6. TrackedGradedByTape'
    BY <1>1, <2>3, <2>5 DEF RecordInv, TrackedGradedByTape
  <2> QED
    BY <1>2, <2>4, <2>6, TableStep DEF TablesGrow
<1> QED
  BY <1>3, <1>4

-----------------------------------------------------------------------------
(* The eval passes.                                                        *)

\* Every shadow draft of an evaluation is open.
LEMMA DraftIsOpen ==
    ASSUME NEW scope, NEW fresh, NEW late, NEW combos,
           NEW d \in EvaluateSymbol(scope, fresh, late, combos).shadow
    PROVE  IsOpen(d)
<1>1. \E key, levels, combo : d = NewRow(key, levels, combo, "active", now)
  BY DEF EvaluateSymbol
<1> QED
  BY <1>1 DEF NewRow, IsOpen, OpenStatus

\* An abort or the turn to the next symbol narrows every worker's work.
LEMMA NextSymbolNarrows ==
    ASSUME TypeOK, NEW w \in Workers, NextSymbol(w), UNCHANGED <<snap, group, window>>
    PROVE  SnapShrinks /\ WindowsKept /\ DraftsShrink
<1>1. out' = [out EXCEPT ![w] = NoOutput] /\ snap' = snap
      /\ group' = group /\ window' = window
  BY DEF NextSymbol
<1>2. \E next \in {"assess", "stats", "list"} : pc' = [pc EXCEPT ![w] = next]
  BY DEF NextSymbol
<1> QED
  BY <1>1, <1>2 DEF SnapShrinks, WindowsKept, DraftsShrink, NoOutput, TypeOK

LEMMA AbortNarrows ==
    ASSUME TypeOK, NEW w \in Workers, NEW next \in {"failed", "idle"}, AbortTick(w, next)
    PROVE  SnapShrinks /\ WindowsKept /\ DraftsShrink
BY DEF AbortTick, SnapShrinks, WindowsKept, DraftsShrink, NoOutput, TypeOK

LEMMA EvalRecord ==
    ASSUME TypeInv, RecordInv, NEW w \in Workers, EvalStep(w)
    PROVE  RecordInv'
<1> USE DEF TypeInv
<1>1. CASE StartTick(w) \/ LoadComboStats(w) \/ UpsertHolds(w)
  <2>1. UNCHANGED <<tape, shadow, antic, tracked, snap, group, window, out>>
    BY <1>1 DEF StartTick, LoadComboStats, UpsertHolds, market, tables, locals
  <2>2. \E next \in {"stats", "assess", "open"} : pc' = [pc EXCEPT ![w] = next]
    BY <1>1 DEF StartTick, LoadComboStats, UpsertHolds
  <2>3. SnapShrinks /\ WindowsKept /\ DraftsShrink
    BY <2>1, <2>2 DEF SnapShrinks, WindowsKept, DraftsShrink, TypeOK
  <2> QED
    BY <2>1, <2>3, QuietStep
<1>2. CASE AssessSymbol(w)
  <2>1. UNCHANGED <<tape, shadow, antic, tracked, snap, group, window>>
    BY <1>2 DEF AssessSymbol, market, tables
  <2>2. PICK fresh \in [Intents -> Assessments], late \in [Intents -> BOOLEAN] :
            out' = [out EXCEPT ![w] = EvaluateSymbol(at[w], fresh, late, demoted[w])]
    BY <1>2 DEF AssessSymbol
  <2>3. pc' = [pc EXCEPT ![w] = "holds"]
    BY <1>2 DEF AssessSymbol
  <2>4. SnapShrinks /\ WindowsKept
    BY <2>1, <2>3 DEF SnapShrinks, WindowsKept, TypeOK
  <2>5. DraftsOpen'
    <3>1. \A d \in out'[w].shadow : IsOpen(d)
      BY <2>2, DraftIsOpen DEF TypeOK
    <3> QED
      BY <2>2, <3>1 DEF RecordInv, PassUsable, DraftsOpen, TypeOK
  <2>6. TablesGrow /\ ShadowGradedByTape' /\ TrackedGradedByTape'
    BY <2>1 DEF TablesGrow, Grows, SameColumns, RecordInv, ShadowGradedByTape,
                TrackedGradedByTape
  <2> QED
    BY <2>4, <2>5, <2>6, TableStep
<1>3. CASE SkipSymbol(w) \/ EndSymbol(w)
  <2>1. /\ NextSymbol(w)
        /\ UNCHANGED <<tape, shadow, antic, tracked>> /\ UNCHANGED <<snap, group, window>>
    BY <1>3 DEF SkipSymbol, EndSymbol, market, tables
  <2> QED
    BY <2>1, NextSymbolNarrows, QuietStep
<1>4. CASE OpenShadow(w)
  <2>1. UNCHANGED <<tape, antic, tracked, snap, pc, group, window>>
    BY <1>4 DEF OpenShadow, market
  <2>2. PICK d \in out[w].shadow : /\ shadow' = Insert(shadow, d)
                                   /\ out' = [out EXCEPT ![w].shadow = @ \ {d}]
    BY <1>4 DEF OpenShadow
  <2>3. out[w] \in Output /\ d \in ShadowRow /\ IsOpen(d)
    BY <2>2 DEF TypeOK, Output, RecordInv, PassUsable, DraftsOpen
  <2>4. SnapShrinks /\ WindowsKept /\ DraftsShrink
    BY <2>1, <2>2, <2>3 DEF SnapShrinks, WindowsKept, DraftsShrink, TypeOK, Output
  <2>5. DraftsOpen'
    BY <2>4 DEF DraftsShrink, DraftsOpen, RecordInv, PassUsable
  <2>6. /\ Grows(shadow, shadow')
        /\ \A i \in DOMAIN shadow' :
               \/ i \in DOMAIN shadow /\ shadow'[i] = shadow[i]
               \/ shadow'[i] = d
    BY <2>2, <2>3, AppendGrows DEF TypeOK
  <2>7. ShadowGradedByTape'
    BY <2>1, <2>3, <2>6 DEF RecordInv, ShadowGradedByTape
  <2>8. TablesGrow /\ TrackedGradedByTape'
    BY <2>1, <2>6 DEF TablesGrow, Grows, SameColumns, RecordInv, TrackedGradedByTape
  <2> QED
    BY <2>4, <2>5, <2>7, <2>8, TableStep
<1>5. CASE OpenAnticipatory(w)
  <2>1. UNCHANGED <<tape, shadow, tracked, snap, pc, group, window>>
    BY <1>5 DEF OpenAnticipatory, market
  <2>2. PICK d \in out[w].antic : /\ antic' = Insert(antic, d)
                                  /\ out' = [out EXCEPT ![w].antic = @ \ {d}]
    BY <1>5 DEF OpenAnticipatory
  <2>3. out[w] \in Output /\ d \in AnticRow
    BY <2>2 DEF TypeOK, Output
  <2>4. SnapShrinks /\ WindowsKept /\ DraftsShrink
    BY <2>1, <2>2, <2>3 DEF SnapShrinks, WindowsKept, DraftsShrink, TypeOK, Output
  <2>5. DraftsOpen'
    BY <2>4 DEF DraftsShrink, DraftsOpen, RecordInv, PassUsable
  <2>6. Grows(antic, antic')
    BY <2>2, <2>3, AppendGrows DEF TypeOK
  <2>7. TablesGrow /\ ShadowGradedByTape' /\ TrackedGradedByTape'
    BY <2>1, <2>6 DEF TablesGrow, Grows, SameColumns, RecordInv, ShadowGradedByTape,
                      TrackedGradedByTape
  <2> QED
    BY <2>4, <2>5, <2>7, TableStep
<1> QED
  BY <1>1, <1>2, <1>3, <1>4, <1>5 DEF EvalStep

-----------------------------------------------------------------------------
(* Faults.                                                                 *)

LEMMA FaultRecord ==
    ASSUME TypeInv, RecordInv, NEW w \in Workers, FaultStep(w)
    PROVE  RecordInv'
<1> USE DEF TypeInv
<1>1. CASE EvalFails(w)
  <2>1. /\ NextSymbol(w)
        /\ UNCHANGED <<tape, shadow, antic, tracked>> /\ UNCHANGED <<snap, group, window>>
    BY <1>1 DEF EvalFails, market, tables
  <2> QED
    BY <2>1, NextSymbolNarrows, QuietStep
<1>2. CASE FeedDown(w)
  <2>1. UNCHANGED <<tape, shadow, antic, tracked, pc, group, window, out>>
    BY <1>2 DEF FeedDown, market, tables
  <2>2. SnapShrinks
    BY <1>2 DEF FeedDown, SnapShrinks, TypeOK
  <2>3. WindowsKept /\ DraftsShrink
    BY <2>1 DEF WindowsKept, DraftsShrink
  <2> QED
    BY <2>1, <2>2, <2>3, QuietStep
<1>3. CASE TickFails(w) \/ KlinesUnparsable(w) \/ Crash(w)
  <2>1. /\ AbortTick(w, "failed") \/ AbortTick(w, "idle")
        /\ UNCHANGED <<tape, shadow, antic, tracked>>
    BY <1>3 DEF TickFails, KlinesUnparsable, Crash, market, tables
  <2> QED
    BY <2>1, AbortNarrows, QuietStep
<1> QED
  BY <1>1, <1>2, <1>3 DEF FaultStep

-----------------------------------------------------------------------------
(* The settle pass.                                                        *)

\* A patch keeps the columns that identify a row.
LEMMA PatchKeepsColumns ==
    ASSUME NEW Levels, NEW Statuses, NEW row \in Rows(Levels, Statuses),
           NEW p \in RowPatch(Statuses), NEW t \in Nat
    PROVE  /\ SameColumns(row, PatchRow(row, p, t))
           /\ PatchRow(row, p, t).status = p.status
           /\ PatchRow(row, p, t).fetchedAt = t
BY DEF SameColumns, PatchRow, Coalesce, None, Rows, RowPatch

\* A patched table grows, and only the patched row differs.
LEMMA PatchedGrows ==
    ASSUME NEW Levels, NEW Statuses, NEW table \in Seq(Rows(Levels, Statuses)),
           NEW r, r.id \in DOMAIN table, NEW p \in RowPatch(Statuses),
           NEW candles \in Candles
    PROVE  Grows(table, Patched(table, r, p, candles))
<1>1. /\ table[r.id] \in Rows(Levels, Statuses) /\ candles.last + 1 \in Nat
      /\ \A j \in DOMAIN table : SameColumns(table[j], table[j])
  BY DEF Candles, SameColumns
<1>2. SameColumns(table[r.id], PatchRow(table[r.id], p, candles.last + 1))
  BY <1>1, PatchKeepsColumns
<1>3. /\ DOMAIN Patched(table, r, p, candles) = DOMAIN table
      /\ \A j \in DOMAIN table :
            j # r.id => Patched(table, r, p, candles)[j] = table[j]
      /\ Patched(table, r, p, candles)[r.id] \in
            {table[r.id], PatchRow(table[r.id], p, candles.last + 1)}
  BY PatchedType
<1> QED
  BY <1>1, <1>2, <1>3 DEF Grows

\* What a record of the group that is being settled gives its settlement.
LEMMA RecordReady ==
    ASSUME TypeInv, RecordInv, NEW w \in Workers, pc[w] = "patch",
           NEW k \in group[w], NEW r \in InGroup(k, snap[w])
    PROVE  /\ window[w] \in Candles /\ window[w].last + 1 \in Nat
           /\ r.row.key \in Key /\ tape[r.row.key] \in Seq(Bars)
           /\ window[w].last <= Len(tape[r.row.key])
           /\ MaxBars[r.row.key[3]] \in Nat \ {0}
           /\ SameColumns(r.row, TableOf(r.kind)[r.id])
           /\ window[w].last + 1 - r.row.opened <= FetchLimit
                 => window[w].first <= r.row.opened + 1
<1> USE DEF TypeInv
<1>1. r \in snap[w] /\ r.row.key = k
  BY DEF InGroup
<1>2. r.row.key \in Key /\ r.row.opened \in Nat
  BY <1>1, ItemTable
<1>3. window[w] \in Candles /\ window[w].last + 1 \in Nat
  BY DEF TypeOK, Candles
<1>4. tape[r.row.key] \in Seq(Bars) /\ window[w].last <= Len(tape[r.row.key])
  <2>1. window[w].last \in Nat /\ window[w].last < now /\ now \in Nat
        /\ Len(tape[r.row.key]) = now - 1
    BY <1>2 DEF TypeOK, WindowsClosed
  <2> QED
    BY <1>2, <2>1 DEF TypeOK
<1>5. MaxBars[r.row.key[3]] \in Nat \ {0}
  BY <1>2, BoundAssumption DEF Key
<1>6. SameColumns(r.row, TableOf(r.kind)[r.id])
  BY <1>1 DEF RecordInv, PassUsable, SnapshotsAgree, SameColumns
<1>7. window[w].last + 1 - r.row.opened <= FetchLimit
         => window[w].first <= r.row.opened + 1
  BY DEF RecordInv, PassUsable, WindowsReach
<1> QED
  BY <1>2, <1>3, <1>4, <1>5, <1>6, <1>7

\* A shadow patch leaves every row of the record graded.
LEMMA PatchShadowRecord ==
    ASSUME TypeInv, RecordInv, NEW w \in Workers, pc[w] = "patch",
           NEW k \in group[w], NEW r \in InGroup(k, snap[w]), r.kind = "shadow",
           NEW p \in SettlePatch(r, window[w]), PatchRecord(r, p, window[w]),
           tape' = tape
    PROVE  TablesGrow /\ ShadowGradedByTape' /\ TrackedGradedByTape'
<1> USE DEF TypeInv
<1> DEFINE key == r.row.key
           new == PatchRow(shadow[r.id], p, window[w].last + 1)
<1>1. r \in snap[w]
  BY DEF InGroup
<1>2. r.id \in DOMAIN shadow /\ r.row \in ShadowRow /\ p \in RowPatch(ShadowStatus)
  BY <1>1, SettlePatchType
<1>3. /\ window[w] \in Candles /\ window[w].last + 1 \in Nat
      /\ key \in Key /\ tape[key] \in Seq(Bars)
      /\ window[w].last <= Len(tape[key]) /\ MaxBars[key[3]] \in Nat \ {0}
      /\ SameColumns(r.row, TableOf(r.kind)[r.id])
      /\ window[w].last + 1 - r.row.opened <= FetchLimit
            => window[w].first <= r.row.opened + 1
  BY RecordReady
<1>4. shadow[r.id] \in ShadowRow /\ TableOf(r.kind) = shadow
  BY <1>2 DEF TypeOK, TableOf
<1>5. /\ shadow[r.id].key = key /\ shadow[r.id].levels = r.row.levels
      /\ shadow[r.id].opened = r.row.opened
  BY <1>3, <1>4 DEF SameColumns
<1>6. p \in SettleShadow(r.row, MaxBars[key[3]], tape[key], window[w])
  BY DEF SettlePatch
<1>7. shadow' = Patched(shadow, r, p, window[w]) /\ UNCHANGED <<antic, tracked>>
  BY DEF PatchRecord
<1>8. /\ SameColumns(shadow[r.id], new) /\ new.fetchedAt = window[w].last + 1
  BY <1>2, <1>3, <1>4, PatchKeepsColumns DEF ShadowRow
<1>9. Covered(new) => ShadowOutcome(new, MaxBars[key[3]], tape[key])
  <2> SUFFICES ASSUME Covered(new)
               PROVE  ShadowOutcome(new, MaxBars[key[3]], tape[key])
    OBVIOUS
  <2> HIDE DEF new
  <2>1. new.opened = r.row.opened /\ r.row.opened \in Nat
    BY <1>2, <1>5, <1>8 DEF SameColumns, ShadowRow, Rows
  <2>2. window[w].last + 1 - r.row.opened <= FetchLimit
    BY <1>3, <1>8, <2>1, BoundAssumption DEF Covered, Candles
  <2>3. window[w].first <= shadow[r.id].opened + 1
    BY <1>3, <1>5, <2>2
  <2> HIDE DEF key
  <2> USE DEF new
  <2> QED
    BY <1>2, <1>3, <1>4, <1>5, <1>6, <2>3, ShadowPatchGrades
<1> HIDE DEF new
<1>10. /\ Grows(shadow, shadow') /\ DOMAIN shadow' = DOMAIN shadow
       /\ \A j \in DOMAIN shadow : j # r.id => shadow'[j] = shadow[j]
       /\ shadow'[r.id] \in {shadow[r.id], new}
  <2>1. shadow \in Seq(Rows(ExitLevels(Int), ShadowStatus))
    BY DEF TypeOK, ShadowRow
  <2> HIDE DEF TypeInv
  <2>2. Grows(shadow, Patched(shadow, r, p, window[w]))
    BY <1>2, <1>3, <2>1, PatchedGrows
  <2>3. /\ DOMAIN Patched(shadow, r, p, window[w]) = DOMAIN shadow
        /\ \A j \in DOMAIN shadow :
               j # r.id => Patched(shadow, r, p, window[w])[j] = shadow[j]
        /\ Patched(shadow, r, p, window[w])[r.id] \in
              {shadow[r.id], PatchRow(shadow[r.id], p, window[w].last + 1)}
    BY <1>2, <1>3, <2>1, PatchedType
  <2> QED
    BY <1>7, <2>2, <2>3 DEF new
<1>11. ShadowGradedByTape'
  <2> SUFFICES ASSUME NEW i \in DOMAIN shadow, ~ IsOpen(shadow'[i]), Covered(shadow'[i])
               PROVE  ShadowOutcome(shadow'[i], MaxBars[shadow'[i].key[3]],
                                    tape[shadow'[i].key])
    BY <1>10 DEF ShadowGradedByTape
  <2>1. CASE shadow'[i] = shadow[i]
    BY <2>1 DEF RecordInv, ShadowGradedByTape
  <2>2. CASE i = r.id /\ shadow'[i] = new
    BY <2>2, <1>5, <1>8, <1>9 DEF SameColumns
  <2> QED
    BY <1>10, <2>1, <2>2
<1> QED
  BY <1>7, <1>10, <1>11 DEF TablesGrow, Grows, SameColumns, RecordInv, TrackedGradedByTape

\* The same for followed signals.
LEMMA PatchTrackedRecord ==
    ASSUME TypeInv, RecordInv, NEW w \in Workers, pc[w] = "patch",
           NEW k \in group[w], NEW r \in InGroup(k, snap[w]),
           r.kind \notin {"shadow", "antic"},
           NEW p \in SettlePatch(r, window[w]), PatchRecord(r, p, window[w]),
           tape' = tape
    PROVE  TablesGrow /\ ShadowGradedByTape' /\ TrackedGradedByTape'
<1> USE DEF TypeInv
<1> DEFINE key == r.row.key
           new == PatchRow(tracked[r.id], p, window[w].last + 1)
<1>1. r \in snap[w]
  BY DEF InGroup
<1>2. r.id \in DOMAIN tracked /\ r.row \in TrackedRow /\ p \in RowPatch(TrackedStatus)
  BY <1>1, SettlePatchType
<1>3. /\ window[w] \in Candles /\ window[w].last + 1 \in Nat
      /\ key \in Key /\ tape[key] \in Seq(Bars)
      /\ window[w].last <= Len(tape[key])
      /\ SameColumns(r.row, TableOf(r.kind)[r.id])
      /\ window[w].last + 1 - r.row.opened <= FetchLimit
            => window[w].first <= r.row.opened + 1
  BY RecordReady
<1>4. tracked[r.id] \in TrackedRow /\ TableOf(r.kind) = tracked
  BY <1>2 DEF TypeOK, TableOf
<1>5. /\ tracked[r.id].key = key /\ tracked[r.id].levels = r.row.levels
      /\ tracked[r.id].opened = r.row.opened
  BY <1>3, <1>4 DEF SameColumns
<1>6. p \in SettleTracked(r.row, tape[key], window[w])
  BY DEF SettlePatch
<1>7. tracked' = Patched(tracked, r, p, window[w]) /\ UNCHANGED <<shadow, antic>>
  BY DEF PatchRecord
<1>8. /\ SameColumns(tracked[r.id], new) /\ new.fetchedAt = window[w].last + 1
  BY <1>2, <1>3, <1>4, PatchKeepsColumns DEF TrackedRow
<1>9. Covered(new) => TrackedOutcome(new, tape[key])
  <2> SUFFICES ASSUME Covered(new) PROVE TrackedOutcome(new, tape[key])
    OBVIOUS
  <2> HIDE DEF new
  <2>1. new.opened = r.row.opened /\ r.row.opened \in Nat
    BY <1>2, <1>5, <1>8 DEF SameColumns, TrackedRow, Rows
  <2>2. window[w].last + 1 - r.row.opened <= FetchLimit
    BY <1>3, <1>8, <2>1, BoundAssumption DEF Covered, Candles
  <2>3. window[w].first <= tracked[r.id].opened + 1
    BY <1>3, <1>5, <2>2
  <2> HIDE DEF key
  <2> USE DEF new
  <2> QED
    BY <1>2, <1>3, <1>4, <1>5, <1>6, <2>3, TrackedPatchGrades
<1> HIDE DEF new
<1>10. /\ Grows(tracked, tracked') /\ DOMAIN tracked' = DOMAIN tracked
       /\ \A j \in DOMAIN tracked : j # r.id => tracked'[j] = tracked[j]
       /\ tracked'[r.id] \in {tracked[r.id], new}
  <2>1. tracked \in Seq(Rows(ExitLevels(Int), TrackedStatus))
    BY DEF TypeOK, TrackedRow
  <2> HIDE DEF TypeInv
  <2>2. Grows(tracked, Patched(tracked, r, p, window[w]))
    BY <1>2, <1>3, <2>1, PatchedGrows
  <2>3. /\ DOMAIN Patched(tracked, r, p, window[w]) = DOMAIN tracked
        /\ \A j \in DOMAIN tracked :
               j # r.id => Patched(tracked, r, p, window[w])[j] = tracked[j]
        /\ Patched(tracked, r, p, window[w])[r.id] \in
              {tracked[r.id], PatchRow(tracked[r.id], p, window[w].last + 1)}
    BY <1>2, <1>3, <2>1, PatchedType
  <2> QED
    BY <1>7, <2>2, <2>3 DEF new
<1>11. TrackedGradedByTape'
  <2> SUFFICES ASSUME NEW i \in DOMAIN tracked, Covered(tracked'[i])
               PROVE  TrackedOutcome(tracked'[i], tape[tracked'[i].key])
    BY <1>10 DEF TrackedGradedByTape
  <2>1. CASE tracked'[i] = tracked[i]
    BY <2>1 DEF RecordInv, TrackedGradedByTape
  <2>2. CASE i = r.id /\ tracked'[i] = new
    BY <2>2, <1>5, <1>8, <1>9 DEF SameColumns
  <2> QED
    BY <1>10, <2>1, <2>2
<1> QED
  BY <1>7, <1>10, <1>11 DEF TablesGrow, Grows, SameColumns, RecordInv, ShadowGradedByTape

\* An anticipatory patch touches neither table.
LEMMA PatchAnticRecord ==
    ASSUME TypeInv, RecordInv, NEW w \in Workers, NEW r \in snap[w], r.kind = "antic",
           NEW p \in SettlePatch(r, window[w]), PatchRecord(r, p, window[w]),
           tape' = tape
    PROVE  TablesGrow /\ ShadowGradedByTape' /\ TrackedGradedByTape'
<1> USE DEF TypeInv
<1>1. r.id \in DOMAIN antic /\ p \in RowPatch(AnticStatus) /\ window[w] \in Candles
  BY SettlePatchType DEF TypeOK, Candles
<1>2. antic' = Patched(antic, r, p, window[w]) /\ UNCHANGED <<shadow, tracked>>
  BY DEF PatchRecord
<1>3. Grows(antic, antic')
  BY <1>1, <1>2, PatchedGrows DEF TypeOK, AnticRow
<1> QED
  BY <1>2, <1>3 DEF TablesGrow, Grows, SameColumns, RecordInv, ShadowGradedByTape,
                    TrackedGradedByTape

LEMMA SettleRecordRecord ==
    ASSUME TypeInv, RecordInv, NEW w \in Workers, SettleRecord(w)
    PROVE  RecordInv'
<1>1. PICK k \in group[w], r \in snap[w] :
          /\ NextRecord(r, InGroup(k, snap[w]))
          /\ \/ \E p \in SettlePatch(r, window[w]) : PatchRecord(r, p, window[w])
             \/ UNCHANGED <<shadow, antic, tracked>>
          /\ snap' = [snap EXCEPT ![w] = @ \ {r}]
  BY DEF SettleRecord
<1>2. UNCHANGED <<tape, pc, group, window, out>> /\ pc[w] = "patch"
  BY DEF SettleRecord, market
<1>3. r \in InGroup(k, snap[w])
  BY <1>1 DEF NextRecord
<1>4. TablesGrow /\ ShadowGradedByTape' /\ TrackedGradedByTape'
  <2>1. CASE \E p \in SettlePatch(r, window[w]) : PatchRecord(r, p, window[w])
    BY <2>1, <1>2, <1>3, PatchShadowRecord, PatchTrackedRecord, PatchAnticRecord
  <2>2. CASE UNCHANGED <<shadow, antic, tracked>>
    BY <2>2, <1>2 DEF TablesGrow, Grows, SameColumns, RecordInv, ShadowGradedByTape,
                      TrackedGradedByTape
  <2> QED
    BY <1>1, <2>1, <2>2
<1>5. SnapShrinks /\ WindowsKept /\ DraftsOpen'
  BY <1>1, <1>2 DEF SnapShrinks, WindowsKept, RecordInv, PassUsable, DraftsOpen,
                    TypeInv, TypeOK
<1> QED
  BY <1>4, <1>5, TableStep DEF TypeInv

\* Listing takes the rows as they are.
LEMMA ListOpenRecord ==
    ASSUME TypeInv, RecordInv, NEW w \in Workers, ListOpen(w)
    PROVE  RecordInv'
<1> USE DEF TypeInv
<1>1. UNCHANGED <<tape, shadow, antic, tracked, group, window, out>>
  BY DEF ListOpen, market, tables
<1>2. /\ pc' = [pc EXCEPT ![w] = "group"]
      /\ snap' = [snap EXCEPT ![w] = OpenRecords("shadow", shadow)
                                     \cup OpenRecords("antic", antic)
                                     \cup OpenRecords("tracked", tracked)]
  BY DEF ListOpen
<1>3. SnapshotsAgree'
  <2> SUFFICES ASSUME NEW v \in Workers, NEW r \in snap'[v]
               PROVE  SameColumns(r.row, TableOf(r.kind)[r.id])
    BY <1>1 DEF SnapshotsAgree, SameColumns, TableOf
  <2>1. CASE v # w
    <3>1. r \in snap[v]
      BY <1>2, <2>1 DEF TypeOK
    <3> QED
      BY <3>1 DEF RecordInv, PassUsable, SnapshotsAgree, SameColumns
  <2>2. CASE v = w
    BY <1>2, <2>2 DEF OpenRecords, SameColumns, TableOf, TypeOK
  <2> QED
    BY <2>1, <2>2
<1>4. WindowsReach'
  BY <1>1, <1>2 DEF RecordInv, PassUsable, WindowsReach, TypeOK, InGroup
<1> QED
  BY <1>1, <1>3, <1>4 DEF RecordInv, PassUsable, DraftsOpen, ShadowGradedByTape,
                          TrackedGradedByTape

\* A fetched window reaches back to every record of its group.
LEMMA FetchGroupRecord ==
    ASSUME TypeInv, RecordInv, NEW w \in Workers, FetchGroup(w)
    PROVE  RecordInv'
<1> USE DEF TypeInv
<1>1. UNCHANGED <<tape, shadow, antic, tracked, out, snap>> /\ now \in Nat \ {0}
  BY DEF FetchGroup, market, tables, TypeOK
<1>2. PICK k \in Key : \E earliest \in First({r.row.opened : r \in InGroup(k, snap[w])}) :
          /\ window' = [window EXCEPT ![w] =
                           FetchWindow(earliest, now, MinLimit, FetchLimit)]
          /\ group' = [group EXCEPT ![w] = Some(k)]
  BY DEF FetchGroup
<1>3. PICK earliest \in First({r.row.opened : r \in InGroup(k, snap[w])}) :
          /\ window' = [window EXCEPT ![w] =
                           FetchWindow(earliest, now, MinLimit, FetchLimit)]
          /\ group' = [group EXCEPT ![w] = Some(k)]
  BY <1>2
<1>4. pc' = [pc EXCEPT ![w] = "patch"]
  BY DEF FetchGroup
<1>5. \A r \in InGroup(k, snap[w]) : r.row.opened \in Nat /\ earliest <= r.row.opened
  <2> SUFFICES ASSUME NEW r \in InGroup(k, snap[w])
               PROVE  r.row.opened \in Nat /\ earliest <= r.row.opened
    OBVIOUS
  <2>1. r.row.opened \in Nat
    BY ItemTable DEF InGroup
  <2> QED
    BY <1>3, <2>1 DEF First
<1>6. earliest \in Nat
  BY <1>3, <1>5 DEF First
<1>7. WindowsReach'
  <2> SUFFICES ASSUME NEW v \in Workers, NEW g \in group'[v], pc'[v] = "patch",
                      NEW r \in InGroup(g, snap[v]),
                      window'[v].last + 1 - r.row.opened <= FetchLimit
               PROVE  window'[v].first <= r.row.opened + 1
    BY <1>1 DEF WindowsReach, InGroup
  <2>1. CASE v = w
    <3>1. g = k /\ window'[v] = FetchWindow(earliest, now, MinLimit, FetchLimit)
      BY <1>3, <2>1 DEF Some, TypeOK
    <3> QED
      BY <1>1, <1>5, <1>6, <2>1, <3>1, FetchReaches
  <2>2. CASE v # w
    BY <1>3, <1>4, <2>2 DEF RecordInv, PassUsable, WindowsReach, TypeOK
  <2> QED
    BY <2>1, <2>2
<1>8. TablesGrow /\ SnapShrinks
  BY <1>1 DEF TablesGrow, Grows, SameColumns, SnapShrinks
<1>9. SnapshotsAgree'
  BY <1>8, AgreeStep DEF RecordInv, PassUsable
<1> QED
  BY <1>1, <1>7, <1>9 DEF RecordInv, PassUsable, DraftsOpen, ShadowGradedByTape,
                          TrackedGradedByTape

LEMMA SettleRecordInv ==
    ASSUME TypeInv, RecordInv, NEW w \in Workers, SettleStep(w)
    PROVE  RecordInv'
<1> USE DEF TypeInv
<1>1. CASE PatchConflicts(w)
  <2>1. AbortTick(w, "failed") /\ UNCHANGED <<tape, shadow, antic, tracked>>
    BY <1>1 DEF PatchConflicts, market, tables
  <2> QED
    BY <2>1, AbortNarrows, QuietStep
<1>2. CASE EndGroup(w) \/ FinishRun(w) \/ FinishError(w)
  <2>1. UNCHANGED <<tape, shadow, antic, tracked, snap, out>>
    BY <1>2 DEF EndGroup, FinishRun, FinishError, market, tables, locals
  <2>2. \E next \in {"group", "idle"} : pc' = [pc EXCEPT ![w] = next]
    BY <1>2 DEF EndGroup, FinishRun, FinishError
  <2>3. \A v \in Workers : v # w => group'[v] = group[v] /\ window'[v] = window[v]
    BY <1>2 DEF EndGroup, FinishRun, FinishError, locals, TypeOK
  <2>4. SnapShrinks /\ WindowsKept /\ DraftsShrink
    BY <2>1, <2>2, <2>3 DEF SnapShrinks, WindowsKept, DraftsShrink, TypeOK
  <2> QED
    BY <2>1, <2>4, QuietStep
<1> QED
  BY <1>1, <1>2, ListOpenRecord, FetchGroupRecord, SettleRecordRecord DEF SettleStep

-----------------------------------------------------------------------------
LEMMA RecordInit == Init => RecordInv
BY DEF Init, RecordInv, PassUsable, SnapshotsAgree, WindowsReach, DraftsOpen, NoOutput,
       ShadowGradedByTape, TrackedGradedByTape, None

LEMMA RecordStep == TypeInv /\ RecordInv /\ [Next]_vars => RecordInv'
<1> SUFFICES ASSUME TypeInv, RecordInv, [Next]_vars PROVE RecordInv'
  OBVIOUS
<1>1. CASE UNCHANGED vars
  <2>1. UNCHANGED <<tape, shadow, antic, tracked, snap, pc, group, window, out>>
    BY <1>1 DEF vars
  <2> QED
    BY <2>1, QuietStep DEF TypeInv, SnapShrinks, WindowsKept, DraftsShrink
<1> QED
  BY <1>1, CloseBarRecord, UserRecord, EvalRecord, SettleRecordInv, FaultRecord DEF Next

\* The record is catch-up safe for every number of workers and faults: whatever
\* ticks overlap, crash or fail, a settled shadow row whose klines reached back
\* to its opening carries the outcome of the whole tape
\* (settle_shadow_signal, run_settle_pass, patch_shadow).
THEOREM ShadowGraded == Spec => []ShadowGradedByTape
<1>1. Init => TypeInv /\ RecordInv
  BY TypeInit, RecordInit
<1>2. TypeInv /\ RecordInv /\ [Next]_vars => (TypeInv /\ RecordInv)'
  BY TypeStep, RecordStep
<1>3. RecordInv => ShadowGradedByTape
  BY DEF RecordInv
<1> QED
  BY <1>1, <1>2, <1>3, PTL DEF Spec

\* The same for the signals users follow (settle_tracked_signal_with_candles,
\* patch_tracked).
THEOREM TrackedGraded == Spec => []TrackedGradedByTape
<1>1. Init => TypeInv /\ RecordInv
  BY TypeInit, RecordInit
<1>2. TypeInv /\ RecordInv /\ [Next]_vars => (TypeInv /\ RecordInv)'
  BY TypeStep, RecordStep
<1>3. RecordInv => TrackedGradedByTape
  BY DEF RecordInv
<1> QED
  BY <1>1, <1>2, <1>3, PTL DEF Spec

\* What a settle pass works with stays usable whatever other ticks write
\* (list_open_*, the kline limit of run_settle_pass).
THEOREM PassStaysUsable == Spec => []PassUsable
<1>1. Init => TypeInv /\ RecordInv
  BY TypeInit, RecordInit
<1>2. TypeInv /\ RecordInv /\ [Next]_vars => (TypeInv /\ RecordInv)'
  BY TypeStep, RecordStep
<1>3. RecordInv => PassUsable
  BY DEF RecordInv
<1> QED
  BY <1>1, <1>2, <1>3, PTL DEF Spec

-----------------------------------------------------------------------------
(* Settled shadow rows stand.                                              *)

\* A tape grades a shadow row in one way.
LEMMA OutcomeUnique ==
    ASSUME NEW a \in ShadowRow, NEW b \in ShadowRow,
           a.levels = b.levels, a.opened = b.opened,
           NEW maxBars \in Nat \ {0}, NEW bars \in Seq(Bars),
           ShadowOutcome(a, maxBars, bars), ShadowOutcome(b, maxBars, bars)
    PROVE  <<a.status, a.closedAt, a.closePrice, a.resultR>>
              = <<b.status, b.closedAt, b.closePrice, b.resultR>>
<1> DEFINE Closes(row, e) ==
              /\ e \in row.opened + 1 .. row.opened + maxBars
              /\ row.closedAt = Some(e + 1)
              /\ \A i \in row.opened + 1 .. e - 1 : ExitStatus(row.levels, bars[i]) = "open"
              /\ \/ /\ ExitStatus(row.levels, bars[e]) # "open"
                    /\ row.status = ExitStatus(row.levels, bars[e])
                    /\ row.closePrice = Some(ExitLevel(row.levels, row.status))
                 \/ /\ ExitStatus(row.levels, bars[e]) = "open"
                    /\ e = row.opened + maxBars
                    /\ row.status = "expired"
                    /\ row.closePrice = Some(bars[e].close)
<1>1. /\ \E e \in Int : Closes(a, e)
      /\ \A price \in a.closePrice : a.resultR = Some(ResultR(a.levels, price))
  <2>1. a.opened \in Nat
    BY DEF ShadowRow, Rows
  <2>2. PICK e \in a.opened + 1 .. a.opened + maxBars :
          /\ Closes(a, e)
          /\ \A price \in a.closePrice : a.resultR = Some(ResultR(a.levels, price))
    BY Zenon DEF ShadowOutcome
  <2>3. e \in Int
    BY <2>1
  <2> HIDE DEF Closes
  <2> QED
    BY <2>2, <2>3
<1>2. /\ \E e \in Int : Closes(b, e)
      /\ \A price \in b.closePrice : b.resultR = Some(ResultR(b.levels, price))
  <2>1. b.opened \in Nat
    BY DEF ShadowRow, Rows
  <2>2. PICK e \in b.opened + 1 .. b.opened + maxBars :
          /\ Closes(b, e)
          /\ \A price \in b.closePrice : b.resultR = Some(ResultR(b.levels, price))
    BY Zenon DEF ShadowOutcome
  <2>3. e \in Int
    BY <2>1
  <2> HIDE DEF Closes
  <2> QED
    BY <2>2, <2>3
<1>3. PICK e \in Int : Closes(a, e)
  BY <1>1
<1>4. PICK d \in Int : Closes(b, d)
  BY <1>2
<1>5. a.opened \in Nat
  BY DEF ShadowRow, Rows
<1>6. ~ (e < d) /\ ~ (d < e)
  BY <1>3, <1>4, <1>5
<1>7. e = d
  BY <1>6
<1>8. a.status = b.status /\ a.closedAt = b.closedAt /\ a.closePrice = b.closePrice
  BY <1>3, <1>4, <1>7
<1>9. a.closePrice # {}
  BY <1>3 DEF Some
<1> HIDE DEF Closes
<1>10. a.resultR = b.resultR
  BY <1>1, <1>2, <1>8, <1>9
<1> QED
  BY <1>8, <1>10

\* What a step may do to a row of the shadow table.
LEMMA ShadowChange ==
    ASSUME TypeInv, [Next]_vars, NEW i \in DOMAIN shadow, shadow'[i] # shadow[i]
    PROVE  \E w \in Workers : \E r \in snap[w] : \E p \in SettlePatch(r, window[w]) :
              /\ r.kind = "shadow" /\ r.id = i
              /\ shadow'[i] = PatchRow(shadow[i], p, window[w].last + 1)
              /\ tape' = tape /\ i \in DOMAIN shadow'
<1> USE DEF TypeInv
<1>1. \E w \in Workers : SettleRecord(w) \/ OpenShadow(w)
  <2>1. ~ UNCHANGED shadow
    OBVIOUS
  <2> QED
    BY <2>1 DEF Next, EvalStep, SettleStep, FaultStep, CloseBar, FollowTracked,
        DeleteTracked, StartTick, LoadComboStats, AssessSymbol, SkipSymbol, UpsertHolds,
        OpenAnticipatory, EndSymbol, ListOpen, FetchGroup, PatchConflicts, EndGroup,
        FinishRun, FinishError, EvalFails, FeedDown, TickFails, KlinesUnparsable, Crash,
        tables, vars
<1>2. ASSUME NEW w \in Workers, OpenShadow(w) PROVE FALSE
  <2>1. PICK d \in out[w].shadow : shadow' = Insert(shadow, d)
    BY <1>2 DEF OpenShadow
  <2>2. d \in ShadowRow /\ shadow \in Seq(ShadowRow)
    BY <2>1 DEF TypeOK, Output
  <2> QED
    BY <2>1, <2>2 DEF Insert
<1>3. PICK w \in Workers : SettleRecord(w)
  BY <1>1, <1>2
<1>4. PICK r \in snap[w] :
          \/ \E p \in SettlePatch(r, window[w]) : PatchRecord(r, p, window[w])
          \/ UNCHANGED <<shadow, antic, tracked>>
  BY <1>3 DEF SettleRecord
<1>5. PICK p \in SettlePatch(r, window[w]) : PatchRecord(r, p, window[w])
  BY <1>4
<1>6. r.kind = "shadow" /\ shadow' = Patched(shadow, r, p, window[w])
  BY <1>5 DEF PatchRecord
<1>7. r.id \in DOMAIN shadow /\ p \in RowPatch(ShadowStatus) /\ window[w] \in Candles
  BY <1>6, SettlePatchType DEF TypeOK, Candles
<1>8. /\ DOMAIN shadow' = DOMAIN shadow
      /\ \A j \in DOMAIN shadow : j # r.id => shadow'[j] = shadow[j]
      /\ shadow'[r.id] \in {shadow[r.id], PatchRow(shadow[r.id], p, window[w].last + 1)}
  BY <1>6, <1>7, PatchedType DEF TypeOK, ShadowRow
<1>9. tape' = tape
  BY <1>3 DEF SettleRecord, market
<1> QED
  BY <1>6, <1>8, <1>9

LEMMA ShadowStands ==
    ASSUME TypeInv, TypeInv', RecordInv, RecordInv', [Next]_vars,
           NEW i \in DOMAIN shadow, ~ IsOpen(shadow[i]),
           Covered(shadow[i]), Covered(shadow'[i])
    PROVE  Outcome(shadow'[i]) = Outcome(shadow[i])
<1> USE DEF TypeInv
<1>1. CASE shadow'[i] = shadow[i]
  BY <1>1
<1>2. CASE shadow'[i] # shadow[i]
  <2>0. PICK w \in Workers : \E r \in snap[w] : \E p \in SettlePatch(r, window[w]) :
              /\ r.kind = "shadow" /\ r.id = i
              /\ shadow'[i] = PatchRow(shadow[i], p, window[w].last + 1)
              /\ tape' = tape /\ i \in DOMAIN shadow'
    BY <1>2, ShadowChange
  <2> PICK r \in snap[w] : \E p \in SettlePatch(r, window[w]) :
              /\ r.kind = "shadow" /\ r.id = i
              /\ shadow'[i] = PatchRow(shadow[i], p, window[w].last + 1)
              /\ tape' = tape /\ i \in DOMAIN shadow'
    BY <2>0
  <2>1. PICK p \in SettlePatch(r, window[w]) :
              /\ r.kind = "shadow" /\ r.id = i
              /\ shadow'[i] = PatchRow(shadow[i], p, window[w].last + 1)
              /\ tape' = tape /\ i \in DOMAIN shadow'
    OBVIOUS
  <2> DEFINE key == r.row.key
             new == PatchRow(shadow[i], p, window[w].last + 1)
  <2>2. r.row \in ShadowRow /\ p \in RowPatch(ShadowStatus)
    BY <2>1, SettlePatchType
  <2>3. window[w] \in Candles /\ window[w].last + 1 \in Nat /\ window[w].last <= now - 1
    BY SMTT(30) DEF TypeOK, WindowsClosed, Candles
  <2>4. key \in Key
    BY <2>2 DEF ShadowRow, Rows
  <2>5. MaxBars[key[3]] \in Nat \ {0} /\ tape[key] \in Seq(Bars) /\ window[w].last <= Len(tape[key])
    BY <2>3, <2>4, BoundAssumption DEF Key, TypeOK
  <2>6. p \in SettleShadow(r.row, MaxBars[key[3]], tape[key], window[w])
    BY <2>1 DEF SettlePatch
  <2> HIDE DEF key
  <2>7. p \in ClosedPatch(ExitStatuses \cup {"expired"})
    BY <2>2, <2>3, <2>5, <2>6, ShadowPatchType
  <2>8. shadow[i] \in ShadowRow
    BY DEF TypeOK
  <2>9. SameColumns(shadow[i], new) /\ new.status = p.status
    BY <2>2, <2>3, <2>8, PatchKeepsColumns DEF ShadowRow
  <2>10. new.filledAt = shadow[i].filledAt
    BY <2>7, <2>8 DEF PatchRow, Coalesce, ClosedPatch, None, ShadowRow, Rows
  <2> HIDE DEF new
  <2>11. ~ IsOpen(new)
    BY <2>7, <2>9 DEF ClosedPatch, IsOpen, OpenStatus, ExitStatuses
  <2>12. shadow'[i] = new /\ new \in ShadowRow /\ i \in DOMAIN shadow'
    <3>1. shadow'[i] = new
      BY <2>1 DEF new
    <3>2. new \in ShadowRow
      BY <2>2, <2>3, <2>8, PatchRowType DEF ShadowRow, new
    <3> QED
      BY <2>1, <3>1, <3>2
  <2> DEFINE own == shadow[i].key
  <2>13. own = new.key /\ own \in Key /\ MaxBars[own[3]] \in Nat \ {0} /\ tape[own] \in Seq(Bars)
    BY <2>8, <2>9, BoundAssumption DEF SameColumns, ShadowRow, Rows, Key, TypeOK
  <2>14. ShadowOutcome(shadow[i], MaxBars[own[3]], tape[own])
    BY DEF RecordInv, ShadowGradedByTape
  <2>15. ShadowOutcome(new, MaxBars[own[3]], tape[own])
    BY <2>1, <2>11, <2>12, <2>13 DEF RecordInv, ShadowGradedByTape
  <2>16. shadow[i].levels = new.levels /\ shadow[i].opened = new.opened
    BY <2>9 DEF SameColumns
  <2> HIDE DEF own
  <2>17. <<shadow[i].status, shadow[i].closedAt, shadow[i].closePrice, shadow[i].resultR>>
            = <<new.status, new.closedAt, new.closePrice, new.resultR>>
    BY <2>8, <2>12, <2>13, <2>14, <2>15, <2>16, OutcomeUnique
  <2> QED
    BY <2>10, <2>12, <2>17 DEF Outcome
<1> QED
  BY <1>1, <1>2

\* However many ticks overlap, a settled shadow row whose klines reached back to its
\* opening keeps its outcome: every later patch would say the same (patch_shadow).
THEOREM ShadowFinal == Spec => ShadowOutcomeFinal
<1>1. Init => TypeInv /\ RecordInv
  BY TypeInit, RecordInit
<1>2. TypeInv /\ RecordInv /\ [Next]_vars => (TypeInv /\ RecordInv)'
  BY TypeStep, RecordStep
<1>3. TypeInv /\ RecordInv /\ [Next]_vars =>
        \A i \in DOMAIN shadow :
            ~ IsOpen(shadow[i]) /\ Covered(shadow[i]) /\ Covered(shadow'[i]) =>
                Outcome(shadow'[i]) = Outcome(shadow[i])
  BY <1>2, ShadowStands
<1> QED
  BY <1>1, <1>2, <1>3, PTL DEF Spec, ShadowOutcomeFinal

-----------------------------------------------------------------------------
(* Resting limits, with one worker.  Two would contradict each other: a tick *)
(* with an older snapshot patches a limit another has closed.              *)

OneWorker == \A v, w \in Workers : v = w

\* What a walk of a filled position says of its close.
PositionClosed(q, levels, maxBars, bars, fill, e) ==
    /\ e \in fill .. fill + maxBars - 1
    /\ e <= Len(bars)
    /\ q.closedAt = Some(e + 1)
    /\ \A i \in fill .. e - 1 : PositionStatus(levels, bars, fill, i) = "open"
    /\ \/ /\ q.status = PositionStatus(levels, bars, fill, e)
          /\ q.closePrice = Some(IF q.status = "stopped-out" THEN levels.stop
                                                             ELSE levels.objective)
       \/ /\ q.status = "expired"
          /\ e = fill + maxBars - 1
          /\ PositionStatus(levels, bars, fill, e) = "open"
          /\ q.closePrice = Some(bars[e].close)
    /\ \A price \in q.closePrice : q.resultR = Some(ResultR(levels, price))

LEMMA WalkCloses ==
    ASSUME NEW levels, NEW maxBars \in Nat \ {0}, NEW bars \in Seq(Bars),
           NEW fill \in Nat \ {0}, NEW last \in Nat, last <= Len(bars),
           NEW q \in WalkFilledPosition(levels, bars, fill, last, fill, maxBars)
    PROVE  /\ \E e \in Nat : PositionClosed(q, levels, maxBars, bars, fill, e)
           /\ q.status \in PositionStatuses /\ q.filledAt = None
           /\ q = Patch(q.status, None, q.closedAt, q.closePrice, q.resultR)
           /\ q.closedAt # None /\ q.closePrice # None /\ q.resultR # None
<1> DEFINE end == fill + maxBars - 1
           Status(i) == PositionStatus(levels, bars, fill, i)
           resolved == {i \in fill .. Lesser(last, end) : Status(i) # "open"}
           level(e) == IF Status(e) = "stopped-out" THEN levels.stop ELSE levels.objective
<1>1. ASSUME NEW status, NEW price, NEW e, q = ClosePatch(levels, status, price, e)
      PROVE  /\ q.status = status /\ q.filledAt = None
             /\ q.closedAt = Some(e + 1) /\ q.closePrice = Some(price)
             /\ q.resultR = Some(ResultR(levels, price))
             /\ q = Patch(q.status, None, q.closedAt, q.closePrice, q.resultR)
             /\ q.closedAt # None /\ q.closePrice # None /\ q.resultR # None
             /\ \A x \in q.closePrice : q.resultR = Some(ResultR(levels, x))
  BY <1>1 DEF ClosePatch, Patch, Some, None
<1>2. \/ resolved # {} /\ \E e \in First(resolved) :
             q = ClosePatch(levels, Status(e), level(e), e)
      \/ /\ resolved = {} /\ end <= last
         /\ q = ClosePatch(levels, "expired", bars[end].close, end)
  BY DEF WalkFilledPosition
<1>3. CASE \E e \in First(resolved) : q = ClosePatch(levels, Status(e), level(e), e)
  <2>1. PICK e \in First(resolved) : q = ClosePatch(levels, Status(e), level(e), e)
    BY <1>3
  <2>2. /\ e \in fill .. end /\ e <= Len(bars) /\ Status(e) # "open"
        /\ \A i \in fill .. e - 1 : Status(i) = "open"
    BY <2>1 DEF First, Lesser
  <2>3. Status(e) \in PositionStatuses
    BY <2>2 DEF PositionStatus, PositionStatuses
  <2> HIDE DEF resolved
  <2>4. /\ q.status = Status(e) /\ q.closedAt = Some(e + 1) /\ q.closePrice = Some(level(e))
        /\ \A x \in q.closePrice : q.resultR = Some(ResultR(levels, x))
    <3> HIDE DEF level, Status
    <3> QED
      BY <1>1, <2>1
  <2>5. PositionClosed(q, levels, maxBars, bars, fill, e) /\ e \in Nat
    BY <2>2, <2>4 DEF PositionClosed
  <2>6. /\ q.filledAt = None
        /\ q = Patch(q.status, None, q.closedAt, q.closePrice, q.resultR)
        /\ q.closedAt # None /\ q.closePrice # None /\ q.resultR # None
    <3> HIDE DEF level, Status
    <3> QED
      BY <1>1, <2>1
  <2> QED
    BY <2>3, <2>4, <2>5, <2>6
<1>4. CASE /\ resolved = {} /\ end <= last
           /\ q = ClosePatch(levels, "expired", bars[end].close, end)
  <2>1. \A i \in fill .. end : Status(i) = "open"
    BY <1>4 DEF Lesser
  <2> HIDE DEF resolved
  <2>2. /\ q.status = "expired" /\ q.closedAt = Some(end + 1)
        /\ q.closePrice = Some(bars[end].close)
        /\ q.filledAt = None
        /\ q = Patch(q.status, None, q.closedAt, q.closePrice, q.resultR)
        /\ q.closedAt # None /\ q.closePrice # None /\ q.resultR # None
        /\ \A x \in q.closePrice : q.resultR = Some(ResultR(levels, x))
    <3> HIDE DEF end
    <3> QED
      BY <1>1, <1>4
  <2>3. PositionClosed(q, levels, maxBars, bars, fill, end) /\ end \in Nat
    BY <1>4, <2>1, <2>2 DEF PositionClosed
  <2> QED
    BY <2>2, <2>3 DEF PositionStatuses
<1> QED
  BY <1>2, <1>3, <1>4

\* What a limit is graded by, in the words of PositionClosed.
LEMMA AnticClosed ==
    ASSUME NEW row, NEW maxBars, NEW bars, row.status \in PositionStatuses
    PROVE  AnticOutcome(row, maxBars, bars) <=>
              \E f \in row.filledAt : /\ FillBar(row, maxBars, bars, f)
                                      /\ \E e \in f .. f + maxBars - 1 :
                                            PositionClosed(row, row.levels, maxBars, bars, f, e)
BY DEF AnticOutcome, PositionClosed, PositionStatuses

\* A row that rests has no other column set, and none has two fill bars.
Resting(row) ==
    row.status = "pending" => /\ row.filledAt = None /\ row.closedAt = None
                              /\ row.resultR = None

FillsOnce(row) == \A x, y \in row.filledAt : x = y

\* A patch gives a limit the state of the whole tape, and keeps its fill.
LEMMA AnticPatchGrades ==
    ASSUME NEW row \in AnticRow, NEW maxBars \in Nat \ {0}, NEW bars \in Seq(Bars),
           NEW candles \in Candles, candles.last <= Len(bars),
           candles.first <= row.opened + 1, Resting(row), FillsOnce(row),
           row.status = "filled" => AnticOutcome(row, maxBars, bars),
           NEW p \in SettleAnticipatory(row, maxBars, bars, candles), NEW t \in Nat
    PROVE  LET new == PatchRow(row, p, t)
           IN  /\ AnticOutcome(new, maxBars, bars)
               /\ new.status # "pending" /\ FillsOnce(new)
               /\ row.filledAt # None => new.filledAt = row.filledAt
<1> DEFINE new == PatchRow(row, p, t)
           from == row.opened + 1
           end == from + maxBars - 1
           touches == FillBars(row.levels, bars, from, Lesser(candles.last, end))
<1>1. /\ row.opened \in Nat /\ candles.last \in Nat /\ end = row.opened + maxBars
      /\ row.filledAt \in SUBSET Nat
  BY DEF AnticRow, Rows, Candles
<1>2. FirstBar(row, candles) = from
  BY <1>1 DEF FirstBar, Greater, Candles
<1>3. /\ new.levels = row.levels /\ new.opened = row.opened /\ new.status = p.status
      /\ new.filledAt = Coalesce(p.filledAt, row.filledAt)
      /\ new.closedAt = Coalesce(p.closedAt, row.closedAt)
      /\ new.closePrice = Coalesce(p.closePrice, row.closePrice)
      /\ new.resultR = Coalesce(p.resultR, row.resultR)
  BY DEF PatchRow, AnticRow, Rows
<1> HIDE DEF new
<1>4. ASSUME NEW fill \in Nat \ {0}, FillBar(row, maxBars, bars, fill),
             NEW q \in WalkFilledPosition(row.levels, bars, fill, candles.last, fill, maxBars),
             p.status = q.status, p.closedAt = q.closedAt, p.closePrice = q.closePrice,
             p.resultR = q.resultR, new.filledAt = Some(fill)
      PROVE  AnticOutcome(new, maxBars, bars) /\ new.status # "pending"
  <2>1. /\ \E e \in Nat : PositionClosed(q, row.levels, maxBars, bars, fill, e)
        /\ q.status \in PositionStatuses
        /\ q.closedAt # None /\ q.closePrice # None /\ q.resultR # None
    BY <1>1, WalkCloses
  <2>2. /\ new.status = q.status /\ new.closedAt = q.closedAt
        /\ new.closePrice = q.closePrice /\ new.resultR = q.resultR
    BY <1>3, <1>4, <2>1 DEF Coalesce
  <2>3. PICK e \in Nat : PositionClosed(q, row.levels, maxBars, bars, fill, e)
    BY <2>1
  <2>4. PositionClosed(new, new.levels, maxBars, bars, fill, e) /\ e \in fill .. fill + maxBars - 1
    BY <1>3, <2>2, <2>3 DEF PositionClosed
  <2>5. FillBar(new, maxBars, bars, fill)
    BY <1>3, <1>4 DEF FillBar
  <2>6. fill \in new.filledAt
    BY <1>4 DEF Some
  <2> QED
    BY <2>1, <2>2, <2>4, <2>5, <2>6, AnticClosed DEF PositionStatuses
<1>5. CASE row.status = "pending"
  <2>1. p \in SettlePending(row, maxBars, bars, candles)
    BY <1>5 DEF SettleAnticipatory
  <2>2. row.filledAt = None /\ row.closedAt = None /\ row.resultR = None
    BY <1>5 DEF Resting
  <2>3. CASE \E fill \in First(touches) : p \in FilledPatch(row, maxBars, bars, candles, fill)
    <3>1. PICK fill \in First(touches) : p \in FilledPatch(row, maxBars, bars, candles, fill)
      BY <2>3
    <3>2. FillBar(row, maxBars, bars, fill) /\ fill \in Nat \ {0}
      <4> DEFINE to == Lesser(candles.last, end)
      <4>1. to \in Int /\ to <= candles.last /\ to <= end
        BY <1>1 DEF Lesser
      <4>2. /\ fill \in from .. to /\ TouchesLimit(row.levels, bars[fill])
            /\ \A i \in from .. to : TouchesLimit(row.levels, bars[i]) => fill <= i
        BY <3>1 DEF First, FillBars
      <4> HIDE DEF to
      <4>3. /\ fill \in Nat \ {0} /\ fill <= end /\ fill <= Len(bars)
            /\ fill \in row.opened + 1 .. row.opened + maxBars
        BY <1>1, <4>1, <4>2
      <4>4. \A i \in row.opened + 1 .. fill - 1 : ~ TouchesLimit(row.levels, bars[i])
        BY <1>1, <4>1, <4>2, <4>3
      <4> QED
        BY <4>2, <4>3, <4>4 DEF FillBar
    <3> DEFINE outcome == WalkFilledPosition(row.levels, bars, fill, candles.last, fill, maxBars)
    <3>3. \/ p = Patch("filled", Some(fill), None, None, None)
          \/ \E q \in outcome : p = [q EXCEPT !.filledAt = Some(fill)]
      BY <3>1 DEF FilledPatch, Some
    <3>4. CASE p = Patch("filled", Some(fill), None, None, None)
      <4>1. /\ new.status = "filled" /\ new.filledAt = {fill} /\ new.closedAt = None
        BY <1>3, <2>2, <3>4 DEF Patch, Coalesce, Some, None
      <4>2. FillBar(new, maxBars, bars, fill)
        BY <1>3, <3>2 DEF FillBar
      <4> QED
        BY <2>2, <4>1, <4>2 DEF AnticOutcome, FillsOnce, new
    <3>5. CASE \E q \in outcome : p = [q EXCEPT !.filledAt = Some(fill)]
      <4>1. PICK q \in outcome : p = [q EXCEPT !.filledAt = Some(fill)]
        BY <3>5
      <4>2. q = Patch(q.status, None, q.closedAt, q.closePrice, q.resultR)
        BY <1>1, <3>2, <4>1, WalkCloses
      <4>3. p = Patch(q.status, Some(fill), q.closedAt, q.closePrice, q.resultR)
        BY <4>1, <4>2 DEF Patch
      <4>4. /\ p.status = q.status /\ p.closedAt = q.closedAt
            /\ p.closePrice = q.closePrice /\ p.resultR = q.resultR
            /\ p.filledAt = Some(fill)
        BY <4>3 DEF Patch
      <4>5. new.filledAt = Some(fill)
        BY <1>3, <4>4 DEF Coalesce, Some, None
      <4>6. AnticOutcome(new, maxBars, bars) /\ new.status # "pending"
        BY <1>4, <3>2, <4>1, <4>4, <4>5
      <4> QED
        BY <2>2, <4>5, <4>6 DEF FillsOnce, Some, new
    <3> QED
      BY <3>3, <3>4, <3>5
  <2>4. CASE /\ touches = {} /\ end <= candles.last
             /\ p = Patch("never-filled", None, Some(end + 1), None, None)
    <3>1. \A i \in from .. end : ~ TouchesLimit(row.levels, bars[i])
      BY <1>1, <2>4 DEF FillBars, Lesser
    <3>2. /\ new.status = "never-filled" /\ new.filledAt = None
          /\ new.closedAt = Some(end + 1) /\ new.resultR = None
      BY <1>3, <2>2, <2>4 DEF Patch, Coalesce, Some, None
    <3>3. AnticOutcome(new, maxBars, bars)
      BY SMTT(30), <1>1, <1>3, <2>4, <3>1, <3>2 DEF AnticOutcome
    <3> QED
      BY <2>2, <3>2, <3>3 DEF FillsOnce, None, new
  <2> QED
    BY <1>1, <1>2, <2>1, <2>3, <2>4 DEF SettlePending
<1>6. CASE row.status = "filled"
  <2>1. PICK f \in row.filledAt : FillBar(row, maxBars, bars, f)
    BY <1>6 DEF AnticOutcome
  <2>2. row.filledAt = {f} /\ f \in Nat \ {0} /\ Greater(candles.first, f) = f
    BY SMTT(30), <1>1, <2>1 DEF FillsOnce, FillBar, Greater, Candles
  <2>3. p \in WalkFilledPosition(row.levels, bars, f, candles.last, f, maxBars)
    BY <1>6, <2>2 DEF SettleAnticipatory, SettleFilled
  <2>4. p.filledAt = None
    BY <1>1, <2>2, <2>3, WalkCloses
  <2>5. new.filledAt = Some(f)
    BY <1>3, <2>2, <2>4 DEF Coalesce, None, Some
  <2>6. AnticOutcome(new, maxBars, bars) /\ new.status # "pending"
    BY <1>4, <2>1, <2>2, <2>3, <2>5
  <2> QED
    BY <2>2, <2>5, <2>6 DEF FillsOnce, Some, new
<1>7. row.status \in {"pending", "filled"}
  BY DEF SettleAnticipatory, None
<1> QED
  BY <1>5, <1>6, <1>7 DEF new

\* The state read off a tape is the state read off a longer one.
LEMMA AnticOutcomeStable ==
    ASSUME NEW row \in AnticRow, NEW maxBars \in Nat \ {0}, NEW bars \in Seq(Bars),
           NEW bar \in Bars, AnticOutcome(row, maxBars, bars)
    PROVE  AnticOutcome(row, maxBars, Append(bars, bar))
<1> DEFINE longer == Append(bars, bar)
<1>1. row.opened \in Nat /\ row.filledAt \in SUBSET Nat /\ row.status \in AnticStatus
  BY DEF AnticRow, Rows
<1>2. Len(longer) = Len(bars) + 1 /\ \A i \in 1 .. Len(bars) : longer[i] = bars[i]
  OBVIOUS
<1> HIDE DEF longer
<1>3. ASSUME NEW f \in row.filledAt, FillBar(row, maxBars, bars, f)
      PROVE  FillBar(row, maxBars, longer, f)
  BY SMTT(30), <1>1, <1>2, <1>3 DEF FillBar
<1>4. CASE row.status \in PositionStatuses
  <2>1. PICK f \in row.filledAt :
            /\ FillBar(row, maxBars, bars, f)
            /\ \E e \in f .. f + maxBars - 1 :
                  PositionClosed(row, row.levels, maxBars, bars, f, e)
    BY <1>4, AnticClosed
  <2>2. PICK e \in f .. f + maxBars - 1 : PositionClosed(row, row.levels, maxBars, bars, f, e)
    BY <2>1
  <2>3. f \in Nat \ {0} /\ e \in Nat /\ e <= Len(bars)
    BY <1>1, <2>1, <2>2 DEF FillBar, PositionClosed
  <2>4. \A i \in f .. e : /\ longer[i] = bars[i]
                          /\ PositionStatus(row.levels, longer, f, i)
                                = PositionStatus(row.levels, bars, f, i)
    BY <1>2, <2>3 DEF PositionStatus
  <2>5. PositionClosed(row, row.levels, maxBars, longer, f, e)
    BY <1>2, <2>2, <2>3, <2>4 DEF PositionClosed
  <2> QED
    BY <1>3, <1>4, <2>1, <2>2, <2>5, AnticClosed DEF longer
<1>5. CASE row.status = "filled"
  BY <1>3, <1>5 DEF AnticOutcome, longer
<1>6. CASE row.status = "never-filled"
  <2>1. \A i \in row.opened + 1 .. row.opened + maxBars : longer[i] = bars[i] /\ i <= Len(longer)
    BY <1>1, <1>2, <1>6 DEF AnticOutcome
  <2> QED
    BY <1>6, <2>1 DEF AnticOutcome, longer
<1>7. CASE row.status = "pending"
  BY <1>7 DEF AnticOutcome
<1> QED
  BY <1>1, <1>4, <1>5, <1>6, <1>7 DEF AnticStatus, PositionStatuses

\* Whatever the window, a patch neither reopens a limit nor moves its fill.
LEMMA AnticPatchShapes ==
    ASSUME NEW row \in AnticRow, NEW maxBars, NEW bars, NEW candles,
           Resting(row), FillsOnce(row),
           NEW p \in SettleAnticipatory(row, maxBars, bars, candles), NEW t
    PROVE  LET new == PatchRow(row, p, t)
           IN  /\ new.status # "pending" /\ FillsOnce(new)
               /\ row.filledAt # None => new.filledAt = row.filledAt
<1> DEFINE new == PatchRow(row, p, t)
<1>1. new.status = p.status /\ new.filledAt = Coalesce(p.filledAt, row.filledAt)
  BY DEF PatchRow, AnticRow, Rows
<1> HIDE DEF new
<1>2. ASSUME NEW from, NEW last, NEW fill,
             NEW q \in WalkFilledPosition(row.levels, bars, from, last, fill, maxBars)
      PROVE  /\ q.status # "pending" /\ q.filledAt = None
             /\ \E status, closedAt, closePrice, resultR :
                    q = Patch(status, None, closedAt, closePrice, resultR)
  <2>1. \/ \E e, level : /\ PositionStatus(row.levels, bars, fill, e) # "pending"
                         /\ q = ClosePatch(row.levels,
                                   PositionStatus(row.levels, bars, fill, e), level, e)
        \/ \E e : q = ClosePatch(row.levels, "expired", bars[e].close, e)
    BY DEF WalkFilledPosition, PositionStatus
  <2> QED
    BY <2>1 DEF ClosePatch, Patch
<1>3. CASE row.status = "pending"
  <2>1. row.filledAt = None
    BY <1>3 DEF Resting
  <2>2. p \in SettlePending(row, maxBars, bars, candles)
    BY <1>3 DEF SettleAnticipatory
  <2>3. \/ \E fill : p \in FilledPatch(row, maxBars, bars, candles, fill)
        \/ \E i : p = Patch("never-filled", None, Some(i + 1), None, None)
    BY <2>2 DEF SettlePending
  <2>4. CASE \E fill : p \in FilledPatch(row, maxBars, bars, candles, fill)
    <3>1. PICK fill : p \in FilledPatch(row, maxBars, bars, candles, fill)
      BY <2>4
    <3> DEFINE outcome == WalkFilledPosition(row.levels, bars, fill, candles.last, fill, maxBars)
    <3>2. \/ p = Patch("filled", Some(fill), None, None, None)
          \/ \E q \in outcome : p = [q EXCEPT !.filledAt = Some(fill)]
      BY <3>1 DEF FilledPatch, Some
    <3>3. p.status # "pending" /\ p.filledAt = Some(fill)
      <4>1. CASE p = Patch("filled", Some(fill), None, None, None)
        BY <4>1 DEF Patch
      <4>2. CASE \E q \in outcome : p = [q EXCEPT !.filledAt = Some(fill)]
        <5>1. PICK q \in outcome : p = [q EXCEPT !.filledAt = Some(fill)]
          BY <4>2
        <5>2. PICK status, closedAt, closePrice, resultR :
                  q = Patch(status, None, closedAt, closePrice, resultR)
          BY <5>1, <1>2
        <5>3. q.status # "pending"
          BY <5>1, <1>2
        <5> QED
          BY <5>1, <5>2, <5>3 DEF Patch
      <4> QED
        BY <3>2, <4>1, <4>2
    <3> QED
      BY <1>1, <2>1, <3>3 DEF Coalesce, Some, None, FillsOnce, new
  <2>5. CASE \E i : p = Patch("never-filled", None, Some(i + 1), None, None)
    <3>1. p.status = "never-filled" /\ p.filledAt = None
      BY <2>5 DEF Patch
    <3> QED
      BY <1>1, <2>1, <3>1 DEF Coalesce, None, FillsOnce, new
  <2> QED
    BY <2>3, <2>4, <2>5
<1>4. CASE row.status = "filled"
  <2>1. \E from, last, fill :
            p \in WalkFilledPosition(row.levels, bars, from, last, fill, maxBars)
    BY <1>4 DEF SettleAnticipatory, SettleFilled
  <2>2. p.status # "pending" /\ p.filledAt = None
    BY <2>1, <1>2
  <2>3. new.filledAt = row.filledAt
    BY <1>1, <2>2 DEF Coalesce
  <2> QED
    BY <1>1, <2>2, <2>3 DEF FillsOnce, new
<1>5. row.status \in {"pending", "filled"}
  BY DEF SettleAnticipatory, None
<1> QED
  BY <1>3, <1>4, <1>5 DEF new

-----------------------------------------------------------------------------
(* The invariant of the limits, and the steps that touch none of them.     *)

FreshLimit(row) ==
    /\ row.status = "pending" /\ row.fetchedAt = 0
    /\ row.filledAt = None /\ row.closedAt = None
    /\ row.closePrice = None /\ row.resultR = None

LimitDrafts == \A w \in Workers : \A d \in out[w].antic : FreshLimit(d)

\* With one worker, what its pass listed is what the table says.
LimitsListed ==
    \A w \in Workers : \A r \in snap[w] : r.kind = "antic" => r.row = antic[r.id]

FetchedBefore ==
    /\ \A i \in DOMAIN antic : antic[i].fetchedAt <= now
    /\ \A w \in Workers : pc[w] = "patch" =>
           \A k \in group[w] : \A r \in InGroup(k, snap[w]) :
               r.kind = "antic" => r.row.fetchedAt <= window[w].last + 1

LimitsShaped == \A i \in DOMAIN antic : Resting(antic[i]) /\ FillsOnce(antic[i])

LimitInv ==
    /\ LimitDrafts /\ LimitsListed /\ FetchedBefore /\ LimitsShaped
    /\ AnticGradedByTape

LimitDraftsShrink == \A v \in Workers : out'[v].antic \subseteq out[v].antic

\* The rows are kept, the clock is not turned back and every worker's work narrows.
LEMMA LimitQuiet ==
    ASSUME TypeOK, LimitInv, UNCHANGED <<now, tape, antic>>,
           SnapShrinks, WindowsKept, LimitDraftsShrink
    PROVE  LimitInv'
<1>1. LimitDrafts' /\ LimitsListed'
  BY DEF LimitInv, LimitDrafts, LimitDraftsShrink, LimitsListed, SnapShrinks
<1>2. FetchedBefore'
  <2>1. \A i \in DOMAIN antic' : antic'[i].fetchedAt <= now'
    BY DEF LimitInv, FetchedBefore
  <2> SUFFICES ASSUME NEW w \in Workers, pc'[w] = "patch", NEW k \in group'[w],
                      NEW r \in InGroup(k, snap'[w]), r.kind = "antic"
               PROVE  r.row.fetchedAt <= window'[w].last + 1
    BY <2>1 DEF FetchedBefore, InGroup
  <2>2. pc[w] = "patch" /\ k \in group[w] /\ window'[w] = window[w] /\ r \in InGroup(k, snap[w])
    BY DEF WindowsKept, SnapShrinks, InGroup
  <2> QED
    BY <2>2 DEF LimitInv, FetchedBefore
<1>3. LimitsShaped' /\ AnticGradedByTape'
  BY DEF LimitInv, LimitsShaped, AnticGradedByTape
<1> QED
  BY <1>1, <1>2, <1>3 DEF LimitInv

LEMMA CloseBarLimits ==
    ASSUME TypeInv, LimitInv, CloseBar
    PROVE  LimitInv'
<1> USE DEF TypeInv
<1>1. PICK bar \in [Key -> Bars] : tape' = [k \in Key |-> Append(tape[k], bar[k])]
  BY DEF CloseBar
<1>2. UNCHANGED <<antic, snap, pc, group, window, out>> /\ now' = now + 1 /\ now \in Nat
  BY DEF CloseBar, tables, locals, TypeOK
<1>3. LimitDrafts' /\ LimitsListed' /\ LimitsShaped'
  BY <1>2 DEF LimitInv, LimitDrafts, LimitsListed, LimitsShaped
<1>4. FetchedBefore'
  <2>1. \A i \in DOMAIN antic : antic[i].fetchedAt \in Nat
    <3>1. \A i \in DOMAIN antic : antic[i] \in AnticRow
      BY DEF TypeOK
    <3>2. \A row \in AnticRow : row.fetchedAt \in Nat
      BY DEF AnticRow, Rows
    <3> QED
      BY <3>1, <3>2
  <2>2. \A i \in DOMAIN antic : antic[i].fetchedAt <= now'
    BY <1>2, <2>1 DEF LimitInv, FetchedBefore
  <2> QED
    BY <1>2, <2>2 DEF LimitInv, FetchedBefore, InGroup
<1>5. AnticGradedByTape'
  <2> SUFFICES ASSUME NEW i \in DOMAIN antic, Covered(antic[i])
               PROVE  AnticOutcome(antic[i], MaxBars[antic[i].key[3]], tape'[antic[i].key])
    BY <1>2 DEF AnticGradedByTape
  <2> DEFINE k == antic[i].key
  <2>1. antic[i] \in AnticRow
    BY DEF TypeOK
  <2>2. k \in Key
    BY <2>1 DEF AnticRow, Rows
  <2>3. MaxBars[k[3]] \in Nat \ {0}
    BY <2>2, BoundAssumption DEF Key
  <2>4. tape[k] \in Seq(Bars) /\ bar[k] \in Bars /\ tape'[k] = Append(tape[k], bar[k])
    BY <1>1, <2>2 DEF TypeOK
  <2>5. AnticOutcome(antic[i], MaxBars[k[3]], tape[k])
    BY DEF LimitInv, AnticGradedByTape
  <2> QED
    BY <2>1, <2>3, <2>4, <2>5, AnticOutcomeStable
<1> QED
  BY <1>3, <1>4, <1>5 DEF LimitInv

\* Every limit an evaluation drafts rests.
LEMMA LimitDraftRests ==
    ASSUME NEW scope, NEW fresh, NEW late, NEW combos,
           NEW d \in EvaluateSymbol(scope, fresh, late, combos).antic
    PROVE  FreshLimit(d)
<1>1. \E key, levels, combo : d = NewRow(key, levels, combo, "pending", now)
  BY DEF EvaluateSymbol
<1> QED
  BY <1>1 DEF NewRow, FreshLimit, None

\* An insert keeps the rows a table has.
LEMMA InsertKeeps ==
    ASSUME NEW Row, NEW table \in Seq(Row), NEW row \in Row
    PROVE  \A i \in DOMAIN table : /\ i \in DOMAIN Insert(table, row)
                                   /\ Insert(table, row)[i] = table[i]
BY DEF Insert

LEMMA OpenAnticipatoryLimits ==
    ASSUME TypeInv, LimitInv, NEW w \in Workers, OpenAnticipatory(w)
    PROVE  LimitInv'
<1> USE DEF TypeInv
<1>1. UNCHANGED <<now, tape, snap, pc, group, window>>
  BY DEF OpenAnticipatory, market
<1>2. PICK d \in out[w].antic : /\ antic' = Insert(antic, d)
                                /\ out' = [out EXCEPT ![w].antic = @ \ {d}]
  BY DEF OpenAnticipatory
<1>3. out[w] \in Output /\ d \in AnticRow /\ antic \in Seq(AnticRow) /\ now \in Nat
  BY <1>2 DEF TypeOK, Output
<1>4. FreshLimit(d)
  BY <1>2 DEF LimitInv, LimitDrafts
<1>5. \A i \in DOMAIN antic' : \/ i \in DOMAIN antic /\ antic'[i] = antic[i]
                               \/ antic'[i] = d
  BY <1>2, <1>3, AppendGrows
<1>6. LimitDrafts'
  <2>1. LimitDraftsShrink
    BY <1>2, <1>3 DEF LimitDraftsShrink, TypeOK, Output
  <2> QED
    BY <2>1 DEF LimitInv, LimitDrafts, LimitDraftsShrink
<1>7. LimitsListed'
  <2> SUFFICES ASSUME NEW v \in Workers, NEW r \in snap[v], r.kind = "antic"
               PROVE  r.row = antic'[r.id]
    BY <1>1 DEF LimitsListed
  <2>1. r.id \in DOMAIN antic
    BY ItemTable DEF TableOf
  <2>2. antic'[r.id] = antic[r.id]
    BY <1>2, <1>3, <2>1, InsertKeeps
  <2> QED
    BY <2>2 DEF LimitInv, LimitsListed
<1>8. FetchedBefore'
  BY <1>1, <1>3, <1>4, <1>5 DEF LimitInv, FetchedBefore, FreshLimit, InGroup
<1>9. LimitsShaped'
  <2>1. Resting(d) /\ FillsOnce(d)
    BY <1>4 DEF Resting, FillsOnce, FreshLimit, None
  <2> QED
    BY <1>5, <2>1 DEF LimitInv, LimitsShaped
<1>10. AnticGradedByTape'
  <2>1. \A maxBars, bars : AnticOutcome(d, maxBars, bars)
    BY <1>4 DEF AnticOutcome, FreshLimit
  <2> QED
    BY <1>1, <1>5, <2>1 DEF LimitInv, AnticGradedByTape
<1> QED
  BY <1>6, <1>7, <1>8, <1>9, <1>10 DEF LimitInv

LEMMA AbortDrafts ==
    ASSUME TypeOK, NEW w \in Workers, NEW next, AbortTick(w, next)
    PROVE  LimitDraftsShrink
<1>1. out' = [out EXCEPT ![w] = NoOutput]
  BY DEF AbortTick
<1> QED
  BY <1>1 DEF LimitDraftsShrink, NoOutput, TypeOK

LEMMA EvalLimits ==
    ASSUME TypeInv, LimitInv, NEW w \in Workers, EvalStep(w)
    PROVE  LimitInv'
<1> USE DEF TypeInv
<1>1. CASE StartTick(w) \/ LoadComboStats(w) \/ UpsertHolds(w)
  <2>1. UNCHANGED <<now, tape, antic, snap, group, window, out>>
    BY <1>1 DEF StartTick, LoadComboStats, UpsertHolds, market, tables, locals
  <2>2. \E next \in {"stats", "assess", "open"} : pc' = [pc EXCEPT ![w] = next]
    BY <1>1 DEF StartTick, LoadComboStats, UpsertHolds
  <2>3. SnapShrinks /\ WindowsKept /\ LimitDraftsShrink
    BY <2>1, <2>2 DEF SnapShrinks, WindowsKept, LimitDraftsShrink, TypeOK
  <2> QED
    BY <2>1, <2>3, LimitQuiet
<1>2. CASE AssessSymbol(w)
  <2>1. UNCHANGED <<now, tape, antic, snap, group, window>>
    BY <1>2 DEF AssessSymbol, market, tables
  <2>2. PICK fresh \in [Intents -> Assessments], late \in [Intents -> BOOLEAN] :
            out' = [out EXCEPT ![w] = EvaluateSymbol(at[w], fresh, late, demoted[w])]
    BY <1>2 DEF AssessSymbol
  <2>3. pc' = [pc EXCEPT ![w] = "holds"]
    BY <1>2 DEF AssessSymbol
  <2>4. LimitDrafts'
    <3>1. \A d \in out'[w].antic : FreshLimit(d)
      BY <2>2, LimitDraftRests DEF TypeOK
    <3> QED
      BY <2>2, <3>1 DEF LimitInv, LimitDrafts, TypeOK
  <2>5. LimitsListed' /\ LimitsShaped' /\ AnticGradedByTape'
    BY <2>1 DEF LimitInv, LimitsListed, LimitsShaped, AnticGradedByTape
  <2>6. FetchedBefore'
    BY <2>1, <2>3 DEF LimitInv, FetchedBefore, InGroup, TypeOK
  <2> QED
    BY <2>4, <2>5, <2>6 DEF LimitInv
<1>3. CASE SkipSymbol(w) \/ EndSymbol(w)
  <2>1. /\ NextSymbol(w) /\ UNCHANGED <<now, tape, antic>>
        /\ UNCHANGED <<snap, group, window>>
    BY <1>3 DEF SkipSymbol, EndSymbol, market, tables
  <2>2. LimitDraftsShrink
    BY <2>1 DEF NextSymbol, LimitDraftsShrink, NoOutput, TypeOK
  <2> QED
    BY <2>1, <2>2, NextSymbolNarrows, LimitQuiet
<1>4. CASE OpenShadow(w)
  <2>1. UNCHANGED <<now, tape, antic, snap, pc, group, window>>
    BY <1>4 DEF OpenShadow, market
  <2>2. PICK d \in out[w].shadow : out' = [out EXCEPT ![w].shadow = @ \ {d}]
    BY <1>4 DEF OpenShadow
  <2>3. SnapShrinks /\ WindowsKept /\ LimitDraftsShrink
    BY <2>1, <2>2 DEF SnapShrinks, WindowsKept, LimitDraftsShrink, TypeOK, Output
  <2> QED
    BY <2>1, <2>3, LimitQuiet
<1> QED
  BY <1>1, <1>2, <1>3, <1>4, OpenAnticipatoryLimits DEF EvalStep

LEMMA FaultLimits ==
    ASSUME TypeInv, LimitInv, NEW w \in Workers, FaultStep(w)
    PROVE  LimitInv'
<1> USE DEF TypeInv
<1>1. CASE EvalFails(w)
  <2>1. /\ NextSymbol(w) /\ UNCHANGED <<now, tape, antic>>
        /\ UNCHANGED <<snap, group, window>>
    BY <1>1 DEF EvalFails, market, tables
  <2>2. LimitDraftsShrink
    BY <2>1 DEF NextSymbol, LimitDraftsShrink, NoOutput, TypeOK
  <2> QED
    BY <2>1, <2>2, NextSymbolNarrows, LimitQuiet
<1>2. CASE FeedDown(w)
  <2>1. UNCHANGED <<now, tape, antic, pc, group, window, out>>
    BY <1>2 DEF FeedDown, market, tables
  <2>2. SnapShrinks
    BY <1>2 DEF FeedDown, SnapShrinks, TypeOK
  <2>3. WindowsKept /\ LimitDraftsShrink
    BY <2>1 DEF WindowsKept, LimitDraftsShrink
  <2> QED
    BY <2>1, <2>2, <2>3, LimitQuiet
<1>3. CASE TickFails(w) \/ KlinesUnparsable(w) \/ Crash(w)
  <2>1. /\ AbortTick(w, "failed") \/ AbortTick(w, "idle")
        /\ UNCHANGED <<now, tape, antic>>
    BY <1>3 DEF TickFails, KlinesUnparsable, Crash, market, tables
  <2>2. LimitDraftsShrink
    BY <2>1, AbortDrafts
  <2> QED
    BY <2>1, <2>2, AbortNarrows, LimitQuiet
<1> QED
  BY <1>1, <1>2, <1>3 DEF FaultStep

\* A settle step that writes a limit is the patch of a listed row.
LEMMA LimitChange ==
    ASSUME TypeInv, LimitInv, NEW w \in Workers, SettleRecord(w), antic' # antic
    PROVE  \E r \in snap[w], p \in RowPatch(AnticStatus) :
              /\ p \in SettlePatch(r, window[w]) /\ r.row.key \in group[w]
              /\ r.kind = "antic" /\ r.id \in DOMAIN antic
              /\ r.row = antic[r.id] /\ r.row \in AnticRow
              /\ antic'[r.id] = PatchRow(r.row, p, window[w].last + 1)
              /\ DOMAIN antic' = DOMAIN antic
              /\ \A j \in DOMAIN antic : j # r.id => antic'[j] = antic[j]
              /\ snap' = [snap EXCEPT ![w] = @ \ {r}]
<1> USE DEF TypeInv
<1>1. PICK k \in group[w], r \in snap[w] :
          /\ NextRecord(r, InGroup(k, snap[w]))
          /\ \/ \E p \in SettlePatch(r, window[w]) : PatchRecord(r, p, window[w])
             \/ UNCHANGED <<shadow, antic, tracked>>
          /\ snap' = [snap EXCEPT ![w] = @ \ {r}]
  BY DEF SettleRecord
<1>2. PICK p \in SettlePatch(r, window[w]) : PatchRecord(r, p, window[w])
  BY <1>1
<1>3. r.kind = "antic" /\ antic' = Patched(antic, r, p, window[w])
  BY <1>2 DEF PatchRecord
<1>4. /\ r.id \in DOMAIN antic /\ p \in RowPatch(AnticStatus) /\ r.row \in AnticRow
      /\ window[w] \in Candles
  BY <1>3, SettlePatchType DEF TypeOK, Candles
<1>5. r.row = antic[r.id]
  BY <1>3 DEF LimitInv, LimitsListed
<1>6. /\ DOMAIN antic' = DOMAIN antic
      /\ \A j \in DOMAIN antic : j # r.id => antic'[j] = antic[j]
  BY <1>3, <1>4, PatchedType DEF TypeOK, AnticRow
<1>7. antic'[r.id] = PatchRow(r.row, p, window[w].last + 1)
  <2>1. antic[r.id].status # "deleted"
    BY <1>4, <1>5 DEF AnticRow, Rows, AnticStatus
  <2> QED
    BY <1>3, <1>4, <1>5, <2>1 DEF Patched, TypeOK
<1> QED
  BY <1>1, <1>2, <1>3, <1>4, <1>5, <1>6, <1>7 DEF NextRecord, InGroup

\* A patch from candles that reach back to the opening, at least as late as those
\* that patched the row before, gives the limit the state of the whole tape.
LEMMA LimitPatchGraded ==
    ASSUME TypeInv, RecordInv, LimitInv, NEW w \in Workers, pc[w] = "patch",
           NEW r \in snap[w], r.row.key \in group[w], r.kind = "antic",
           r.id \in DOMAIN antic, r.row = antic[r.id], r.row \in AnticRow,
           NEW p \in SettlePatch(r, window[w]),
           Covered(PatchRow(r.row, p, window[w].last + 1))
    PROVE  AnticOutcome(PatchRow(r.row, p, window[w].last + 1),
                        MaxBars[r.row.key[3]], tape[r.row.key])
<1> USE DEF TypeInv
<1> DEFINE key == r.row.key
           new == PatchRow(r.row, p, window[w].last + 1)
<1>0. r \in InGroup(key, snap[w])
  BY DEF InGroup
<1>1. /\ window[w] \in Candles /\ window[w].last + 1 \in Nat
      /\ key \in Key /\ tape[key] \in Seq(Bars)
      /\ window[w].last <= Len(tape[key]) /\ MaxBars[key[3]] \in Nat \ {0}
      /\ window[w].last + 1 - r.row.opened <= FetchLimit
            => window[w].first <= r.row.opened + 1
  BY <1>0, RecordReady
<1>2. r.row.opened \in Nat /\ r.row.fetchedAt \in Nat /\ window[w].last \in Nat
  BY <1>1 DEF AnticRow, Rows, Candles
<1>3. new.fetchedAt = window[w].last + 1 /\ new.opened = r.row.opened
  BY DEF PatchRow, AnticRow, Rows
<1>4. window[w].last + 1 - r.row.opened <= FetchLimit
  <2>1. Covered(new)
    OBVIOUS
  <2> HIDE DEF new
  <2> QED
    BY <1>2, <1>3, <2>1, BoundAssumption DEF Covered
<1>5. r.row.fetchedAt <= window[w].last + 1
  BY <1>0 DEF LimitInv, FetchedBefore
<1>6. Covered(r.row)
  <2> HIDE DEF new
  <2> QED
    BY <1>2, <1>4, <1>5, BoundAssumption DEF Covered
<1>7. AnticOutcome(r.row, MaxBars[key[3]], tape[key])
  BY <1>6 DEF LimitInv, AnticGradedByTape
<1>8. Resting(r.row) /\ FillsOnce(r.row)
  BY DEF LimitInv, LimitsShaped
<1>9. p \in SettleAnticipatory(r.row, MaxBars[key[3]], tape[key], window[w])
  BY DEF SettlePatch
<1>10. r.row.status = "filled" => AnticOutcome(r.row, MaxBars[key[3]], tape[key])
  BY <1>7
<1>11. window[w].first <= r.row.opened + 1
  BY <1>1, <1>4
<1> HIDE DEF key
<1>12. AnticOutcome(new, MaxBars[key[3]], tape[key])
  BY <1>1, <1>8, <1>9, <1>10, <1>11, AnticPatchGrades
<1> QED
  BY <1>12 DEF key

LEMMA SettleRecordLimits ==
    ASSUME OneWorker, TypeInv, RecordInv, LimitInv, NEW w \in Workers, SettleRecord(w)
    PROVE  LimitInv'
<1> USE DEF TypeInv
<1>1. UNCHANGED <<now, tape, pc, group, window, out>> /\ pc[w] = "patch"
  BY DEF SettleRecord, market
<1>2. SnapShrinks /\ WindowsKept /\ LimitDraftsShrink
  BY <1>1 DEF SettleRecord, SnapShrinks, WindowsKept, LimitDraftsShrink, TypeOK
<1>3. CASE antic' = antic
  BY <1>1, <1>2, <1>3, LimitQuiet
<1>4. CASE antic' # antic
  <2>0. PICK r \in snap[w], p \in RowPatch(AnticStatus) :
              /\ p \in SettlePatch(r, window[w]) /\ r.row.key \in group[w]
              /\ r.kind = "antic" /\ r.id \in DOMAIN antic
              /\ r.row = antic[r.id] /\ r.row \in AnticRow
              /\ antic'[r.id] = PatchRow(r.row, p, window[w].last + 1)
              /\ DOMAIN antic' = DOMAIN antic
              /\ \A j \in DOMAIN antic : j # r.id => antic'[j] = antic[j]
              /\ snap' = [snap EXCEPT ![w] = @ \ {r}]
    BY <1>4, LimitChange
  <2> DEFINE key == r.row.key
             new == PatchRow(r.row, p, window[w].last + 1)
  <2>1. /\ window[w] \in Candles /\ window[w].last + 1 \in Nat
        /\ window[w].last + 1 <= now /\ now \in Nat
    BY DEF TypeOK, WindowsClosed, Candles
  <2>2. /\ new.fetchedAt = window[w].last + 1
        /\ new.key = r.row.key
    BY <2>0 DEF PatchRow, AnticRow, Rows
  <2> HIDE DEF new
  <2>3. /\ antic'[r.id] = new
        /\ \A j \in DOMAIN antic' : antic'[j] = new \/ antic'[j] = antic[j]
    BY <2>0 DEF new
  <2>4. LimitDrafts'
    BY <1>1 DEF LimitInv, LimitDrafts
  <2>5. LimitsListed'
    <3> SUFFICES ASSUME NEW v \in Workers, NEW q \in snap'[v], q.kind = "antic"
                 PROVE  q.row = antic'[q.id]
      BY DEF LimitsListed
    <3>1. v = w
      BY DEF OneWorker
    <3>2. q \in snap[w] /\ q # r
      BY <2>0, <3>1 DEF TypeOK
    <3>3. q.row = antic[q.id] /\ q.id \in DOMAIN antic
      BY <3>2, ItemTable DEF LimitInv, LimitsListed, TableOf
    <3>4. q.id # r.id
      <4>1. q \in SnapItem /\ r \in SnapItem
        BY <3>2 DEF TypeOK
      <4>2. q = [kind |-> q.kind, id |-> q.id, row |-> q.row]
            /\ r = [kind |-> r.kind, id |-> r.id, row |-> r.row]
        BY <4>1 DEF SnapItem, SnapOf
      <4> QED
        BY <2>0, <3>2, <3>3, <4>2
    <3> QED
      BY <2>0, <3>3, <3>4
  <2>6. FetchedBefore'
    <3>1. \A i \in DOMAIN antic' : antic'[i].fetchedAt <= now'
      BY <1>1, <2>0, <2>1, <2>2, <2>3 DEF LimitInv, FetchedBefore
    <3> QED
      BY <1>1, <1>2, <3>1 DEF LimitInv, FetchedBefore, SnapShrinks, InGroup
  <2>7. LimitsShaped'
    <3>1. Resting(r.row) /\ FillsOnce(r.row)
      BY <2>0 DEF LimitInv, LimitsShaped
    <3>2. p \in SettleAnticipatory(r.row, MaxBars[key[3]], tape[key], window[w])
      BY <2>0 DEF SettlePatch
    <3>3. new.status # "pending" /\ FillsOnce(new)
      <4> HIDE DEF key
      <4> QED
        BY <2>0, <3>1, <3>2, AnticPatchShapes DEF new
    <3> QED
      BY <2>0, <2>3, <3>3 DEF LimitInv, LimitsShaped, Resting
  <2>8. AnticGradedByTape'
    <3> SUFFICES ASSUME NEW i \in DOMAIN antic', Covered(antic'[i])
                 PROVE  AnticOutcome(antic'[i], MaxBars[antic'[i].key[3]], tape[antic'[i].key])
      BY <1>1 DEF AnticGradedByTape
    <3>1. CASE antic'[i] = new
      BY <1>1, <2>0, <2>2, <3>1, LimitPatchGraded DEF new
    <3>2. CASE antic'[i] = antic[i]
      BY <2>0, <3>2 DEF LimitInv, AnticGradedByTape
    <3> QED
      BY <2>3, <3>1, <3>2
  <2> QED
    BY <2>4, <2>5, <2>6, <2>7, <2>8 DEF LimitInv
<1> QED
  BY <1>3, <1>4

LEMMA ListOpenLimits ==
    ASSUME TypeInv, LimitInv, NEW w \in Workers, ListOpen(w)
    PROVE  LimitInv'
<1> USE DEF TypeInv
<1>1. UNCHANGED <<now, tape, antic, group, window, out>>
  BY DEF ListOpen, market, tables
<1>2. /\ pc' = [pc EXCEPT ![w] = "group"]
      /\ snap' = [snap EXCEPT ![w] = OpenRecords("shadow", shadow)
                                     \cup OpenRecords("antic", antic)
                                     \cup OpenRecords("tracked", tracked)]
  BY DEF ListOpen
<1>3. LimitsListed'
  <2> SUFFICES ASSUME NEW v \in Workers, NEW r \in snap'[v], r.kind = "antic"
               PROVE  r.row = antic[r.id]
    BY <1>1 DEF LimitsListed
  <2>1. CASE v # w
    BY <1>2, <2>1 DEF LimitInv, LimitsListed, TypeOK
  <2>2. CASE v = w
    BY <1>2, <2>2 DEF OpenRecords, TypeOK
  <2> QED
    BY <2>1, <2>2
<1>4. FetchedBefore'
  BY <1>1, <1>2 DEF LimitInv, FetchedBefore, TypeOK, InGroup
<1> QED
  BY <1>1, <1>3, <1>4 DEF LimitInv, LimitDrafts, LimitsShaped, AnticGradedByTape

LEMMA FetchGroupLimits ==
    ASSUME TypeInv, LimitInv, NEW w \in Workers, FetchGroup(w)
    PROVE  LimitInv'
<1> USE DEF TypeInv
<1>1. UNCHANGED <<now, tape, antic, out, snap>> /\ now \in Nat \ {0}
  BY DEF FetchGroup, market, tables, TypeOK
<1>2. \E earliest : window' = [window EXCEPT ![w] =
                                  FetchWindow(earliest, now, MinLimit, FetchLimit)]
  BY DEF FetchGroup
<1>3. window'[w].last = now - 1 /\ \A v \in Workers : v # w => window'[v] = window[v]
  BY <1>2 DEF FetchWindow, TypeOK
<1>4. /\ pc' = [pc EXCEPT ![w] = "patch"]
      /\ \A v \in Workers : v # w => group'[v] = group[v]
  BY DEF FetchGroup, TypeOK
<1>5. FetchedBefore'
  <2>1. \A i \in DOMAIN antic' : antic'[i].fetchedAt <= now'
    BY <1>1 DEF LimitInv, FetchedBefore
  <2> SUFFICES ASSUME NEW v \in Workers, pc'[v] = "patch", NEW g \in group'[v],
                      NEW r \in InGroup(g, snap[v]), r.kind = "antic"
               PROVE  r.row.fetchedAt <= window'[v].last + 1
    BY <1>1, <2>1 DEF FetchedBefore, InGroup
  <2>2. CASE v = w
    <3>1. r \in snap[w]
      BY <2>2 DEF InGroup
    <3>2. r.id \in DOMAIN antic /\ r.row = antic[r.id]
      BY <3>1, ItemTable DEF TableOf, LimitInv, LimitsListed
    <3>3. r.row.fetchedAt <= now
      BY <3>2 DEF LimitInv, FetchedBefore
    <3> QED
      BY <1>1, <1>3, <2>2, <3>3
  <2>3. CASE v # w
    BY <1>3, <1>4, <2>3 DEF LimitInv, FetchedBefore, TypeOK
  <2> QED
    BY <2>2, <2>3
<1> QED
  BY <1>1, <1>5 DEF LimitInv, LimitDrafts, LimitsListed, LimitsShaped, AnticGradedByTape

LEMMA SettleLimits ==
    ASSUME OneWorker, TypeInv, RecordInv, LimitInv, NEW w \in Workers, SettleStep(w)
    PROVE  LimitInv'
<1> USE DEF TypeInv
<1>1. CASE PatchConflicts(w)
  <2>1. AbortTick(w, "failed") /\ UNCHANGED <<now, tape, antic>>
    BY <1>1 DEF PatchConflicts, market, tables
  <2>2. LimitDraftsShrink
    BY <2>1, AbortDrafts
  <2> QED
    BY <2>1, <2>2, AbortNarrows, LimitQuiet
<1>2. CASE EndGroup(w) \/ FinishRun(w) \/ FinishError(w)
  <2>1. UNCHANGED <<now, tape, antic, snap, out>>
    BY <1>2 DEF EndGroup, FinishRun, FinishError, market, tables, locals
  <2>2. \E next \in {"group", "idle"} : pc' = [pc EXCEPT ![w] = next]
    BY <1>2 DEF EndGroup, FinishRun, FinishError
  <2>3. \A v \in Workers : v # w => group'[v] = group[v] /\ window'[v] = window[v]
    BY <1>2 DEF EndGroup, FinishRun, FinishError, locals, TypeOK
  <2>4. SnapShrinks /\ WindowsKept /\ LimitDraftsShrink
    BY <2>1, <2>2, <2>3 DEF SnapShrinks, WindowsKept, LimitDraftsShrink, TypeOK
  <2> QED
    BY <2>1, <2>4, LimitQuiet
<1> QED
  BY <1>1, <1>2, ListOpenLimits, FetchGroupLimits, SettleRecordLimits DEF SettleStep

LEMMA LimitInit == Init => LimitInv
BY DEF Init, LimitInv, LimitDrafts, LimitsListed, FetchedBefore, LimitsShaped,
       AnticGradedByTape, NoOutput

LEMMA LimitStep ==
    ASSUME OneWorker
    PROVE  TypeInv /\ RecordInv /\ LimitInv /\ [Next]_vars => LimitInv'
<1> SUFFICES ASSUME TypeInv, RecordInv, LimitInv, [Next]_vars PROVE LimitInv'
  OBVIOUS
<1>1. CASE UNCHANGED vars
  <2>1. UNCHANGED <<now, tape, antic, snap, pc, group, window, out>>
    BY <1>1 DEF vars
  <2> QED
    BY <2>1, LimitQuiet DEF TypeInv, SnapShrinks, WindowsKept, LimitDraftsShrink
<1>2. CASE FollowTracked \/ DeleteTracked
  <2>1. UNCHANGED <<now, tape, antic, snap, pc, group, window, out>>
    BY <1>2 DEF FollowTracked, DeleteTracked, market, locals
  <2> QED
    BY <2>1, LimitQuiet DEF TypeInv, SnapShrinks, WindowsKept, LimitDraftsShrink
<1> QED
  BY <1>1, <1>2, CloseBarLimits, EvalLimits, SettleLimits, FaultLimits DEF Next

\* With one worker, settling a resting limit in steps ends where one walk of the
\* whole tape ends, over any number of ticks, crashes and outages, as long as the
\* klines reach back to its opening (settle_anticipatory_signal, run_settle_pass).
THEOREM LimitsGraded == ASSUME OneWorker PROVE Spec => []AnticGradedByTape
<1>1. Init => TypeInv /\ RecordInv /\ LimitInv
  BY TypeInit, RecordInit, LimitInit
<1>2. TypeInv /\ RecordInv /\ LimitInv /\ [Next]_vars
         => (TypeInv /\ RecordInv /\ LimitInv)'
  BY TypeStep, RecordStep, LimitStep
<1>3. LimitInv => AnticGradedByTape
  BY DEF LimitInv
<1> QED
  BY <1>1, <1>2, <1>3, PTL DEF Spec

-----------------------------------------------------------------------------
(* Resting limits, whatever ticks overlap: the columns a patch sets are    *)
(* facts of the tape, so patches from older snapshots repeat them.         *)

Blank(row) == row.filledAt = None /\ row.closedAt = None
              /\ row.closePrice = None /\ row.resultR = None

NeverTouched(row, maxBars, bars) ==
    \A i \in row.opened + 1 .. row.opened + maxBars :
        i <= Len(bars) /\ ~ TouchesLimit(row.levels, bars[i])

\* The row as a closed one of status st.
Closing(row, st) == Patch(st, row.filledAt, row.closedAt, row.closePrice, row.resultR)

\* A row filled on bar f, with the columns a true walk would give it.  A closed
\* limit may have been set back to filled; its columns are those of its close.
FilledFacts(row, maxBars, bars, f) ==
    /\ row.filledAt = Some(f) /\ FillBar(row, maxBars, bars, f)
    /\ \/ /\ row.status = "filled" /\ row.closedAt = None
          /\ row.closePrice = None /\ row.resultR = None
       \/ \E st \in PositionStatuses, e \in Nat :
              /\ row.status \in {st, "filled"}
              /\ PositionClosed(Closing(row, st), row.levels, maxBars, bars, f, e)

\* The columns of a limit are facts of the tape.
LimitFacts(row, maxBars, bars) ==
    \/ row.status = "pending" /\ Blank(row)
    \/ /\ row.status = "never-filled" /\ NeverTouched(row, maxBars, bars)
       /\ row.filledAt = None /\ row.closePrice = None /\ row.resultR = None
       /\ row.closedAt = Some(row.opened + maxBars + 1)
    \/ \E f \in Nat \ {0} : FilledFacts(row, maxBars, bars, f)

\* What a patch of a limit says of the tape.
PatchFills(p, row, maxBars, bars, f) ==
    /\ FillBar(row, maxBars, bars, f)
    /\ p.filledAt = Some(f) \/ (p.filledAt = None /\ row.filledAt = Some(f))
    /\ \/ p = Patch("filled", Some(f), None, None, None)
       \/ /\ p.status \in PositionStatuses
          /\ \E e \in Nat : PositionClosed(p, row.levels, maxBars, bars, f, e)

PatchFacts(p, row, maxBars, bars) ==
    \/ /\ p = Patch("never-filled", None, Some(row.opened + maxBars + 1), None, None)
       /\ NeverTouched(row, maxBars, bars)
    \/ \E f \in Nat \ {0} : PatchFills(p, row, maxBars, bars, f)

\* A patch from candles that reach back to the opening says facts of the tape.
LEMMA PatchSaysFacts ==
    ASSUME NEW row \in AnticRow, NEW maxBars \in Nat \ {0}, NEW bars \in Seq(Bars),
           NEW candles \in Candles, candles.last <= Len(bars),
           candles.first <= row.opened + 1, LimitFacts(row, maxBars, bars),
           NEW p \in SettleAnticipatory(row, maxBars, bars, candles)
    PROVE  PatchFacts(p, row, maxBars, bars)
<1> DEFINE from == row.opened + 1
           end == from + maxBars - 1
           touches == FillBars(row.levels, bars, from, Lesser(candles.last, end))
<1>1. /\ row.opened \in Nat /\ candles.last \in Nat /\ end = row.opened + maxBars
      /\ FirstBar(row, candles) = from
  BY DEF AnticRow, Rows, Candles, FirstBar, Greater
<1>2. CASE row.status = "pending"
  <2>1. p \in SettlePending(row, maxBars, bars, candles)
    BY <1>2 DEF SettleAnticipatory
  <2>2. CASE \E fill \in First(touches) : p \in FilledPatch(row, maxBars, bars, candles, fill)
    <3>1. PICK fill \in First(touches) : p \in FilledPatch(row, maxBars, bars, candles, fill)
      BY <2>2
    <3>2. FillBar(row, maxBars, bars, fill) /\ fill \in Nat \ {0}
      <4> DEFINE to == Lesser(candles.last, end)
      <4>1. to \in Int /\ to <= candles.last /\ to <= end
        BY <1>1 DEF Lesser
      <4>2. /\ fill \in from .. to /\ TouchesLimit(row.levels, bars[fill])
            /\ \A i \in from .. to : TouchesLimit(row.levels, bars[i]) => fill <= i
        BY <3>1 DEF First, FillBars
      <4> HIDE DEF to
      <4>3. /\ fill \in Nat \ {0} /\ fill <= end /\ fill <= Len(bars)
            /\ fill \in row.opened + 1 .. row.opened + maxBars
        BY <1>1, <4>1, <4>2
      <4>4. \A i \in row.opened + 1 .. fill - 1 : ~ TouchesLimit(row.levels, bars[i])
        BY <1>1, <4>1, <4>2, <4>3
      <4> QED
        BY <4>2, <4>3, <4>4 DEF FillBar
    <3> DEFINE outcome == WalkFilledPosition(row.levels, bars, fill, candles.last, fill, maxBars)
    <3>3. \/ p = Patch("filled", Some(fill), None, None, None)
          \/ \E q \in outcome : p = [q EXCEPT !.filledAt = Some(fill)]
      BY <3>1 DEF FilledPatch, Some
    <3>4. CASE p = Patch("filled", Some(fill), None, None, None)
      <4>1. p.filledAt = Some(fill)
        BY <3>4 DEF Patch
      <4>2. PatchFills(p, row, maxBars, bars, fill)
        BY <3>2, <3>4, <4>1, Zenon DEF PatchFills
      <4> QED
        BY <3>2, <4>2 DEF PatchFacts
    <3>5. CASE \E q \in outcome : p = [q EXCEPT !.filledAt = Some(fill)]
      <4>1. PICK q \in outcome : p = [q EXCEPT !.filledAt = Some(fill)]
        BY <3>5
      <4>2. /\ \E e \in Nat : PositionClosed(q, row.levels, maxBars, bars, fill, e)
            /\ q.status \in PositionStatuses
            /\ q = Patch(q.status, None, q.closedAt, q.closePrice, q.resultR)
        BY <1>1, <3>2, <4>1, WalkCloses
      <4>3. p = Patch(q.status, Some(fill), q.closedAt, q.closePrice, q.resultR)
        BY <4>1, <4>2 DEF Patch
      <4>4. /\ p.status = q.status /\ p.closedAt = q.closedAt
            /\ p.closePrice = q.closePrice /\ p.resultR = q.resultR
            /\ p.filledAt = Some(fill)
        BY <4>3 DEF Patch
      <4>5. \E e \in Nat : PositionClosed(p, row.levels, maxBars, bars, fill, e)
        BY <4>2, <4>4 DEF PositionClosed
      <4>6. p.status \in PositionStatuses /\ p.filledAt = Some(fill)
        BY <4>2, <4>4
      <4>7. PatchFills(p, row, maxBars, bars, fill)
        BY <3>2, <4>5, <4>6, Zenon DEF PatchFills
      <4> QED
        BY <3>2, <4>7 DEF PatchFacts
    <3> QED
      BY <3>3, <3>4, <3>5
  <2>3. CASE /\ touches = {} /\ end <= candles.last
             /\ p = Patch("never-filled", None, Some(end + 1), None, None)
    <3>1. \A i \in from .. end : ~ TouchesLimit(row.levels, bars[i])
      BY <1>1, <2>3 DEF FillBars, Lesser
    <3>2. NeverTouched(row, maxBars, bars)
      BY <1>1, <2>3, <3>1 DEF NeverTouched
    <3>3. end = row.opened + maxBars
      BY <1>1
    <3> HIDE DEF end
    <3> QED
      BY <2>3, <3>2, <3>3 DEF PatchFacts
  <2> QED
    BY <1>1, <2>1, <2>2, <2>3 DEF SettlePending
<1>3. CASE row.status = "filled"
  <2>1. PICK f \in Nat \ {0} : row.filledAt = Some(f) /\ FillBar(row, maxBars, bars, f)
    BY <1>3 DEF LimitFacts, FilledFacts
  <2>2. Greater(candles.first, f) = f
    BY <1>1, <2>1 DEF FillBar, Greater, Candles
  <2>3. p \in WalkFilledPosition(row.levels, bars, f, candles.last, f, maxBars)
    BY <1>3, <2>1, <2>2 DEF SettleAnticipatory, SettleFilled, Some
  <2>4. /\ \E e \in Nat : PositionClosed(p, row.levels, maxBars, bars, f, e)
        /\ p.status \in PositionStatuses /\ p.filledAt = None
    BY <1>1, <2>1, <2>3, WalkCloses
  <2> QED
    BY <2>1, <2>4 DEF PatchFacts, PatchFills
<1>4. row.status \in {"pending", "filled"}
  BY DEF SettleAnticipatory, None
<1> QED
  BY <1>2, <1>3, <1>4

\* A tape fills a limit on one bar, or on none.
LEMMA FillUnique ==
    ASSUME NEW a, NEW b, a.levels = b.levels, a.opened = b.opened, a.opened \in Nat,
           NEW maxBars \in Nat \ {0}, NEW bars, NEW f \in Nat, FillBar(a, maxBars, bars, f)
    PROVE  /\ ~ NeverTouched(b, maxBars, bars)
           /\ \A g \in Nat : FillBar(b, maxBars, bars, g) => f = g
<1>1. ~ NeverTouched(b, maxBars, bars)
  BY DEF NeverTouched, FillBar
<1>2. ASSUME NEW g \in Nat, FillBar(b, maxBars, bars, g) PROVE f = g
  <2>1. ~ (f < g) /\ ~ (g < f)
    BY <1>2 DEF FillBar
  <2> QED
    BY <2>1
<1> QED
  BY <1>1, <1>2

\* A tape closes a filled position in one way.
LEMMA CloseUnique ==
    ASSUME NEW a, NEW b, NEW levels, NEW maxBars \in Nat \ {0}, NEW bars,
           NEW f \in Nat, NEW d \in Nat, NEW e \in Nat,
           a.status \in PositionStatuses, b.status \in PositionStatuses,
           PositionClosed(a, levels, maxBars, bars, f, d),
           PositionClosed(b, levels, maxBars, bars, f, e)
    PROVE  /\ a.status = b.status /\ a.closedAt = b.closedAt
           /\ a.closePrice = b.closePrice /\ a.resultR = b.resultR
<1> DEFINE Status(i) == PositionStatus(levels, bars, f, i)
<1>1. \A i : Status(i) \in {"stopped-out", "objective-hit", "open"}
  BY DEF PositionStatus
<1>2. /\ \A i \in f .. d - 1 : Status(i) = "open"
      /\ \A i \in f .. e - 1 : Status(i) = "open"
      /\ Status(d) = "open" => d = f + maxBars - 1
      /\ Status(e) = "open" => e = f + maxBars - 1
      /\ d \in f .. f + maxBars - 1 /\ e \in f .. f + maxBars - 1
  BY DEF PositionClosed, PositionStatuses
<1> HIDE DEF Status
<1>3. ~ (d < e) /\ ~ (e < d)
  BY <1>2
<1>4. d = e
  BY <1>3
<1> USE DEF Status
<1>5. a.status = b.status
  BY <1>1, <1>4 DEF PositionClosed, PositionStatuses
<1>6. a.closedAt = b.closedAt /\ a.closePrice = b.closePrice /\ a.closePrice # {}
  BY <1>1, <1>4, <1>5 DEF PositionClosed, PositionStatuses, Some
<1>7. a.resultR = b.resultR
  BY <1>6 DEF PositionClosed
<1> QED
  BY <1>5, <1>6, <1>7

\* Two things that are said of one tape agree: a patch that says facts of the
\* tape, from whatever snapshot, adds to the facts of the row and changes none.
LEMMA MergeFacts ==
    ASSUME NEW cur \in AnticRow, NEW row \in AnticRow,
           cur.levels = row.levels, cur.opened = row.opened,
           row.filledAt # None => cur.filledAt = row.filledAt,
           NEW maxBars \in Nat \ {0}, NEW bars \in Seq(Bars), NEW t,
           LimitFacts(cur, maxBars, bars),
           NEW p, PatchFacts(p, row, maxBars, bars)
    PROVE  LET new == PatchRow(cur, p, t)
           IN  /\ LimitFacts(new, maxBars, bars)
               /\ KeepsFacts(cur, new) /\ MayBecome(cur.status, new.status)
<1> DEFINE new == PatchRow(cur, p, t)
<1>1. /\ new.levels = cur.levels /\ new.opened = cur.opened /\ new.status = p.status
      /\ new.filledAt = Coalesce(p.filledAt, cur.filledAt)
      /\ new.closedAt = Coalesce(p.closedAt, cur.closedAt)
      /\ new.closePrice = Coalesce(p.closePrice, cur.closePrice)
      /\ new.resultR = Coalesce(p.resultR, cur.resultR)
  BY DEF PatchRow, AnticRow, Rows
<1> HIDE DEF new
<1>2. cur.opened \in Nat
  BY DEF AnticRow, Rows
<1>3. \A f \in Nat : FillBar(cur, maxBars, bars, f) <=> FillBar(row, maxBars, bars, f)
  BY DEF FillBar
<1>4. CASE /\ p = Patch("never-filled", None, Some(row.opened + maxBars + 1), None, None)
           /\ NeverTouched(row, maxBars, bars)
  <2>1. \A f \in Nat : ~ FillBar(cur, maxBars, bars, f)
    BY <1>2, <1>4, FillUnique
  <2>2. /\ cur.filledAt = None /\ cur.closePrice = None /\ cur.resultR = None
        /\ \/ cur.status = "pending" /\ cur.closedAt = None
           \/ /\ cur.status = "never-filled"
              /\ cur.closedAt = Some(row.opened + maxBars + 1)
    BY <2>1 DEF LimitFacts, FilledFacts, Blank
  <2>3. /\ new.status = "never-filled" /\ new.filledAt = None
        /\ new.closePrice = None /\ new.resultR = None
        /\ new.closedAt = Some(new.opened + maxBars + 1)
    BY <1>1, <1>4, <2>2 DEF Patch, Coalesce, Some, None
  <2>4. NeverTouched(new, maxBars, bars)
    BY <1>1, <1>4 DEF NeverTouched
  <2>5. LimitFacts(new, maxBars, bars)
    BY <2>3, <2>4 DEF LimitFacts
  <2>6. KeepsFacts(cur, new)
    BY <1>1, <2>2, <2>3 DEF KeepsFacts
  <2>7. MayBecome(cur.status, new.status)
    BY <2>2, <2>3 DEF MayBecome
  <2> QED
    BY <2>5, <2>6, <2>7 DEF new
<1>5. CASE \E f \in Nat \ {0} : PatchFills(p, row, maxBars, bars, f)
  <2>1. PICK f \in Nat \ {0} : PatchFills(p, row, maxBars, bars, f)
    BY <1>5
  <2>2. FillBar(row, maxBars, bars, f) /\ FillBar(cur, maxBars, bars, f)
    BY <1>3, <2>1 DEF PatchFills
  <2>3. FillBar(new, maxBars, bars, f)
    BY <1>1, <2>2 DEF FillBar
  <2>4. \/ cur.status = "pending" /\ Blank(cur)
        \/ FilledFacts(cur, maxBars, bars, f)
    <3>1. ~ NeverTouched(cur, maxBars, bars)
      BY <1>2, <2>2, FillUnique
    <3>2. CASE \E g \in Nat \ {0} : FilledFacts(cur, maxBars, bars, g)
      <4>1. PICK g \in Nat \ {0} : FilledFacts(cur, maxBars, bars, g)
        BY <3>2
      <4>2. FillBar(cur, maxBars, bars, g)
        BY <4>1 DEF FilledFacts
      <4>3. f = g
        BY <1>2, <2>2, <4>2, FillUnique
      <4> QED
        BY <4>1, <4>3
    <3>3. CASE cur.status = "pending" /\ Blank(cur)
      BY <3>3
    <3> QED
      BY <3>1, <3>2, <3>3 DEF LimitFacts
  <2>5. new.filledAt = Some(f) /\ cur.filledAt \in {None, Some(f)}
    <3>1. cur.filledAt \in {None, Some(f)}
      BY <2>4 DEF Blank, FilledFacts
    <3>2. p.filledAt = Some(f) \/ (p.filledAt = None /\ cur.filledAt = Some(f))
      BY <2>1 DEF PatchFills, Some, None
    <3> QED
      BY <1>1, <3>1, <3>2 DEF Coalesce, Some, None
  <2>6. CASE p = Patch("filled", Some(f), None, None, None)
    <3>1. /\ new.status = "filled" /\ new.closedAt = cur.closedAt
          /\ new.closePrice = cur.closePrice /\ new.resultR = cur.resultR
      BY <1>1, <2>6 DEF Patch, Coalesce
    <3>2. FilledFacts(new, maxBars, bars, f)
      <4>1. CASE cur.closedAt = None /\ cur.closePrice = None /\ cur.resultR = None
        BY <2>3, <2>5, <3>1, <4>1 DEF FilledFacts
      <4>2. CASE \E st \in PositionStatuses, e \in Nat :
                    /\ FilledFacts(cur, maxBars, bars, f)
                    /\ PositionClosed(Closing(cur, st), cur.levels, maxBars, bars, f, e)
        <5>1. PICK st \in PositionStatuses, e \in Nat :
                    /\ FilledFacts(cur, maxBars, bars, f)
                    /\ PositionClosed(Closing(cur, st), cur.levels, maxBars, bars, f, e)
          BY <4>2
        <5>2. Closing(new, st) = Closing(cur, st)
          BY <2>5, <3>1, <5>1 DEF Closing, FilledFacts
        <5>3. PositionClosed(Closing(new, st), new.levels, maxBars, bars, f, e)
          BY <1>1, <5>1, <5>2
        <5> QED
          BY <2>3, <2>5, <3>1, <5>3 DEF FilledFacts
      <4> QED
        BY <2>4, <4>1, <4>2 DEF FilledFacts, Blank
    <3>3. KeepsFacts(cur, new)
      BY <2>5, <3>1 DEF KeepsFacts
    <3>4. MayBecome(cur.status, new.status)
      BY <2>4, <3>1 DEF MayBecome, FilledFacts, PositionStatuses
    <3> QED
      BY <3>2, <3>3, <3>4 DEF LimitFacts, new
  <2>7. CASE /\ p.status \in PositionStatuses
             /\ \E e \in Nat : PositionClosed(p, row.levels, maxBars, bars, f, e)
    <3>1. PICK e \in Nat : PositionClosed(p, row.levels, maxBars, bars, f, e)
      BY <2>7
    <3>2. /\ p.closedAt # None /\ p.closePrice # None
          /\ \E x : p.resultR = Some(x)
      BY <3>1 DEF PositionClosed, Some, None
    <3>3. /\ new.status = p.status /\ new.closedAt = p.closedAt
          /\ new.closePrice = p.closePrice /\ new.resultR = p.resultR
      BY <1>1, <3>2 DEF Coalesce, Some, None
    <3>4. PositionClosed(Closing(new, p.status), new.levels, maxBars, bars, f, e)
      <4>1. /\ Closing(new, p.status).status = p.status
            /\ Closing(new, p.status).closedAt = p.closedAt
            /\ Closing(new, p.status).closePrice = p.closePrice
            /\ Closing(new, p.status).resultR = p.resultR
        BY <3>3 DEF Closing, Patch
      <4> QED
        BY <1>1, <3>1, <4>1 DEF PositionClosed
    <3>5. FilledFacts(new, maxBars, bars, f)
      BY <2>3, <2>5, <2>7, <3>3, <3>4 DEF FilledFacts
    <3>6. \/ cur.status \in {"pending", "filled"} /\ cur.closedAt = None
             /\ cur.closePrice = None /\ cur.resultR = None
          \/ /\ cur.status \in {p.status, "filled"} /\ cur.closedAt = p.closedAt
             /\ cur.closePrice = p.closePrice /\ cur.resultR = p.resultR
      <4>1. CASE \E st \in PositionStatuses, d \in Nat :
                    /\ cur.status \in {st, "filled"}
                    /\ PositionClosed(Closing(cur, st), cur.levels, maxBars, bars, f, d)
        <5>1. PICK st \in PositionStatuses, d \in Nat :
                    /\ cur.status \in {st, "filled"}
                    /\ PositionClosed(Closing(cur, st), cur.levels, maxBars, bars, f, d)
          BY <4>1
        <5> DEFINE old == Closing(cur, st)
        <5>2. /\ old.status = st /\ old.closedAt = cur.closedAt
              /\ old.closePrice = cur.closePrice /\ old.resultR = cur.resultR
          BY DEF Closing, Patch
        <5>3. PositionClosed(old, row.levels, maxBars, bars, f, d)
          BY <5>1
        <5> HIDE DEF old
        <5>4. /\ old.status = p.status /\ old.closedAt = p.closedAt
              /\ old.closePrice = p.closePrice /\ old.resultR = p.resultR
          BY <2>7, <3>1, <5>2, <5>3, CloseUnique
        <5> QED
          BY <5>1, <5>2, <5>4
      <4> QED
        BY <2>4, <4>1 DEF FilledFacts, Blank
    <3>7. KeepsFacts(cur, new)
      BY <2>5, <3>3, <3>6 DEF KeepsFacts
    <3>8. MayBecome(cur.status, new.status)
      BY <2>7, <3>3, <3>6 DEF MayBecome, PositionStatuses
    <3> QED
      BY <3>5, <3>7, <3>8 DEF LimitFacts, new
  <2> QED
    BY <2>1, <2>6, <2>7 DEF PatchFills
<1> QED
  BY <1>4, <1>5 DEF PatchFacts

\* What a tape says of a limit it says for good.
LEMMA LimitFactsStable ==
    ASSUME NEW row \in AnticRow, NEW maxBars \in Nat \ {0}, NEW bars \in Seq(Bars),
           NEW bar \in Bars, LimitFacts(row, maxBars, bars)
    PROVE  LimitFacts(row, maxBars, Append(bars, bar))
<1> DEFINE longer == Append(bars, bar)
<1>1. row.opened \in Nat
  BY DEF AnticRow, Rows
<1>2. Len(longer) = Len(bars) + 1 /\ \A i \in 1 .. Len(bars) : longer[i] = bars[i]
  OBVIOUS
<1>3. Len(bars) \in Nat
  OBVIOUS
<1> HIDE DEF longer
<1>4. NeverTouched(row, maxBars, bars) => NeverTouched(row, maxBars, longer)
  BY <1>1, <1>2, <1>3 DEF NeverTouched
<1>5. ASSUME NEW f \in Nat \ {0}, FilledFacts(row, maxBars, bars, f)
      PROVE  FilledFacts(row, maxBars, longer, f)
  <2>1. FillBar(row, maxBars, longer, f)
    BY SMTT(60), <1>1, <1>2, <1>3, <1>5 DEF FilledFacts, FillBar
  <2>2. ASSUME NEW st, NEW e \in Nat,
               PositionClosed(Closing(row, st), row.levels, maxBars, bars, f, e)
        PROVE  PositionClosed(Closing(row, st), row.levels, maxBars, longer, f, e)
    <3> DEFINE q == Closing(row, st)
    <3>1. e <= Len(bars)
      BY <2>2 DEF PositionClosed
    <3>2. \A i \in f .. e : /\ longer[i] = bars[i]
                            /\ PositionStatus(row.levels, longer, f, i)
                                  = PositionStatus(row.levels, bars, f, i)
      BY <1>2, <1>3, <3>1 DEF PositionStatus
    <3> HIDE DEF q
    <3>3. PositionClosed(q, row.levels, maxBars, bars, f, e)
      BY <2>2 DEF q
    <3>4. PositionClosed(q, row.levels, maxBars, longer, f, e)
      BY <1>2, <1>3, <3>1, <3>2, <3>3 DEF PositionClosed
    <3> QED
      BY <3>4 DEF q
  <2> QED
    BY <1>5, <2>1, <2>2 DEF FilledFacts
<1>6. LimitFacts(row, maxBars, longer)
  BY <1>4, <1>5 DEF LimitFacts
<1> QED
  BY <1>6 DEF longer

\* No kline window of the row has met the fetch ceiling yet.
Young(row) == now - row.opened <= FetchLimit

FactsOf(row) == LimitFacts(row, MaxBars[row.key[3]], tape[row.key])

\* The facts of the table, and of every snapshot, which the table has kept.
TableFacts == \A i \in DOMAIN antic : Young(antic[i]) => FactsOf(antic[i])
SnapFacts ==
    \A w \in Workers : \A r \in snap[w] : r.kind = "antic" /\ Young(r.row) =>
        FactsOf(r.row) /\ KeepsFacts(r.row, antic[r.id])

FactInv == LimitDrafts /\ TableFacts /\ SnapFacts

\* The row of a snapshot, and the row it was listed from.
LEMMA AnticItem ==
    ASSUME TypeOK, RecordInv, NEW w \in Workers, NEW r \in snap[w], r.kind = "antic"
    PROVE  /\ r.id \in DOMAIN antic /\ r.row \in AnticRow /\ antic[r.id] \in AnticRow
           /\ SameColumns(r.row, antic[r.id])
           /\ r.row.key \in Key /\ r.row.opened \in Nat
           /\ MaxBars[r.row.key[3]] \in Nat \ {0} /\ tape[r.row.key] \in Seq(Bars)
<1>1. r \in SnapItem
  BY DEF TypeOK
<1>2. r.id \in DOMAIN antic /\ r.row \in AnticRow
  BY <1>1 DEF SnapItem, SnapOf
<1>3. SameColumns(r.row, antic[r.id])
  BY DEF RecordInv, PassUsable, SnapshotsAgree, TableOf, SameColumns
<1>4. r.row.key \in Key /\ r.row.opened \in Nat
  BY <1>2 DEF AnticRow, Rows
<1>5. MaxBars[r.row.key[3]] \in Nat \ {0} /\ tape[r.row.key] \in Seq(Bars)
  BY <1>4, BoundAssumption DEF Key, TypeOK
<1> QED
  BY <1>2, <1>3, <1>4, <1>5 DEF TypeOK

\* Steps that touch no limit and take on no draft and no snapshot.
FactsAside == UNCHANGED <<now, tape, antic>> /\ SnapShrinks /\ LimitDraftsShrink

LEMMA AsideFacts ==
    ASSUME FactInv, FactsAside
    PROVE  FactInv'
<1>1. LimitDrafts'
  BY DEF FactInv, FactsAside, LimitDrafts, LimitDraftsShrink
<1>2. TableFacts'
  BY DEF FactInv, FactsAside, TableFacts, Young, FactsOf
<1>3. SnapFacts'
  BY DEF FactInv, FactsAside, SnapFacts, Young, FactsOf, SnapShrinks
<1> QED
  BY <1>1, <1>2, <1>3 DEF FactInv

LEMMA AsideSteps ==
    ASSUME TypeOK, NEW w \in Workers, EvalStep(w) \/ SettleStep(w) \/ FaultStep(w),
           ~ OpenAnticipatory(w), ~ AssessSymbol(w), ~ ListOpen(w), ~ SettleRecord(w)
    PROVE  FactsAside
<1>1. CASE SkipSymbol(w) \/ EndSymbol(w) \/ EvalFails(w)
  <2>1. NextSymbol(w) /\ UNCHANGED <<now, tape, antic, snap>>
    BY <1>1 DEF SkipSymbol, EndSymbol, EvalFails, market, tables
  <2> QED
    BY <2>1 DEF FactsAside, SnapShrinks, NextSymbol, LimitDraftsShrink, NoOutput, TypeOK
<1>2. CASE PatchConflicts(w) \/ TickFails(w) \/ KlinesUnparsable(w) \/ Crash(w)
  <2>1. /\ AbortTick(w, "failed") \/ AbortTick(w, "idle")
        /\ UNCHANGED <<now, tape, antic>>
    BY <1>2 DEF PatchConflicts, TickFails, KlinesUnparsable, Crash, market, tables
  <2> QED
    BY <2>1, AbortDrafts, AbortNarrows DEF FactsAside
<1>3. CASE StartTick(w) \/ LoadComboStats(w) \/ UpsertHolds(w) \/ FetchGroup(w)
           \/ EndGroup(w) \/ FinishRun(w) \/ FinishError(w)
  <2>1. UNCHANGED <<now, tape, antic, snap, out>>
    BY <1>3 DEF StartTick, LoadComboStats, UpsertHolds, FetchGroup, EndGroup, FinishRun,
                FinishError, market, tables, locals
  <2> QED
    BY <2>1 DEF FactsAside, SnapShrinks, LimitDraftsShrink
<1>4. CASE OpenShadow(w)
  <2>1. UNCHANGED <<now, tape, antic, snap>>
    BY <1>4 DEF OpenShadow, market
  <2>2. PICK d \in out[w].shadow : out' = [out EXCEPT ![w].shadow = @ \ {d}]
    BY <1>4 DEF OpenShadow
  <2> QED
    BY <2>1, <2>2 DEF FactsAside, SnapShrinks, LimitDraftsShrink, TypeOK, Output
<1>5. CASE FeedDown(w)
  <2>1. UNCHANGED <<now, tape, antic, out>>
    BY <1>5 DEF FeedDown, market, tables
  <2>2. SnapShrinks
    BY <1>5 DEF FeedDown, SnapShrinks, TypeOK
  <2> QED
    BY <2>1, <2>2 DEF FactsAside, LimitDraftsShrink
<1> QED
  BY <1>1, <1>2, <1>3, <1>4, <1>5 DEF EvalStep, SettleStep, FaultStep

LEMMA CloseBarFacts ==
    ASSUME TypeOK, RecordInv, FactInv, CloseBar
    PROVE  FactInv'
<1>1. PICK bar \in [Key -> Bars] : tape' = [k \in Key |-> Append(tape[k], bar[k])]
  BY DEF CloseBar
<1>2. UNCHANGED <<antic, snap, out>> /\ now' = now + 1 /\ now \in Nat
  BY DEF CloseBar, tables, locals, TypeOK
<1>3. ASSUME NEW row \in AnticRow, Young(row)', Young(row) => FactsOf(row)
      PROVE  FactsOf(row)'
  <2>1. row.key \in Key /\ row.opened \in Nat
    BY DEF AnticRow, Rows
  <2>2. Young(row)
    BY <1>2, <1>3, <2>1, BoundAssumption DEF Young
  <2>3. LimitFacts(row, MaxBars[row.key[3]], tape[row.key])
    BY <1>3, <2>2 DEF FactsOf
  <2> DEFINE key == row.key
  <2>4. /\ MaxBars[key[3]] \in Nat \ {0} /\ tape[key] \in Seq(Bars) /\ bar[key] \in Bars
        /\ tape'[key] = Append(tape[key], bar[key])
    BY <1>1, <2>1, BoundAssumption DEF Key, TypeOK
  <2> HIDE DEF key
  <2>5. LimitFacts(row, MaxBars[key[3]], tape'[key])
    BY <2>3, <2>4, LimitFactsStable DEF key
  <2> QED
    BY <2>5 DEF FactsOf, key
<1>4. TableFacts'
  <2> SUFFICES ASSUME NEW i \in DOMAIN antic, Young(antic[i])'
               PROVE  FactsOf(antic[i])'
    BY <1>2 DEF TableFacts
  <2>1. antic[i] \in AnticRow
    BY DEF TypeOK
  <2>2. Young(antic[i]) => FactsOf(antic[i])
    BY DEF FactInv, TableFacts
  <2> DEFINE row == antic[i]
  <2>3. row \in AnticRow /\ Young(row)' /\ (Young(row) => FactsOf(row)) /\ row' = row
    BY <1>2, <2>1, <2>2
  <2> QED
    BY <1>2, <1>3, <2>3 DEF Young, FactsOf
<1>5. SnapFacts'
  <2> SUFFICES ASSUME NEW w \in Workers, NEW r \in snap[w], r.kind = "antic", Young(r.row)'
               PROVE  FactsOf(r.row)' /\ KeepsFacts(r.row, antic[r.id])
    BY <1>2 DEF SnapFacts
  <2>1. r.row \in AnticRow /\ r.row.opened \in Nat
    BY AnticItem
  <2>2. Young(r.row)
    BY <1>2, <2>1, BoundAssumption DEF Young
  <2>3. FactsOf(r.row) /\ KeepsFacts(r.row, antic[r.id])
    BY <2>2 DEF FactInv, SnapFacts
  <2> QED
    BY <1>3, <2>1, <2>3
<1>6. LimitDrafts'
  BY <1>2 DEF FactInv, LimitDrafts
<1> QED
  BY <1>4, <1>5, <1>6 DEF FactInv

LEMMA OpenAnticipatoryFacts ==
    ASSUME TypeOK, RecordInv, FactInv, NEW w \in Workers, OpenAnticipatory(w)
    PROVE  FactInv'
<1>1. UNCHANGED <<now, tape, snap>>
  BY DEF OpenAnticipatory, market
<1>2. PICK d \in out[w].antic : /\ antic' = Insert(antic, d)
                                /\ out' = [out EXCEPT ![w].antic = @ \ {d}]
  BY DEF OpenAnticipatory
<1>3. d \in AnticRow /\ antic \in Seq(AnticRow) /\ FreshLimit(d)
  BY <1>2 DEF TypeOK, Output, FactInv, LimitDrafts
<1>4. LimitDrafts'
  BY <1>2 DEF FactInv, LimitDrafts, TypeOK, Output
<1>5. TableFacts'
  <2>1. \A maxBars, bars : LimitFacts(d, maxBars, bars)
    BY <1>3 DEF FreshLimit, LimitFacts, Blank
  <2>2. \A i \in DOMAIN antic' : \/ i \in DOMAIN antic /\ antic'[i] = antic[i]
                                 \/ antic'[i] = d
    BY <1>2, <1>3, AppendGrows
  <2> QED
    BY <1>1, <2>1, <2>2 DEF FactInv, TableFacts, Young, FactsOf
<1>6. SnapFacts'
  <2>1. \A v \in Workers : \A r \in snap[v] : r.kind = "antic" => antic'[r.id] = antic[r.id]
    BY <1>2, <1>3, AnticItem, InsertKeeps
  <2> QED
    BY <1>1, <2>1 DEF FactInv, SnapFacts, Young, FactsOf
<1> QED
  BY <1>4, <1>5, <1>6 DEF FactInv

LEMMA ListOpenFacts ==
    ASSUME TypeOK, FactInv, NEW w \in Workers, ListOpen(w)
    PROVE  FactInv'
<1>1. UNCHANGED <<now, tape, antic, out>>
  BY DEF ListOpen, market, tables
<1>2. snap' = [snap EXCEPT ![w] = OpenRecords("shadow", shadow)
                                  \cup OpenRecords("antic", antic)
                                  \cup OpenRecords("tracked", tracked)]
  BY DEF ListOpen
<1>3. LimitDrafts' /\ TableFacts'
  BY <1>1 DEF FactInv, LimitDrafts, TableFacts, Young, FactsOf
<1>4. SnapFacts'
  <2> SUFFICES ASSUME NEW v \in Workers, NEW r \in snap'[v], r.kind = "antic", Young(r.row)
               PROVE  FactsOf(r.row) /\ KeepsFacts(r.row, antic[r.id])
    BY <1>1 DEF SnapFacts, Young, FactsOf
  <2>1. CASE r \in snap[v]
    BY <2>1 DEF FactInv, SnapFacts
  <2>2. CASE r \notin snap[v]
    <3>1. r \in OpenRecords("antic", antic)
      BY <1>2, <2>2 DEF OpenRecords, TypeOK
    <3>2. r.id \in DOMAIN antic /\ r.row = antic[r.id]
      BY <3>1 DEF OpenRecords
    <3> QED
      BY <3>2 DEF FactInv, TableFacts, KeepsFacts
  <2> QED
    BY <2>1, <2>2
<1> QED
  BY <1>3, <1>4 DEF FactInv

\* A settle step that writes a limit, whatever others wrote since it was listed.
LEMMA LimitPatch ==
    ASSUME TypeInv, RecordInv, NEW w \in Workers, SettleRecord(w), antic' # antic
    PROVE  \E r \in snap[w], p \in RowPatch(AnticStatus) :
              /\ p \in SettlePatch(r, window[w]) /\ r.row.key \in group[w]
              /\ r.kind = "antic" /\ pc[w] = "patch"
              /\ antic'[r.id] = PatchRow(antic[r.id], p, window[w].last + 1)
              /\ DOMAIN antic' = DOMAIN antic
              /\ \A j \in DOMAIN antic : j # r.id => antic'[j] = antic[j]
<1> USE DEF TypeInv
<1>1. PICK k \in group[w], r \in snap[w] :
          /\ NextRecord(r, InGroup(k, snap[w]))
          /\ \/ \E p \in SettlePatch(r, window[w]) : PatchRecord(r, p, window[w])
             \/ UNCHANGED <<shadow, antic, tracked>>
  BY DEF SettleRecord
<1>2. PICK p \in SettlePatch(r, window[w]) : PatchRecord(r, p, window[w])
  BY <1>1
<1>3. r.kind = "antic" /\ antic' = Patched(antic, r, p, window[w])
  BY <1>2 DEF PatchRecord
<1>4. /\ r.id \in DOMAIN antic /\ p \in RowPatch(AnticStatus) /\ r.row \in AnticRow
      /\ window[w] \in Candles
  BY <1>3, SettlePatchType DEF TypeOK, Candles
<1>5. /\ DOMAIN antic' = DOMAIN antic
      /\ \A j \in DOMAIN antic : j # r.id => antic'[j] = antic[j]
  BY <1>3, <1>4, PatchedType DEF TypeOK, AnticRow
<1>6. antic'[r.id] = PatchRow(antic[r.id], p, window[w].last + 1)
  <2>1. antic[r.id] \in AnticRow /\ antic \in Seq(AnticRow)
    BY <1>4 DEF TypeOK
  <2>2. antic[r.id].status # "deleted"
    BY <2>1 DEF AnticRow, Rows, AnticStatus
  <2> QED
    BY <1>3, <1>4, <2>1, <2>2 DEF Patched
<1>7. pc[w] = "patch" /\ r.row.key \in group[w]
  BY <1>1 DEF SettleRecord, NextRecord, InGroup
<1> QED
  BY <1>3, <1>4, <1>5, <1>6, <1>7

\* What such a step does to the row it writes.
LEMMA LimitPatchFacts ==
    ASSUME TypeInv, RecordInv, FactInv, NEW w \in Workers, pc[w] = "patch",
           NEW r \in snap[w], r.row.key \in group[w], r.kind = "antic",
           NEW p \in SettlePatch(r, window[w]), Young(antic[r.id])
    PROVE  LET new == PatchRow(antic[r.id], p, window[w].last + 1)
           IN  /\ FactsOf(new) /\ KeepsFacts(antic[r.id], new)
               /\ MayBecome(antic[r.id].status, new.status)
<1> USE DEF TypeInv
<1> DEFINE key == r.row.key
           cur == antic[r.id]
           new == PatchRow(cur, p, window[w].last + 1)
<1>1. /\ r.id \in DOMAIN antic /\ r.row \in AnticRow /\ cur \in AnticRow
      /\ SameColumns(r.row, cur) /\ key \in Key /\ r.row.opened \in Nat
      /\ MaxBars[key[3]] \in Nat \ {0} /\ tape[key] \in Seq(Bars)
  BY AnticItem
<1>2. cur.key = key /\ cur.levels = r.row.levels /\ cur.opened = r.row.opened
  BY <1>1 DEF SameColumns
<1>3. /\ window[w] \in Candles /\ window[w].last + 1 \in Nat
      /\ window[w].last <= Len(tape[key])
      /\ window[w].last + 1 - r.row.opened <= FetchLimit
            => window[w].first <= r.row.opened + 1
  <2>1. r \in InGroup(key, snap[w])
    BY DEF InGroup
  <2> QED
    BY <2>1, RecordReady
<1>4. window[w].first <= r.row.opened + 1
  <2>1. window[w].last < now /\ now \in Nat
    BY DEF WindowsClosed, TypeOK
  <2>2. now - r.row.opened <= FetchLimit
    BY <1>2 DEF Young
  <2>3. window[w].last + 1 - r.row.opened <= FetchLimit
    BY SMTT(30), <1>1, <1>3, <2>1, <2>2, BoundAssumption DEF Candles
  <2> QED
    BY <1>3, <2>3
<1>5. FactsOf(r.row) /\ KeepsFacts(r.row, cur) /\ FactsOf(cur)
  <2>1. Young(r.row)
    BY <1>2 DEF Young
  <2> QED
    BY <1>1, <2>1 DEF FactInv, SnapFacts, TableFacts
<1>6. p \in SettleAnticipatory(r.row, MaxBars[key[3]], tape[key], window[w])
  BY DEF SettlePatch
<1>7. /\ LimitFacts(r.row, MaxBars[key[3]], tape[key])
      /\ LimitFacts(cur, MaxBars[key[3]], tape[key])
  BY <1>2, <1>5 DEF FactsOf
<1>8. r.row.filledAt # None => cur.filledAt = r.row.filledAt
  BY <1>5 DEF KeepsFacts
<1> HIDE DEF key, cur
<1>9. PatchFacts(p, r.row, MaxBars[key[3]], tape[key])
  BY <1>1, <1>3, <1>4, <1>6, <1>7, PatchSaysFacts
<1>10. /\ LimitFacts(new, MaxBars[key[3]], tape[key])
       /\ KeepsFacts(cur, new) /\ MayBecome(cur.status, new.status)
  BY <1>1, <1>2, <1>7, <1>8, <1>9, MergeFacts
<1>11. new.key = key
  BY <1>1, <1>2 DEF PatchRow, AnticRow, Rows
<1> QED
  BY <1>10, <1>11 DEF FactsOf, cur

LEMMA SettleRecordFacts ==
    ASSUME TypeInv, RecordInv, FactInv, NEW w \in Workers, SettleRecord(w)
    PROVE  FactInv'
<1> USE DEF TypeInv
<1>1. UNCHANGED <<now, tape, out>>
  BY DEF SettleRecord, market
<1>2. SnapShrinks
  BY DEF SettleRecord, SnapShrinks, TypeOK
<1>3. CASE antic' = antic
  BY <1>1, <1>2, <1>3, AsideFacts DEF FactsAside, LimitDraftsShrink
<1>4. CASE antic' # antic
  <2>1. PICK r \in snap[w], p \in RowPatch(AnticStatus) :
              /\ p \in SettlePatch(r, window[w]) /\ r.row.key \in group[w]
              /\ r.kind = "antic" /\ pc[w] = "patch"
              /\ antic'[r.id] = PatchRow(antic[r.id], p, window[w].last + 1)
              /\ DOMAIN antic' = DOMAIN antic
              /\ \A j \in DOMAIN antic : j # r.id => antic'[j] = antic[j]
    BY <1>4, LimitPatch
  <2>2. r.id \in DOMAIN antic /\ antic[r.id] \in AnticRow
    BY <2>1, AnticItem
  <2>3. antic'[r.id].opened = antic[r.id].opened
    BY <2>1, <2>2 DEF PatchRow, AnticRow, Rows
  <2>4. Young(antic[r.id]) => /\ FactsOf(antic'[r.id])
                              /\ KeepsFacts(antic[r.id], antic'[r.id])
    BY <2>1, LimitPatchFacts
  <2>5. TableFacts'
    <3> SUFFICES ASSUME NEW i \in DOMAIN antic, Young(antic'[i])
                 PROVE  FactsOf(antic'[i])
      BY <1>1, <2>1 DEF TableFacts, Young, FactsOf
    <3>1. CASE i = r.id
      BY <2>3, <2>4, <3>1 DEF Young
    <3>2. CASE i # r.id
      BY <2>1, <3>2 DEF FactInv, TableFacts
    <3> QED
      BY <3>1, <3>2
  <2>6. SnapFacts'
    <3> SUFFICES ASSUME NEW v \in Workers, NEW q \in snap'[v], q.kind = "antic", Young(q.row)
                 PROVE  FactsOf(q.row) /\ KeepsFacts(q.row, antic'[q.id])
      BY <1>1 DEF SnapFacts, Young, FactsOf
    <3>1. q \in snap[v]
      BY <1>2 DEF SnapShrinks
    <3>2. FactsOf(q.row) /\ KeepsFacts(q.row, antic[q.id])
      BY <3>1 DEF FactInv, SnapFacts
    <3>3. q.id \in DOMAIN antic /\ q.row.opened = antic[q.id].opened
      BY <3>1, AnticItem DEF SameColumns
    <3>4. KeepsFacts(antic[q.id], antic'[q.id])
      <4>1. CASE q.id = r.id
        BY <2>4, <3>3, <4>1 DEF Young
      <4>2. CASE q.id # r.id
        BY <2>1, <3>3, <4>2 DEF KeepsFacts
      <4> QED
        BY <4>1, <4>2
    <3> QED
      BY <3>2, <3>4 DEF KeepsFacts
  <2>7. LimitDrafts'
    BY <1>1 DEF FactInv, LimitDrafts
  <2> QED
    BY <2>5, <2>6, <2>7 DEF FactInv
<1> QED
  BY <1>3, <1>4

LEMMA AssessFacts ==
    ASSUME TypeOK, FactInv, NEW w \in Workers, AssessSymbol(w)
    PROVE  FactInv'
<1>1. UNCHANGED <<now, tape, antic, snap>>
  BY DEF AssessSymbol, market, tables
<1>2. PICK fresh \in [Intents -> Assessments], late \in [Intents -> BOOLEAN] :
          out' = [out EXCEPT ![w] = EvaluateSymbol(at[w], fresh, late, demoted[w])]
  BY DEF AssessSymbol
<1>3. \A d \in out'[w].antic : FreshLimit(d)
  BY <1>2, LimitDraftRests DEF TypeOK
<1>4. LimitDrafts'
  BY <1>2, <1>3 DEF FactInv, LimitDrafts, TypeOK
<1> QED
  BY <1>1, <1>4 DEF FactInv, TableFacts, SnapFacts, Young, FactsOf

LEMMA FactInit == Init => FactInv
BY DEF Init, FactInv, LimitDrafts, TableFacts, SnapFacts, NoOutput

LEMMA FactStep == TypeInv /\ RecordInv /\ FactInv /\ [Next]_vars => FactInv'
<1> SUFFICES ASSUME TypeInv, RecordInv, FactInv, [Next]_vars PROVE FactInv'
  OBVIOUS
<1>1. CASE UNCHANGED vars \/ FollowTracked \/ DeleteTracked
  <2>1. UNCHANGED <<now, tape, antic, snap, out>>
    BY <1>1 DEF vars, FollowTracked, DeleteTracked, market, locals
  <2> QED
    BY <2>1, AsideFacts DEF FactsAside, SnapShrinks, LimitDraftsShrink
<1>2. ASSUME NEW w \in Workers, EvalStep(w) \/ SettleStep(w) \/ FaultStep(w)
      PROVE  FactInv'
  BY <1>2, AsideSteps, AsideFacts, OpenAnticipatoryFacts, AssessFacts, ListOpenFacts,
     SettleRecordFacts DEF TypeInv
<1> QED
  BY <1>1, <1>2, CloseBarFacts DEF Next, TypeInv

\* The step that writes a limit keeps its facts.
LEMMA FactsStand ==
    ASSUME TypeInv, RecordInv, FactInv, [Next]_vars,
           NEW i \in DOMAIN antic, Young(antic[i])
    PROVE  KeepsFacts(antic[i], antic'[i]) /\ MayBecome(antic[i].status, antic'[i].status)
<1> USE DEF TypeInv
<1>1. CASE antic'[i] = antic[i]
  BY <1>1 DEF KeepsFacts, MayBecome
<1>2. CASE antic'[i] # antic[i]
  <2>1. ~ UNCHANGED antic
    BY <1>2
  <2>2. PICK w \in Workers : SettleRecord(w) \/ OpenAnticipatory(w)
    BY <2>1 DEF Next, EvalStep, SettleStep, FaultStep, CloseBar, FollowTracked,
        DeleteTracked, StartTick, LoadComboStats, AssessSymbol, SkipSymbol, UpsertHolds,
        OpenShadow, EndSymbol, ListOpen, FetchGroup, PatchConflicts, EndGroup,
        FinishRun, FinishError, EvalFails, FeedDown, TickFails, KlinesUnparsable, Crash,
        tables, vars
  <2>3. ASSUME OpenAnticipatory(w) PROVE FALSE
    <3>1. PICK d \in out[w].antic : antic' = Insert(antic, d)
      BY <2>3 DEF OpenAnticipatory
    <3>2. d \in AnticRow /\ antic \in Seq(AnticRow)
      BY <3>1 DEF TypeOK, Output
    <3> QED
      BY <1>2, <3>1, <3>2, InsertKeeps
  <2>4. PICK r \in snap[w], p \in RowPatch(AnticStatus) :
              /\ p \in SettlePatch(r, window[w]) /\ r.row.key \in group[w]
              /\ r.kind = "antic" /\ pc[w] = "patch"
              /\ antic'[r.id] = PatchRow(antic[r.id], p, window[w].last + 1)
              /\ DOMAIN antic' = DOMAIN antic
              /\ \A j \in DOMAIN antic : j # r.id => antic'[j] = antic[j]
    BY <2>1, <2>2, <2>3, LimitPatch
  <2>5. r.id = i
    BY <1>2, <2>4
  <2> QED
    BY <2>4, <2>5, LimitPatchFacts
<1> QED
  BY <1>1, <1>2

\* However many ticks overlap, a stale patch repeats the facts of a limit: its fill
\* bar and its outcome stay as first recorded, and what it sets back to filled can
\* only close again as it closed, while the klines reach back to the opening
\* (settle_anticipatory_signal, patch_anticipatory).
THEOREM LimitFactsKept == Spec => LimitFactsStand
<1>1. Init => TypeInv /\ RecordInv /\ FactInv
  BY TypeInit, RecordInit, FactInit
<1>2. TypeInv /\ RecordInv /\ FactInv /\ [Next]_vars
         => (TypeInv /\ RecordInv /\ FactInv)'
  BY TypeStep, RecordStep, FactStep
<1>3. TypeInv /\ RecordInv /\ FactInv /\ [Next]_vars =>
        \A i \in DOMAIN antic :
            now - antic[i].opened <= FetchLimit =>
                /\ KeepsFacts(antic[i], antic'[i])
                /\ MayBecome(antic[i].status, antic'[i].status)
  BY FactsStand DEF Young
<1> QED
  BY <1>1, <1>2, <1>3, PTL DEF Spec, LimitFactsStand

-----------------------------------------------------------------------------
(* Every adopted call is graded, with one worker: the earlier row that is  *)
(* open when a call is adopted was opened no later than the call.          *)

\* The tick that adopted the call has still to open its record.
Owes(w, call) ==
    pc[w] = "open" /\ \E d \in out[w].shadow : d.key = call.key /\ d.opened = call.at

CallsOwed == \A call \in calls : CallGraded(call) \/ \E w \in Workers : Owes(w, call)

\* The drafts of a tick are of one time, and no row was opened later.
DraftsLatest ==
    \A w \in Workers : \A d \in out[w].shadow :
        /\ pc[w] \in {"holds", "open"}
        /\ d.opened <= now
        /\ \A i \in DOMAIN shadow : shadow[i].opened <= d.opened
        /\ \A e \in out[w].shadow : e.opened = d.opened

HoldsDrafted ==
    \A w \in Workers : pc[w] = "holds" =>
        \A u \in out[w].holds : u.favored =>
            /\ u.hold.heldAt <= now
            /\ \E d \in out[w].shadow : d.key = u.key /\ d.opened = u.hold.heldAt

NothingAhead ==
    /\ \A call \in calls : call.at <= now
    /\ \A i \in DOMAIN shadow : shadow[i].opened <= now
    /\ \A w \in Workers : pc[w] = "patch" =>
           \A call \in calls : call.at <= window[w].last + 1

CallInv == faults = 0 => CallsOwed /\ DraftsLatest /\ HoldsDrafted /\ NothingAhead

\* A worker keeps its drafts and its place, or has none and takes none on.
KeepsDrafts(v) ==
    \/ /\ out'[v].shadow = out[v].shadow /\ out'[v].holds = out[v].holds
       /\ pc'[v] = pc[v]
    \/ out[v].shadow = {} /\ out'[v].shadow = {} /\ pc'[v] # "holds"

LEMMA CallsKept ==
    ASSUME TypeOK, CallInv, UNCHANGED <<shadow, calls, faults>>, now' \in {now, now + 1},
           \A v \in Workers : KeepsDrafts(v),
           \/ WindowsKept
           \/ \A v \in Workers : pc'[v] = "patch" => window'[v].last + 1 = now'
    PROVE  CallInv'
<1> SUFFICES ASSUME faults = 0
             PROVE  CallsOwed' /\ DraftsLatest' /\ HoldsDrafted' /\ NothingAhead'
  BY DEF CallInv
<1>1. CallsOwed /\ DraftsLatest /\ HoldsDrafted /\ NothingAhead
  BY DEF CallInv
<1>2. now \in Nat /\ calls \subseteq Call
      /\ shadow \in Seq(ShadowRow)
  BY DEF TypeOK
<1>3. \A x \in Nat : x <= now => x <= now'
  BY <1>2
<1>4. /\ \A call \in calls : call.at \in Nat
      /\ \A i \in DOMAIN shadow : shadow[i].opened \in Nat
  <2>1. \A i \in DOMAIN shadow : shadow[i] \in ShadowRow
    BY <1>2
  <2>2. \A row \in ShadowRow : row.opened \in Nat
    BY DEF ShadowRow, Rows
  <2> QED
    BY <1>2, <2>1, <2>2 DEF Call
<1>5. CallsOwed'
  <2> SUFFICES ASSUME NEW call \in calls
               PROVE  CallGraded(call)' \/ \E w \in Workers : Owes(w, call)'
    BY DEF CallsOwed
  <2>1. CallGraded(call) => CallGraded(call)'
    BY DEF CallGraded
  <2>2. \A w \in Workers : Owes(w, call) => Owes(w, call)'
    BY DEF Owes, KeepsDrafts
  <2> QED
    BY <1>1, <2>1, <2>2 DEF CallsOwed
<1>6. DraftsLatest'
  <2> SUFFICES ASSUME NEW w \in Workers, NEW d \in out'[w].shadow
               PROVE  /\ pc'[w] \in {"holds", "open"}
                      /\ d.opened <= now'
                      /\ \A i \in DOMAIN shadow : shadow[i].opened <= d.opened
                      /\ \A e \in out'[w].shadow : e.opened = d.opened
    BY DEF DraftsLatest
  <2>1. out'[w].shadow = out[w].shadow /\ pc'[w] = pc[w]
    BY DEF KeepsDrafts
  <2>2. d.opened \in Nat
    BY <2>1 DEF TypeOK, Output, ShadowRow, Rows
  <2> QED
    BY <1>1, <1>3, <2>1, <2>2 DEF DraftsLatest
<1>7. HoldsDrafted'
  <2> SUFFICES ASSUME NEW w \in Workers, pc'[w] = "holds", NEW u \in out'[w].holds, u.favored
               PROVE  /\ u.hold.heldAt <= now'
                      /\ \E d \in out'[w].shadow : d.key = u.key /\ d.opened = u.hold.heldAt
    BY DEF HoldsDrafted
  <2>1. out'[w].shadow = out[w].shadow /\ out'[w].holds = out[w].holds /\ pc'[w] = pc[w]
    BY DEF KeepsDrafts
  <2>2. u.hold.heldAt \in Nat
    BY <2>1 DEF TypeOK, Output, HeldVerdict
  <2> QED
    BY <1>1, <1>3, <2>1, <2>2 DEF HoldsDrafted
<1>8. NothingAhead'
  <2>1. /\ \A call \in calls : call.at <= now'
        /\ \A i \in DOMAIN shadow : shadow[i].opened <= now'
    BY <1>1, <1>3, <1>4 DEF NothingAhead
  <2>2. CASE WindowsKept
    BY <1>1, <2>1, <2>2 DEF NothingAhead, WindowsKept
  <2>3. CASE \A v \in Workers : pc'[v] = "patch" => window'[v].last + 1 = now'
    BY <2>1, <2>3 DEF NothingAhead
  <2> QED
    BY <2>2, <2>3
<1> QED
  BY <1>5, <1>6, <1>7, <1>8

\* A worker that is neither about to write holds nor opening records has no drafts.
LEMMA NoDrafts ==
    ASSUME CallInv, faults = 0, NEW w \in Workers, pc[w] \notin {"holds", "open"}
    PROVE  out[w].shadow = {}
BY DEF CallInv, DraftsLatest

\* A call that is graded by rows that are only patched from late candles stays graded.
LEMMA GradedStays ==
    ASSUME TypeOK, NEW call, call.at \in Nat, CallGraded(call),
           \A i \in DOMAIN shadow :
              /\ i \in DOMAIN shadow' /\ SameColumns(shadow[i], shadow'[i])
              /\ shadow'[i] = shadow[i] \/ call.at <= shadow'[i].fetchedAt
    PROVE  CallGraded(call)'
<1>1. PICK i \in DOMAIN shadow :
          /\ shadow[i].key = call.key
          /\ \/ shadow[i].opened = call.at
             \/ /\ shadow[i].opened < call.at
                /\ IsOpen(shadow[i]) \/ shadow[i].fetchedAt >= call.at
  BY DEF CallGraded
<1>2. /\ i \in DOMAIN shadow'
      /\ shadow'[i].key = call.key /\ shadow'[i].opened = shadow[i].opened
  BY <1>1 DEF SameColumns
<1>3. shadow[i].opened < call.at =>
          IsOpen(shadow'[i]) \/ shadow'[i].fetchedAt >= call.at \/ shadow[i].opened = call.at
  BY <1>1
<1> QED
  BY <1>1, <1>2, <1>3 DEF CallGraded

LEMMA EvaluateDrafts ==
    ASSUME NEW scope, NEW fresh, NEW late, NEW combos
    PROVE  LET output == EvaluateSymbol(scope, fresh, late, combos)
           IN  /\ \A d \in output.shadow : d.opened = now
               /\ \A u \in output.holds :
                     /\ u.hold.heldAt = now
                     /\ u.favored => \E d \in output.shadow : d.key = u.key /\ d.opened = now
<1> DEFINE output == EvaluateSymbol(scope, fresh, late, combos)
           KeyOf(i) == <<scope[1], scope[2], i>>
           Entry(i) == ApplyRecordAdjustment(fresh[i], combos)
           adopted  == {i \in Intents :
                           Adopts(hold[KeyOf(i)], Entry(i), now, late[i], MaxBars[i])}
           Draft(i, levels) == NewRow(KeyOf(i), levels, fresh[i].combo, "active", now)
<1>1. /\ output.holds = {[key  |-> KeyOf(i),
                          hold |-> CaptureHold(Entry(i), now),
                          favored |-> IsFavoredRead(fresh[i])] : i \in adopted}
      /\ output.shadow = UNION {{Draft(i, levels) : levels \in fresh[i].plan} :
                                    i \in {j \in adopted : IsCall(fresh[j], combos)}}
  BY DEF EvaluateSymbol
<1>2. \A i, levels : Draft(i, levels).key = KeyOf(i) /\ Draft(i, levels).opened = now
  BY DEF NewRow
<1> HIDE DEF output, adopted, Draft
<1>3. \A d \in output.shadow : d.opened = now
  BY <1>1, <1>2
<1>4. ASSUME NEW u \in output.holds
      PROVE  /\ u.hold.heldAt = now
             /\ u.favored => \E d \in output.shadow : d.key = u.key /\ d.opened = now
  <2>1. PICK i \in adopted :
            u = [key  |-> KeyOf(i), hold |-> CaptureHold(Entry(i), now),
                 favored |-> IsFavoredRead(fresh[i])]
    BY <1>1, <1>4
  <2>2. u.key = KeyOf(i) /\ u.hold.heldAt = now
    BY <2>1 DEF CaptureHold
  <2>3. ASSUME u.favored PROVE \E d \in output.shadow : d.key = u.key /\ d.opened = now
    <3>1. IsCall(fresh[i], combos) /\ fresh[i].plan # {}
      BY <2>1, <2>3 DEF IsCall, IsFavoredRead, None
    <3>2. PICK levels \in fresh[i].plan : TRUE
      BY <3>1
    <3>3. Draft(i, levels) \in output.shadow
      BY <1>1, <3>1, <3>2
    <3> QED
      BY <1>2, <2>2, <3>3
  <2> QED
    BY <2>2, <2>3
<1> QED
  BY <1>3, <1>4 DEF output

LEMMA AssessCalls ==
    ASSUME OneWorker, TypeInv, CallInv, NEW w \in Workers, AssessSymbol(w)
    PROVE  CallInv'
<1> USE DEF TypeInv
<1>1. UNCHANGED <<now, shadow, calls, window, faults>> /\ pc[w] = "assess"
  BY DEF AssessSymbol, market, tables
<1> SUFFICES ASSUME faults = 0
             PROVE  CallsOwed' /\ DraftsLatest' /\ HoldsDrafted' /\ NothingAhead'
  BY <1>1 DEF CallInv
<1>2. CallsOwed /\ NothingAhead
  BY DEF CallInv
<1>3. PICK fresh \in [Intents -> Assessments], late \in [Intents -> BOOLEAN] :
          out' = [out EXCEPT ![w] = EvaluateSymbol(at[w], fresh, late, demoted[w])]
  BY DEF AssessSymbol
<1>4. pc' = [pc EXCEPT ![w] = "holds"]
  BY DEF AssessSymbol
<1>5. \A v \in Workers : v = w
  BY DEF OneWorker
<1>6. out'[w] = EvaluateSymbol(at[w], fresh, late, demoted[w]) /\ pc'[w] = "holds"
  BY <1>3, <1>4 DEF TypeOK
<1>7. /\ \A d \in out'[w].shadow : d.opened = now
      /\ \A u \in out'[w].holds :
            /\ u.hold.heldAt = now
            /\ u.favored => \E d \in out'[w].shadow : d.key = u.key /\ d.opened = now
  BY <1>6, EvaluateDrafts
<1>8. CallsOwed'
  BY <1>1, <1>2, <1>5 DEF CallsOwed, CallGraded, Owes
<1>9. DraftsLatest'
  <2>1. now <= now
    BY DEF TypeOK
  <2> QED
    BY <1>1, <1>2, <1>5, <1>6, <1>7, <2>1 DEF DraftsLatest, NothingAhead
<1>10. HoldsDrafted'
  <2>1. now <= now
    BY DEF TypeOK
  <2> QED
    BY <1>1, <1>5, <1>7, <2>1 DEF HoldsDrafted
<1>11. NothingAhead'
  BY <1>1, <1>2, <1>5, <1>6 DEF NothingAhead
<1> QED
  BY <1>8, <1>9, <1>10, <1>11

LEMMA UpsertCalls ==
    ASSUME OneWorker, TypeInv, CallInv, NEW w \in Workers, UpsertHolds(w)
    PROVE  CallInv'
<1> USE DEF TypeInv
<1>1. UNCHANGED <<now, shadow, out, window, faults>> /\ pc[w] = "holds"
  BY DEF UpsertHolds, market, locals
<1> SUFFICES ASSUME faults = 0
             PROVE  CallsOwed' /\ DraftsLatest' /\ HoldsDrafted' /\ NothingAhead'
  BY <1>1 DEF CallInv
<1>2. CallsOwed /\ DraftsLatest /\ HoldsDrafted /\ NothingAhead
  BY DEF CallInv
<1>3. pc'[w] = "open" /\ \A v \in Workers : v = w
  BY DEF UpsertHolds, OneWorker, TypeOK
<1>4. ASSUME NEW call \in calls', call \notin calls
      PROVE  \E u \in out[w].holds :
                u.favored /\ call.key = u.key /\ call.at = u.hold.heldAt
  BY <1>4 DEF UpsertHolds
<1>5. CallsOwed'
  <2> SUFFICES ASSUME NEW call \in calls'
               PROVE  CallGraded(call)' \/ \E v \in Workers : Owes(v, call)'
    BY DEF CallsOwed
  <2>1. CASE call \in calls
    BY <1>1, <1>2, <1>3, <2>1 DEF CallsOwed, CallGraded, Owes
  <2>2. CASE call \notin calls
    <3>1. PICK u \in out[w].holds :
              u.favored /\ call.key = u.key /\ call.at = u.hold.heldAt
      BY <1>4, <2>2
    <3>2. \E d \in out[w].shadow : d.key = u.key /\ d.opened = u.hold.heldAt
      BY <1>1, <1>2, <3>1 DEF HoldsDrafted
    <3> QED
      BY <1>1, <1>3, <3>1, <3>2 DEF Owes
  <2> QED
    BY <2>1, <2>2
<1>6. DraftsLatest' /\ HoldsDrafted'
  BY <1>1, <1>2, <1>3 DEF DraftsLatest, HoldsDrafted
<1>7. NothingAhead'
  <2>1. \A call \in calls' : call.at <= now
    BY <1>1, <1>2, <1>4 DEF NothingAhead, HoldsDrafted
  <2> QED
    BY <1>1, <1>2, <1>3, <2>1 DEF NothingAhead
<1> QED
  BY <1>5, <1>6, <1>7

\* The record of a call is opened, or its key has a row that is open already.
LEMMA OpenShadowCalls ==
    ASSUME OneWorker, TypeInv, CallInv, NEW w \in Workers, OpenShadow(w)
    PROVE  CallInv'
<1> USE DEF TypeInv
<1>1. UNCHANGED <<now, calls, pc, window, faults>> /\ pc[w] = "open"
  BY DEF OpenShadow, market
<1> SUFFICES ASSUME faults = 0
             PROVE  CallsOwed' /\ DraftsLatest' /\ HoldsDrafted' /\ NothingAhead'
  BY <1>1 DEF CallInv
<1>2. CallsOwed /\ DraftsLatest /\ NothingAhead
  BY DEF CallInv
<1>3. PICK d \in out[w].shadow : /\ shadow' = Insert(shadow, d)
                                 /\ out' = [out EXCEPT ![w].shadow = @ \ {d}]
  BY DEF OpenShadow
<1>4. out[w] \in Output /\ d \in ShadowRow /\ shadow \in Seq(ShadowRow) /\ d.opened \in Nat
  BY SMTT(30), <1>3 DEF TypeOK, Output, ShadowRow, Rows
<1>5. out'[w].shadow = out[w].shadow \ {d} /\ \A v \in Workers : v = w
  BY <1>3, <1>4 DEF OneWorker, TypeOK, Output
<1>6. \A i \in DOMAIN shadow : i \in DOMAIN shadow' /\ shadow'[i] = shadow[i]
  BY <1>3, <1>4, InsertKeeps
<1>7. \A i \in DOMAIN shadow' : \/ i \in DOMAIN shadow /\ shadow'[i] = shadow[i]
                                \/ shadow'[i] = d
  BY <1>3, <1>4, AppendGrows
<1>8. \E i \in DOMAIN shadow' :
          /\ shadow'[i].key = d.key
          /\ \/ shadow'[i].opened = d.opened
             \/ shadow'[i].opened < d.opened /\ IsOpen(shadow'[i])
  <2>1. CASE \E i \in DOMAIN shadow : shadow[i].key = d.key /\ IsOpen(shadow[i])
    <3>1. PICK i \in DOMAIN shadow : shadow[i].key = d.key /\ IsOpen(shadow[i])
      BY <2>1
    <3>2. shadow[i].opened \in Nat
      <4>1. shadow[i] \in ShadowRow
        BY <1>4
      <4> QED
        BY <4>1 DEF ShadowRow, Rows
    <3>3. shadow[i].opened <= d.opened
      BY <1>2, <1>3 DEF DraftsLatest
    <3> QED
      BY <1>4, <1>6, <3>1, <3>2, <3>3
  <2>2. CASE ~ \E i \in DOMAIN shadow : shadow[i].key = d.key /\ IsOpen(shadow[i])
    <3>1. shadow' = Append(shadow, d)
      BY <1>3, <2>2 DEF Insert
    <3>2. Len(shadow) + 1 \in DOMAIN shadow' /\ shadow'[Len(shadow) + 1] = d
      BY <1>4, <3>1
    <3> QED
      BY <3>2
  <2> QED
    BY <2>1, <2>2
<1>9. CallsOwed'
  <2> SUFFICES ASSUME NEW call \in calls
               PROVE  CallGraded(call)' \/ \E v \in Workers : Owes(v, call)'
    BY <1>1 DEF CallsOwed
  <2>1. CASE CallGraded(call)
    BY <1>6, <2>1 DEF CallGraded
  <2>2. CASE \E e \in out[w].shadow : e.key = call.key /\ e.opened = call.at
    <3>1. PICK e \in out[w].shadow : e.key = call.key /\ e.opened = call.at
      BY <2>2
    <3>2. CASE e = d
      BY <1>8, <3>1, <3>2 DEF CallGraded
    <3>3. CASE e # d
      BY <1>1, <1>5, <3>1, <3>3 DEF Owes
    <3> QED
      BY <3>2, <3>3
  <2> QED
    BY <1>2, <1>5, <2>1, <2>2 DEF CallsOwed, Owes
<1>10. DraftsLatest'
  <2>1. \A e \in out[w].shadow : e.opened = d.opened
    BY <1>2, <1>3 DEF DraftsLatest
  <2>2. \A i \in DOMAIN shadow' : shadow'[i].opened <= d.opened
    BY <1>2, <1>4, <1>7 DEF DraftsLatest
  <2>3. d.opened <= now
    BY <1>2, <1>3 DEF DraftsLatest
  <2> QED
    BY <1>1, <1>5, <2>1, <2>2, <2>3 DEF DraftsLatest
<1>11. HoldsDrafted'
  BY <1>1, <1>5 DEF HoldsDrafted
<1>12. NothingAhead'
  <2>1. d.opened <= now
    BY <1>2, <1>3 DEF DraftsLatest
  <2>2. \A i \in DOMAIN shadow' : shadow'[i].opened <= now
    BY <1>2, <1>7, <2>1 DEF NothingAhead
  <2> QED
    BY <1>1, <1>2, <2>2 DEF NothingAhead
<1> QED
  BY <1>9, <1>10, <1>11, <1>12

\* A settle step patches one shadow row at most, from the candles it holds.
LEMMA SettleRecordTables ==
    ASSUME TypeInv, NEW w \in Workers, SettleRecord(w)
    PROVE  /\ DOMAIN shadow' = DOMAIN shadow
           /\ \A i \in DOMAIN shadow :
                 /\ SameColumns(shadow[i], shadow'[i])
                 /\ shadow'[i] = shadow[i] \/ shadow'[i].fetchedAt = window[w].last + 1
<1> USE DEF TypeInv
<1>1. PICK r \in snap[w] :
          \/ \E p \in SettlePatch(r, window[w]) : PatchRecord(r, p, window[w])
          \/ UNCHANGED <<shadow, antic, tracked>>
  BY DEF SettleRecord
<1>2. CASE shadow' = shadow
  BY <1>2 DEF SameColumns
<1>3. CASE shadow' # shadow
  <2>1. PICK p \in SettlePatch(r, window[w]) : PatchRecord(r, p, window[w])
    BY <1>1, <1>3
  <2>2. r.kind = "shadow" /\ shadow' = Patched(shadow, r, p, window[w])
    BY <1>3, <2>1 DEF PatchRecord
  <2>3. /\ r.id \in DOMAIN shadow /\ p \in RowPatch(ShadowStatus) /\ window[w] \in Candles
        /\ window[w].last + 1 \in Nat
    BY SMTT(30), <2>1, <2>2, SettlePatchType DEF TypeOK, Candles
  <2>4. shadow[r.id] \in Rows(ExitLevels(Int), ShadowStatus)
    BY <2>3 DEF TypeOK, ShadowRow
  <2> DEFINE new == PatchRow(shadow[r.id], p, window[w].last + 1)
  <2>5. SameColumns(shadow[r.id], new) /\ new.fetchedAt = window[w].last + 1
    BY <2>3, <2>4, PatchKeepsColumns
  <2>6. shadow \in Seq(Rows(ExitLevels(Int), ShadowStatus))
    BY DEF TypeOK, ShadowRow
  <2> HIDE DEF TypeInv
  <2>7. /\ DOMAIN Patched(shadow, r, p, window[w]) = DOMAIN shadow
        /\ \A j \in DOMAIN shadow :
               j # r.id => Patched(shadow, r, p, window[w])[j] = shadow[j]
        /\ Patched(shadow, r, p, window[w])[r.id] \in {shadow[r.id], new}
    BY <2>3, <2>6, PatchedType
  <2> HIDE DEF new
  <2> QED
    BY <2>2, <2>5, <2>7 DEF SameColumns
<1> QED
  BY <1>2, <1>3

LEMMA SettleRecordCalls ==
    ASSUME OneWorker, TypeInv, CallInv, NEW w \in Workers, SettleRecord(w)
    PROVE  CallInv'
<1> USE DEF TypeInv
<1>1. UNCHANGED <<now, calls, pc, out, window, faults>> /\ pc[w] = "patch"
  BY DEF SettleRecord, market
<1> SUFFICES ASSUME faults = 0
             PROVE  CallsOwed' /\ DraftsLatest' /\ HoldsDrafted' /\ NothingAhead'
  BY <1>1 DEF CallInv
<1>2. CallsOwed /\ NothingAhead /\ out[w].shadow = {} /\ \A v \in Workers : v = w
  BY <1>1, NoDrafts DEF CallInv, OneWorker
<1>3. /\ DOMAIN shadow' = DOMAIN shadow
      /\ \A i \in DOMAIN shadow :
            /\ SameColumns(shadow[i], shadow'[i])
            /\ shadow'[i] = shadow[i] \/ shadow'[i].fetchedAt = window[w].last + 1
  BY SettleRecordTables
<1>4. CallsOwed'
  <2> SUFFICES ASSUME NEW call \in calls PROVE CallGraded(call)'
    BY <1>1 DEF CallsOwed
  <2>1. CallGraded(call)
    BY <1>1, <1>2 DEF CallsOwed, Owes
  <2>2. call.at \in Nat /\ call.at <= window[w].last + 1
    BY <1>1, <1>2 DEF NothingAhead, TypeOK, Call
  <2>3. \A i \in DOMAIN shadow :
           /\ i \in DOMAIN shadow' /\ SameColumns(shadow[i], shadow'[i])
           /\ shadow'[i] = shadow[i] \/ call.at <= shadow'[i].fetchedAt
    BY <1>3, <2>2
  <2> QED
    BY <2>1, <2>2, <2>3, GradedStays
<1>5. DraftsLatest' /\ HoldsDrafted'
  BY <1>1, <1>2 DEF DraftsLatest, HoldsDrafted
<1>6. NothingAhead'
  BY <1>1, <1>2, <1>3 DEF NothingAhead, SameColumns
<1> QED
  BY <1>4, <1>5, <1>6

LEMMA EvalCalls ==
    ASSUME OneWorker, TypeInv, CallInv, NEW w \in Workers, EvalStep(w)
    PROVE  CallInv'
<1> USE DEF TypeInv
<1> SUFFICES ASSUME faults = 0 PROVE CallInv'
  <2>1. faults' = faults
    BY DEF EvalStep, StartTick, LoadComboStats, AssessSymbol, SkipSymbol, UpsertHolds,
           OpenShadow, OpenAnticipatory, EndSymbol
  <2> QED
    BY <2>1 DEF CallInv
<1>0. \A v \in Workers : v = w
  BY DEF OneWorker
<1>1. CASE StartTick(w) \/ LoadComboStats(w)
  <2>1. UNCHANGED <<now, shadow, calls, faults, out>> /\ pc[w] \notin {"holds", "open"}
    BY <1>1 DEF StartTick, LoadComboStats, market, tables
  <2>2. pc'[w] \in {"stats", "assess"}
    BY <1>1 DEF StartTick, LoadComboStats, TypeOK
  <2>3. \A v \in Workers : KeepsDrafts(v)
    BY <1>0, <2>1, <2>2, NoDrafts DEF KeepsDrafts
  <2>4. WindowsKept
    BY <1>0, <2>2 DEF WindowsKept
  <2> QED
    BY <2>1, <2>3, <2>4, CallsKept
<1>2. CASE SkipSymbol(w) \/ EndSymbol(w)
  <2>1. UNCHANGED <<now, shadow, calls, faults>> /\ out[w].shadow = {}
    BY <1>2, NoDrafts DEF SkipSymbol, EndSymbol, market, tables
  <2>2. pc'[w] \in {"stats", "assess", "list"} /\ out'[w].shadow = {}
    BY <1>2 DEF SkipSymbol, EndSymbol, NextSymbol, NoOutput, TypeOK
  <2>3. \A v \in Workers : KeepsDrafts(v)
    BY <1>0, <2>1, <2>2 DEF KeepsDrafts
  <2>4. WindowsKept
    BY <1>0, <2>2 DEF WindowsKept
  <2> QED
    BY <2>1, <2>3, <2>4, CallsKept
<1>3. CASE OpenAnticipatory(w)
  <2>1. UNCHANGED <<now, shadow, calls, faults, pc, group, window>>
    BY <1>3 DEF OpenAnticipatory, market
  <2>2. PICK d \in out[w].antic : out' = [out EXCEPT ![w].antic = @ \ {d}]
    BY <1>3 DEF OpenAnticipatory
  <2>3. out'[w].shadow = out[w].shadow /\ out'[w].holds = out[w].holds
    BY <2>2 DEF TypeOK, Output
  <2>4. \A v \in Workers : KeepsDrafts(v)
    BY <1>0, <2>1, <2>3 DEF KeepsDrafts
  <2>5. WindowsKept
    BY <2>1 DEF WindowsKept
  <2> QED
    BY <2>1, <2>4, <2>5, CallsKept
<1> QED
  BY <1>1, <1>2, <1>3, AssessCalls, UpsertCalls, OpenShadowCalls DEF EvalStep

LEMMA SettleCalls ==
    ASSUME OneWorker, TypeInv, CallInv, NEW w \in Workers, SettleStep(w)
    PROVE  CallInv'
<1> USE DEF TypeInv
<1> SUFFICES ASSUME faults = 0 PROVE CallInv'
  <2>1. faults' = faults
    BY DEF SettleStep, ListOpen, FetchGroup, SettleRecord, PatchConflicts, EndGroup,
           FinishRun, FinishError
  <2> QED
    BY <2>1 DEF CallInv
<1>0. \A v \in Workers : v = w
  BY DEF OneWorker
<1>1. CASE ListOpen(w) \/ EndGroup(w) \/ FinishRun(w) \/ FinishError(w)
  <2>1. UNCHANGED <<now, shadow, calls, faults, out>> /\ pc[w] \notin {"holds", "open"}
    BY <1>1 DEF ListOpen, EndGroup, FinishRun, FinishError, market, tables, locals
  <2>2. pc'[w] \in {"group", "idle"}
    BY <1>1 DEF ListOpen, EndGroup, FinishRun, FinishError, TypeOK
  <2>3. \A v \in Workers : KeepsDrafts(v)
    BY <1>0, <2>1, <2>2, NoDrafts DEF KeepsDrafts
  <2>4. WindowsKept
    BY <1>0, <2>2 DEF WindowsKept
  <2> QED
    BY <2>1, <2>3, <2>4, CallsKept
<1>2. CASE PatchConflicts(w)
  <2>1. /\ UNCHANGED <<now, shadow, calls, faults>> /\ pc[w] = "patch"
        /\ AbortTick(w, "failed")
    BY <1>2 DEF PatchConflicts, market, tables
  <2>2. pc'[w] = "failed" /\ out'[w].shadow = {}
    BY <2>1 DEF AbortTick, NoOutput, TypeOK
  <2>3. \A v \in Workers : KeepsDrafts(v)
    BY <1>0, <2>1, <2>2, NoDrafts DEF KeepsDrafts
  <2>4. WindowsKept
    BY <1>0, <2>2 DEF WindowsKept
  <2> QED
    BY <2>1, <2>3, <2>4, CallsKept
<1>3. CASE FetchGroup(w)
  <2>1. UNCHANGED <<now, shadow, calls, faults, out>> /\ pc[w] = "group"
    BY <1>3 DEF FetchGroup, market, tables
  <2>2. pc'[w] = "patch"
    BY <1>3 DEF FetchGroup, TypeOK
  <2>3. window'[w].last + 1 = now'
    <3>1. PICK earliest : window' = [window EXCEPT ![w] =
                                        FetchWindow(earliest, now, MinLimit, FetchLimit)]
      BY <1>3 DEF FetchGroup
    <3>2. window'[w].last = now - 1
      BY <3>1 DEF FetchWindow, TypeOK
    <3> QED
      BY <2>1, <3>2 DEF TypeOK
  <2>4. \A v \in Workers : KeepsDrafts(v)
    BY <1>0, <2>1, <2>2, NoDrafts DEF KeepsDrafts
  <2>5. \A v \in Workers : pc'[v] = "patch" => window'[v].last + 1 = now'
    BY <1>0, <2>3
  <2> QED
    BY <2>1, <2>4, <2>5, CallsKept
<1> QED
  BY <1>1, <1>2, <1>3, SettleRecordCalls DEF SettleStep

\* A fault ends what the property promises.
LEMMA FaultCalls ==
    ASSUME TypeOK, NEW w \in Workers, FaultStep(w)
    PROVE  CallInv'
<1>1. faults' = faults + 1 /\ faults \in Nat
  BY BoundAssumption DEF FaultStep, EvalFails, FeedDown, TickFails, KlinesUnparsable,
                         Crash, Fault, TypeOK
<1> QED
  BY <1>1 DEF CallInv

LEMMA CallStep ==
    ASSUME OneWorker
    PROVE  TypeInv /\ CallInv /\ [Next]_vars => CallInv'
<1> SUFFICES ASSUME TypeInv, CallInv, [Next]_vars PROVE CallInv'
  OBVIOUS
<1>1. CASE CloseBar \/ FollowTracked \/ DeleteTracked \/ UNCHANGED vars
  <2>1. UNCHANGED <<shadow, calls, faults, pc, out, group, window>>
    BY <1>1 DEF CloseBar, FollowTracked, DeleteTracked, tables, locals, vars
  <2>2. now' \in {now, now + 1}
    BY <1>1 DEF CloseBar, FollowTracked, DeleteTracked, market, vars
  <2>3. WindowsKept /\ \A v \in Workers : KeepsDrafts(v)
    BY <2>1 DEF WindowsKept, KeepsDrafts
  <2> QED
    BY <2>1, <2>2, <2>3, CallsKept DEF TypeInv
<1> QED
  BY <1>1, EvalCalls, SettleCalls, FaultCalls DEF Next, TypeInv

LEMMA CallInit == Init => CallInv
BY DEF Init, CallInv, CallsOwed, DraftsLatest, HoldsDrafted, NothingAhead, NoOutput

\* With one worker and no tick cut short, every adopted favored call is graded: by a
\* row of its own, or by its key's earlier row that was still open when the call was
\* adopted (upsert_holds, open_shadow).
THEOREM CallsAreGraded == ASSUME OneWorker PROVE Spec => []UnharmedCallsGraded
<1>1. Init => TypeInv /\ CallInv
  BY TypeInit, CallInit
<1>2. TypeInv /\ CallInv /\ [Next]_vars => (TypeInv /\ CallInv)'
  BY TypeStep, CallStep
<1>3. CallInv => UnharmedCallsGraded
  BY DEF CallInv, CallsOwed, Owes, UnharmedCallsGraded, Quiet
<1> QED
  BY <1>1, <1>2, <1>3, PTL DEF Spec

==============================================================================
