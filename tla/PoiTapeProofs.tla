---------------------------- MODULE PoiTapeProofs -----------------------------
(***************************************************************************)
(* For every tape the lifecycle of a point of interest implements the      *)
(* freshness of zones, no detector takes back what it found, the two       *)
(* replays and the two rankings agree, the limit that is planned was not   *)
(* passed, and the ledger only ages.                                       *)
(***************************************************************************)
EXTENDS PoiTape, WellFoundedInduction, SequenceTheorems, FiniteSetTheorems, TLAPS

-----------------------------------------------------------------------------
(* What a read may look like, and what the tape and the watch hold. *)

\* A live read has at most one visit and no bar that decided it.
ReadInv ==
    /\ read.state \in States /\ read.touches \in 0..2
    /\ read.state \in Terminal <=> read.decidedAt # 0
    /\ read.state \notin Terminal => read.touches <= 1 /\ (read.touches = 0 <=> read.state = "fresh")

\* The tape is of bars that may close,
TapeInv == tape \in Seq(AllBars) /\ Len(tape) <= MaxTime

\* and one band is watched at most.
WatchInv == watched = {} \/ \E p : watched = {p}

\* The invariant.
IInv == ReadInv /\ TapeInv /\ WatchInv

\* A live state is fresh exactly when there was no visit.
LEMMA LiveStates ==
    ASSUME NEW band, NEW touches, NEW deepest
    PROVE  /\ LiveState(band, touches, deepest) \in {"fresh", "tested", "mitigated"}
           /\ LiveState(band, touches, deepest) = "fresh" <=> touches = 0
  BY DEF LiveState

\* A bar that closes is one of all bars, and the tape stays a sequence of them.
LEMMA TapeGrows ==
    ASSUME IInv, CloseBar
    PROVE  TapeInv' /\ Bars[Len(tape) + 1] \subseteq AllBars
  <1>1. PICK bar \in Bars[Len(tape) + 1] : tape' = Append(tape, bar)
    BY DEF CloseBar
  <1>2. Len(tape) + 1 \in 1..MaxTime
    BY TapeAssumption DEF CloseBar, IInv, TapeInv
  <1>3. Bars[Len(tape) + 1] \subseteq AllBars
    BY <1>2 DEF AllBars
  <1>4. QED
    BY <1>1, <1>2, <1>3, TapeAssumption DEF IInv, TapeInv

\* One turn of the replay keeps the shape of the read.
LEMMA ReplayKeepsShape ==
    ASSUME ReadInv, NEW band, NEW bar, NEW t \in Nat \ {0},
           read' = Replay(band, read, bar, t)
    PROVE  ReadInv'
  <1> DEFINE touching == Touching(band, bar)
             deepest == Deeper(band, read, bar)
             touches == IF touching /\ ~read.inside THEN read.touches + 1 ELSE read.touches
  <1>2. CASE read.state \in Terminal
    BY <1>2 DEF ReadInv, Replay
  <1>3. CASE read.state \notin Terminal /\ Through(band, bar)
    <2>1. /\ read'.state = "invalidated" /\ read'.touches = read.touches
          /\ read'.inside = read.inside /\ read'.decidedAt = t
      BY <1>3 DEF Replay
    <2>2. QED
      BY <2>1 DEF ReadInv, States, Terminal
  <1>4. CASE read.state \notin Terminal /\ ~Through(band, bar) /\ touches >= 2
    <2>1. /\ read'.state = "consumed" /\ read'.touches = touches
          /\ read'.inside = read.inside /\ read'.decidedAt = t
      BY <1>4 DEF Replay
    <2>2. QED
      BY <2>1, <1>4 DEF ReadInv, States, Terminal
  <1>5. CASE read.state \notin Terminal /\ ~Through(band, bar) /\ ~(touches >= 2)
    <2>1. /\ read'.state = LiveState(band, touches, deepest) /\ read'.touches = touches
          /\ read'.inside = touching /\ read'.decidedAt = 0
      BY <1>5 DEF Replay
    <2>2. touches \in 0..1
      BY <1>5 DEF ReadInv
    <2>3. QED
      BY <2>1, <2>2, LiveStates DEF ReadInv, States, Terminal
  <1>6. QED
    BY <1>2, <1>3, <1>4, <1>5

\* Every step keeps the invariant,
LEMMA StepKeepsIInv == IInv /\ [Next]_vars => IInv'
  <1> SUFFICES ASSUME IInv, [Next]_vars PROVE IInv'
    OBVIOUS
  <1>1. CASE Next
    <2>1. TapeInv'
      BY <1>1, TapeGrows DEF Next
    <2>2. PICK bar \in Bars[Len(tape) + 1] :
            /\ tape' = Append(tape, bar)
            /\ \/ watched = {} /\ UNCHANGED <<watched, read>>
               \/ /\ watched = {}
                  /\ \E p \in Formed(tape') : watched' = {p}
                  /\ UNCHANGED read
               \/ \E p \in watched :
                    /\ read' = Replay(p.band, read, bar, Len(tape'))
                    /\ UNCHANGED watched
      BY <1>1 DEF Next, CloseBar
    <2>3. CASE watched = {} /\ UNCHANGED <<watched, read>>
      BY <2>1, <2>3 DEF IInv, ReadInv, WatchInv
    <2>4. CASE (\E p \in Formed(tape') : watched' = {p}) /\ UNCHANGED read
      BY <2>1, <2>4 DEF IInv, ReadInv, WatchInv
    <2>5. CASE \E p \in watched :
                    /\ read' = Replay(p.band, read, bar, Len(tape'))
                    /\ UNCHANGED watched
      <3>1. Len(tape') \in Nat \ {0}
        BY <2>2, <2>1 DEF IInv, TapeInv
      <3>2. ReadInv'
        BY <2>5, <3>1, ReplayKeepsShape DEF IInv
      <3>3. QED
        BY <2>1, <2>5, <3>2 DEF IInv, WatchInv
    <2>6. QED
      BY <2>2, <2>3, <2>4, <2>5
  <1>2. CASE UNCHANGED vars
    BY <1>2 DEF vars, IInv, ReadInv, TapeInv, WatchInv
  <1>3. QED
    BY <1>1, <1>2

\* it holds at the start,
LEMMA InitIInv == Init => IInv
  BY TapeAssumption DEF Init, IInv, ReadInv, TapeInv, WatchInv, NewRead, States, Terminal

\* and so always.
LEMMA IInvAlways == Spec => []IInv
  BY InitIInv, StepKeepsIInv, PTL DEF Spec

-----------------------------------------------------------------------------
(* Refinement *)

\* The bars meet the band of a POI as they meet the zone it stands for.
LEMMA SameEdges ==
    ASSUME NEW band, NEW bar
    PROVE  /\ Zone!Through(band, bar) = Through(band, bar)
           /\ Zone!Touching(band, bar) = Touching(band, bar)
  BY DEF Zone!Through, Zone!Touching, Through, Touching

\* A turn of the replay is what the zone does when the same bar closes on it.
LEMMA ReplayImplements ==
    ASSUME ReadInv, NEW band, NEW bar, NEW t \in Nat \ {0},
           read' = Replay(band, read, bar, t), UNCHANGED watched
    PROVE  Zone!CloseOn(band, bar)
  <1> DEFINE touching == Touching(band, bar)
             deepest == Deeper(band, read, bar)
             visit == touching /\ ~read.inside
             touches == IF visit THEN read.touches + 1 ELSE read.touches
  <1>0. UNCHANGED {p.band : p \in watched}
    OBVIOUS
  <1>1. /\ Collapse(read'.state) =
              IF Collapse(read.state) = "gone" \/ Through(band, bar) THEN "gone"
              ELSE IF ~visit THEN Collapse(read.state)
              ELSE IF Collapse(read.state) = "fresh" THEN "tested" ELSE "gone"
        /\ read'.inside = IF Collapse(read'.state) = "gone" THEN read.inside ELSE touching
    <2>1. CASE read.state \in Terminal
      BY <2>1 DEF ReadInv, Replay, Collapse
    <2>2. CASE read.state \notin Terminal /\ Through(band, bar)
      <3>1. read'.state = "invalidated" /\ read'.inside = read.inside
        BY <2>2 DEF Replay
      <3>2. QED
        BY <3>1, <2>2 DEF Collapse, Terminal
    <2>3. CASE read.state \notin Terminal /\ ~Through(band, bar) /\ touches >= 2
      <3>1. read'.state = "consumed" /\ read'.inside = read.inside
        BY <2>3 DEF Replay
      <3>2. visit /\ read.touches = 1
        BY <2>3 DEF ReadInv
      <3>3. Collapse(read.state) = "tested"
        BY <2>3, <3>2 DEF ReadInv, States, Terminal, Collapse
      <3>4. QED
        BY <3>1, <3>2, <3>3, <2>3 DEF Collapse, Terminal
    <2>4. CASE read.state \notin Terminal /\ ~Through(band, bar) /\ ~(touches >= 2)
      <3>1. read'.state = LiveState(band, touches, deepest) /\ read'.inside = touching
        BY <2>4 DEF Replay
      <3>2. Collapse(read'.state) = IF touches = 0 THEN "fresh" ELSE "tested"
        BY <3>1, LiveStates DEF Collapse, Terminal
      <3>3. Collapse(read.state) = IF read.touches = 0 THEN "fresh" ELSE "tested"
        BY <2>4 DEF ReadInv, States, Terminal, Collapse
      <3>4. read.touches \in 0..1 /\ (visit => read.touches = 0)
        BY <2>4 DEF ReadInv
      <3>5. QED
        BY <3>1, <3>2, <3>3, <3>4, <2>4
    <2>5. QED
      BY <2>1, <2>2, <2>3, <2>4
  <1>2. QED
    BY <1>0, <1>1, SameEdges DEF Zone!CloseOn, Zone!Visit

\* A step of the tape is a bar that closes on the zone, or one the zone does not see.
LEMMA StepImplements ==
    ASSUME IInv, [Next]_vars
    PROVE  [Zone!CloseBar]_(Zone!vars)
  <1>1. CASE Next
    <2>1. PICK b \in Bars[Len(tape) + 1] :
            /\ tape' = Append(tape, b)
            /\ \/ watched = {} /\ UNCHANGED <<watched, read>>
               \/ /\ watched = {}
                  /\ \E p \in Formed(tape') : watched' = {p}
                  /\ UNCHANGED read
               \/ \E p \in watched :
                    /\ read' = Replay(p.band, read, b, Len(tape'))
                    /\ UNCHANGED watched
      BY <1>1 DEF Next, CloseBar
    <2>2. b \in AllBars
      BY <1>1, TapeGrows DEF Next
    <2>4. CASE watched = {} /\ UNCHANGED <<watched, read>>
      BY <2>1, <2>2, <2>4 DEF Zone!CloseBar
    <2>5. CASE watched = {} /\ (\E p \in Formed(tape') : watched' = {p}) /\ UNCHANGED read
      <3>1. PICK p : watched' = {p}
        BY <2>5
      <3>2. {q.band : q \in watched} = {} /\ {q.band : q \in watched'} = {p.band}
        BY <2>5, <3>1
      <3>3. Zone!Form
        BY <2>5, <3>2 DEF Zone!Form
      <3>4. QED
        BY <2>1, <2>2, <3>3 DEF Zone!CloseBar
    <2>6. CASE \E p \in watched :
                    /\ read' = Replay(p.band, read, b, Len(tape'))
                    /\ UNCHANGED watched
      <3>1. Len(tape') \in Nat \ {0}
        BY <2>1, <2>2 DEF IInv, TapeInv
      <3>2. PICK p \in watched : Zone!CloseOn(p.band, b)
        BY <2>6, <3>1, ReplayImplements DEF IInv
      <3>3. p.band \in {q.band : q \in watched}
        OBVIOUS
      <3>4. QED
        BY <2>1, <2>2, <3>2, <3>3 DEF Zone!CloseBar
    <2>7. QED
      BY <2>1, <2>4, <2>5, <2>6
  <1>2. CASE UNCHANGED vars
    BY <1>2 DEF vars, Zone!vars
  <1>3. QED
    BY <1>1, <1>2

\* poi-lifecycle.ts: "collapsing mitigated to tested and mapping terminal to null
\* reproduces zoneFreshness exactly", whatever bars close.
THEOREM LifecycleImplementsFreshness == Spec => ImplementsFreshness
  <1>1. Init => Zone!Init
    BY DEF Init, Zone!Init, NewRead, Collapse, Terminal
  <1>2. IInv /\ [Next]_vars => [Zone!CloseBar]_(Zone!vars)
    BY StepImplements
  <1>3. QED
    BY <1>1, <1>2, IInvAlways, PTL DEF Spec, ImplementsFreshness, Zone!Spec

-----------------------------------------------------------------------------
(* Detectors look back only: on two tapes that agree up to bar n, what they *)
(* find at a bar up to n is the same.                                       *)

\* Two windows share their first n bars.
Agree(bars, longer, n) == \A j \in 1..n : longer[j] = bars[j]

\* Then a true range of those bars is the same in both,
LEMMA SameTrueRange ==
    ASSUME NEW bars, NEW longer, NEW n \in Nat, Agree(bars, longer, n), NEW i \in 1..n
    PROVE  TrueRange(longer, i) = TrueRange(bars, i)
  <1>1. (IF i = 1 THEN 1 ELSE i - 1) \in 1..n
    OBVIOUS
  <1>2. /\ longer[i] = bars[i]
        /\ longer[IF i = 1 THEN 1 ELSE i - 1] = bars[IF i = 1 THEN 1 ELSE i - 1]
    BY <1>1 DEF Agree
  <1>3. QED
    BY <1>2 DEF TrueRange

\* so is the sum of an ATR,
LEMMA SameAtr ==
    ASSUME NEW bars, NEW longer, NEW n \in Nat, Agree(bars, longer, n), NEW i \in AtrLength..n
    PROVE  AtrSum(longer, i) = AtrSum(bars, i)
  <1>1. \A j \in (i - AtrLength + 1)..i : j \in 1..n
    BY AtrAssumption
  <1>2. [j \in (i - AtrLength + 1)..i |-> TrueRange(longer, j)]
            = [j \in (i - AtrLength + 1)..i |-> TrueRange(bars, j)]
    BY <1>1, SameTrueRange
  <1>3. QED
    BY <1>2, Zenon DEF AtrSum

\* so are a displacement and what is indecisive against it,
LEMMA SameDisplacement ==
    ASSUME NEW bars, NEW longer, NEW n \in Nat, Agree(bars, longer, n),
           NEW i \in FirstDeparture..n
    PROVE  /\ longer[i] = bars[i]
           /\ AtrSum(longer, i - 1) = AtrSum(bars, i - 1)
           /\ Displaces(longer, i) = Displaces(bars, i)
           /\ \A j \in 2..(i - 1) : /\ longer[j] = bars[j]
                                    /\ Indecisive(longer, i, j) = Indecisive(bars, i, j)
  <1>1. i - 1 \in AtrLength..n /\ i \in 1..n
    BY AtrAssumption, DetectorAssumption
  <1>2. longer[i] = bars[i] /\ AtrSum(longer, i - 1) = AtrSum(bars, i - 1)
    BY <1>1, SameAtr DEF Agree
  <1>3. Displaces(longer, i) = Displaces(bars, i)
    BY <1>2, Zenon DEF Displaces
  <1>4. ASSUME NEW j \in 2..(i - 1)
        PROVE  longer[j] = bars[j] /\ Indecisive(longer, i, j) = Indecisive(bars, i, j)
    <2>1. longer[j] = bars[j]
      BY <1>1, <1>4 DEF Agree
    <2>2. QED
      BY <2>1, <1>2, Zenon DEF Indecisive
  <1>5. QED
    BY <1>2, <1>3, <1>4

\* the base zone it departs from,
LEMMA SameZone ==
    ASSUME NEW bars, NEW longer, NEW n \in Nat, Agree(bars, longer, n),
           NEW i \in FirstDeparture..n
    PROVE  ZoneAt(longer, i) = ZoneAt(bars, i)
  <1>1. BaseOf(longer, i) = BaseOf(bars, i)
    <2>1. \A j \in 2..(i - 1) : \A k \in j..(i - 1) : k \in 2..(i - 1)
      BY DetectorAssumption
    <2>2. \A j \in 2..(i - 1) :
            (\A k \in j..(i - 1) : Indecisive(longer, i, k))
                <=> (\A k \in j..(i - 1) : Indecisive(bars, i, k))
      BY <2>1, SameDisplacement
    <2>3. QED
      BY <2>2 DEF BaseOf
  <1>2. \A j \in BaseOf(bars, i) : longer[j] = bars[j]
    BY SameDisplacement DEF BaseOf
  <1>3. /\ {longer[j].high : j \in BaseOf(bars, i)} = {bars[j].high : j \in BaseOf(bars, i)}
        /\ {longer[j].low : j \in BaseOf(bars, i)} = {bars[j].low : j \in BaseOf(bars, i)}
        /\ {TopOf(longer[j]) : j \in BaseOf(bars, i)} = {TopOf(bars[j]) : j \in BaseOf(bars, i)}
        /\ {BottomOf(longer[j]) : j \in BaseOf(bars, i)}
             = {BottomOf(bars[j]) : j \in BaseOf(bars, i)}
    BY <1>2
  <1>4. AtrSum(longer, i - 1) = AtrSum(bars, i - 1) /\ longer[i] = bars[i]
    BY SameDisplacement
  <1>5. QED
    BY <1>1, <1>3, <1>4, Zenon DEF ZoneAt

\* the order block behind it,
LEMMA SameBlock ==
    ASSUME NEW bars, NEW longer, NEW n \in Nat, Agree(bars, longer, n),
           NEW i \in FirstDeparture..n
    PROVE  BlockAt(longer, i) = BlockAt(bars, i)
  <1>1. longer[i] = bars[i] /\ \A j \in 2..(i - 1) : longer[j] = bars[j]
    BY SameDisplacement
  <1>2. ASSUME NEW j \in 2..(i - 1), NEW bullish
        PROVE  SweptSwing(longer, j, bullish) = SweptSwing(bars, j, bullish)
    <2>1. \A k \in Bigger(1, j - SweepLookback)..(j - 1) : k \in 1..n
      BY DetectorAssumption DEF Bigger
    <2>2. \A k \in Bigger(1, j - SweepLookback)..(j - 1) : longer[k] = bars[k]
      BY <2>1 DEF Agree
    <2>3. longer[j] = bars[j]
      BY <1>1
    <2>4. QED
      BY <2>2, <2>3, Zenon DEF SweptSwing
  <1>3. QED
    <2> DEFINE bullish == bars[i].close > bars[i].open
               opposing(s, j) == IF bullish THEN s[j].close < s[j].open
                                 ELSE s[j].close > s[j].open
               origins(s) == {j \in 2..(i - 1) :
                                /\ opposing(s, j)
                                /\ i - 1 - j <= MaxSkips
                                /\ \A k \in (j + 1)..(i - 1) :
                                      ~opposing(s, k) /\ Indecisive(s, i, k)}
               block(s, j) ==
                  [source |-> "order-block", start |-> j, end |-> i,
                   swept |-> SweptSwing(s, j, bullish),
                   band |-> [kind |-> IF bullish THEN "demand" ELSE "supply",
                             low |-> Scale * s[j].low, high |-> Scale * s[j].high,
                             gap |-> FALSE]]
    <2>1. \A j \in 2..(i - 1) : opposing(longer, j) = opposing(bars, j)
      BY <1>1
    <2>2. \A j \in 2..(i - 1) : \A k \in (j + 1)..(i - 1) : k \in 2..(i - 1)
      BY DetectorAssumption
    <2>3. \A j \in 2..(i - 1) :
            (\A k \in (j + 1)..(i - 1) : ~opposing(longer, k) /\ Indecisive(longer, i, k))
            <=> (\A k \in (j + 1)..(i - 1) : ~opposing(bars, k) /\ Indecisive(bars, i, k))
      <3> HIDE DEF opposing
      <3>1. QED
        BY <2>1, <2>2, SameDisplacement
    <2>4. origins(longer) = origins(bars)
      <3> HIDE DEF opposing
      <3>1. QED
        BY <2>1, <2>3
    <2>5. \A j \in origins(bars) : block(longer, j) = block(bars, j)
      BY <1>1, <1>2
    <2>6. BlockAt(bars, i) = {block(bars, j) : j \in origins(bars)}
      BY DEF BlockAt
    <2>7. BlockAt(longer, i) = {block(longer, j) : j \in origins(longer)}
      BY <1>1 DEF BlockAt
    <2>8. QED
      <3> HIDE DEF block, origins
      <3>1. QED
        BY <2>4, <2>5, <2>6, <2>7

\* and a fair value gap.
LEMMA SameGap ==
    ASSUME NEW bars, NEW longer, NEW n \in Nat, Agree(bars, longer, n), NEW i \in 3..n
    PROVE  GapAt(longer, i) = GapAt(bars, i)
  <1>1. longer[i] = bars[i] /\ longer[i - 2] = bars[i - 2]
    BY DEF Agree
  <1>2. CASE i - 2 >= AtrLength
    <2>1. AtrSum(longer, i - 2) = AtrSum(bars, i - 2)
      BY <1>2, SameAtr, AtrAssumption
    <2>2. QED
      BY <1>1, <2>1, Zenon DEF GapAt
  <1>3. CASE ~(i - 2 >= AtrLength)
    BY <1>1, <1>3 DEF GapAt
  <1>4. QED
    BY <1>2, <1>3

\* Nothing found is lost when a bar is appended.
LEMMA DetectedGrows ==
    ASSUME NEW S, NEW bars \in Seq(S), NEW bar \in S
    PROVE  Detected(bars) \subseteq Detected(Append(bars, bar))
  <1> DEFINE longer == Append(bars, bar)
  <1>1. Agree(bars, longer, Len(bars)) /\ Len(longer) = Len(bars) + 1 /\ Len(bars) \in Nat
    BY DEF Agree
  <1> HIDE DEF longer
  <1>2. ASSUME NEW i \in Candidates(bars)
        PROVE  i \in Candidates(longer) /\ i \in FirstDeparture..Len(bars)
    BY <1>1, SameDisplacement, DetectorAssumption DEF Candidates
  <1>3. ComputeBaseZoneCandidates(bars) \subseteq ComputeBaseZoneCandidates(longer)
    BY <1>1, <1>2, SameZone DEF ComputeBaseZoneCandidates
  <1>4. DetectOrderBlocks(bars) \subseteq DetectOrderBlocks(longer)
    BY <1>1, <1>2, SameBlock DEF DetectOrderBlocks
  <1>5. DetectFvgs(bars) \subseteq DetectFvgs(longer)
    <2>1. \A i \in 3..Len(bars) : i \in 3..Len(longer) /\ GapAt(longer, i) = GapAt(bars, i)
      BY <1>1, SameGap
    <2>2. QED
      BY <2>1 DEF DetectFvgs
  <1>6. QED
    BY <1>3, <1>4, <1>5 DEF Detected, longer

\* A detection is never taken back nor changed by a bar that closes later,
\* whatever the lengths and limits of the detectors (fvg.ts, orderblocks.ts,
\* zones.ts).
THEOREM NothingUndetected == Spec => DetectionsStand
  <1>1. IInv /\ [Next]_vars => (tape' = tape \/ Detected(tape) \subseteq Detected(tape'))
    <2> SUFFICES ASSUME IInv, [Next]_vars, tape' # tape
                 PROVE  Detected(tape) \subseteq Detected(tape')
      OBVIOUS
    <2>1. PICK bar \in Bars[Len(tape) + 1] : tape' = Append(tape, bar)
      BY DEF Next, CloseBar, vars
    <2>2. bar \in AllBars
      BY <2>1, TapeGrows DEF Next, vars
    <2>3. QED
      BY <2>1, <2>2, DetectedGrows DEF IInv, TapeInv
  <1>2. IInv /\ [Next]_vars => [Detected(tape) \subseteq Detected(tape')]_vars
    <2> SUFFICES ASSUME IInv, [Next]_vars PROVE [Detected(tape) \subseteq Detected(tape')]_vars
      OBVIOUS
    <2>1. CASE tape' = tape
      BY <2>1
    <2>2. CASE Detected(tape) \subseteq Detected(tape')
      BY <2>2
    <2>3. QED
      BY <1>1, <2>1, <2>2
  <1>3. QED
    BY <1>2, IInvAlways, PTL DEF Spec, DetectionsStand

\* The type invariant: what is watched is on the ledger and its read is one a
\* replay can give (poi-lifecycle.ts).
THEOREM PoiTyped == Spec => []TypeOK
  <1>1. Init => TypeOK
    BY TapeAssumption DEF Init, TypeOK, NewRead, States, Terminal
  <1>2. IInv /\ IInv' /\ TypeOK /\ [Next]_vars => TypeOK'
    <2> SUFFICES ASSUME IInv, IInv', TypeOK, [Next]_vars PROVE TypeOK'
      OBVIOUS
    <2>1. CASE UNCHANGED vars
      BY <2>1 DEF vars, TypeOK
    <2>2. CASE Next
      <3>1. PICK bar \in Bars[Len(tape) + 1] :
              /\ tape' = Append(tape, bar)
              /\ \/ watched = {} /\ UNCHANGED <<watched, read>>
                 \/ /\ watched = {}
                    /\ \E p \in Formed(tape') : watched' = {p}
                    /\ UNCHANGED read
                 \/ \E p \in watched :
                      /\ read' = Replay(p.band, read, bar, Len(tape'))
                      /\ UNCHANGED watched
        BY <2>2 DEF Next, CloseBar
      <3>2. bar \in AllBars
        BY <2>2, TapeGrows DEF Next
      <3>3. Len(tape') <= MaxTime /\ \A t \in 1..Len(tape') : tape'[t] \in Bars[t]
        BY <3>1, <3>2 DEF IInv, TapeInv, TypeOK
      <3>4. Detected(tape) \subseteq Detected(tape')
        BY <3>1, <3>2, DetectedGrows DEF IInv, TapeInv
      <3>5. \A p \in watched' : p \in Detected(tape')
        BY <3>1, <3>4 DEF TypeOK, Formed
      <3>6. QED
        BY <3>3, <3>5 DEF IInv, ReadInv, TypeOK
    <2>3. QED
      BY <2>1, <2>2
  <1>3. QED
    BY <1>1, <1>2, IInvAlways, PTL DEF Spec

-----------------------------------------------------------------------------
(* Recursions over the bars *)

\* A set of indices that is not empty has a least one.
LEMMA LeastIndex ==
    ASSUME NEW T, T \subseteq Nat, T # {}
    PROVE  \E x \in T : \A y \in T : x <= y
<1> DEFINE Less == {pair \in Nat \X Nat : pair[1] < pair[2]}
<1>1. IsWellFoundedOn(Less, Nat)
  BY NatLessThanWellFounded DEF OpToRel
<1>2. PICK x \in T : \A y \in T : ~(<<y, x>> \in Less)
  <2> HIDE DEF Less
  <2> QED
    BY <1>1, WFMin
<1>3. ASSUME NEW y \in T PROVE x <= y
  <2>1. x \in Nat /\ y \in Nat
    OBVIOUS
  <2>2. ~(y < x)
    BY <1>2, <2>1
  <2> QED
    BY <2>1, <2>2
<1> QED
  BY <1>3

\* Induction over the indices 0..n, for a set of them: the least index outside the
\* set would follow one inside it.
LEMMA Induction ==
    ASSUME NEW n \in Nat, NEW T, 0 \in T, \A i \in 0..(n - 1) : i \in T => i + 1 \in T
    PROVE  \A i \in 0..n : i \in T
<1> DEFINE Bad == (0..n) \ T
<1>1. SUFFICES ASSUME Bad # {} PROVE FALSE
  OBVIOUS
<1>2. PICK m \in Bad : \A y \in Bad : m <= y
  <2>1. Bad \subseteq Nat
    OBVIOUS
  <2> HIDE DEF Bad
  <2> QED
    BY <1>1, <2>1, LeastIndex
<1>3. m \in 1..n /\ m \notin T
  BY <1>2
<1>4. m - 1 \in 0..(n - 1) /\ m - 1 \notin Bad
  BY <1>2, <1>3
<1>5. m - 1 \in T /\ (m - 1) + 1 = m
  BY <1>3, <1>4
<1> QED
  BY <1>3, <1>4, <1>5


\* f does what DerivePoiLifecycle does with the bars after the band's formation.
ReadTo(f, bars, after, band) ==
    /\ f[after] = NewRead
    /\ \A t \in (after + 1)..Len(bars) : f[t] = Replay(band, f[t - 1], bars[t], t)

\* DerivePoiLifecycle is the last value of such a recursion.
LEMMA ReadExists ==
    ASSUME NEW bars, Len(bars) \in Nat, NEW after \in 0..Len(bars), NEW band
    PROVE  \E f : ReadTo(f, bars, after, band) /\ DerivePoiLifecycle(bars, after, band) = f[Len(bars)]
<1> DEFINE N == Len(bars)
           d == N - after
           e(f, t) == IF t = after THEN NewRead ELSE Replay(band, f[t - 1], bars[t], t)
           Solves(f, m) == f = [t \in after..m |-> e(f, t)]
           T == {k \in 0..d : \E f : Solves(f, after + k)}
<1>0. N \in Nat /\ d \in Nat /\ after \in Nat /\ after + d = N
  OBVIOUS
<1>1. 0 \in T
  <2> DEFINE g == [t \in after..after |-> NewRead]
  <2>1. Solves(g, after)
    <3>1. \A t \in after..after : e(g, t) = NewRead
      OBVIOUS
    <3> HIDE DEF e
    <3> QED
      BY <3>1
  <2> HIDE DEF g, Solves
  <2>2. after + 0 = after /\ 0 \in 0..d
    BY <1>0
  <2> QED
    BY <2>1, <2>2
<1>2. ASSUME NEW k \in 0..(d - 1), k \in T PROVE k + 1 \in T
  <2> DEFINE m == after + k
  <2>0. m \in Nat /\ after <= m /\ after + (k + 1) = m + 1 /\ k + 1 \in 0..d
    BY <1>0
  <2>1. PICK f : Solves(f, m)
    BY <1>2
  <2>2. f = [t \in after..m |-> e(f, t)]
    BY <2>1
  <2> HIDE DEF e, m
  <2> DEFINE g == [t \in after..(m + 1) |-> IF t <= m THEN f[t] ELSE e(f, t)]
  <2>3. \A t \in after..(m + 1) : t # after => t - 1 \in after..m /\ g[t - 1] = f[t - 1]
    <3>1. \A t \in after..(m + 1) : t # after =>
              t - 1 \in after..m /\ t - 1 \in after..(m + 1) /\ t - 1 <= m
      BY <1>0, <2>0
    <3> QED
      BY <3>1
  <2>4. \A t \in after..(m + 1) : g[t] = e(f, t)
    <3>1. \A t \in after..(m + 1) : t <= m => t \in after..m
      BY <2>0
    <3> QED
      BY <2>2, <3>1
  <2>5. \A t \in after..(m + 1) : e(g, t) = e(f, t)
    <3> HIDE DEF g
    <3> QED
      BY <2>3, Zenon DEF e
  <2>6. g = [t \in after..(m + 1) |-> e(g, t)]
    <3>1. g = [t \in after..(m + 1) |-> g[t]]
      OBVIOUS
    <3> HIDE DEF g
    <3> QED
      BY <2>4, <2>5, <3>1
  <2> HIDE DEF g
  <2>7. Solves(g, m + 1)
    BY <2>6
  <2> HIDE DEF Solves
  <2> QED
    BY <2>0, <2>7
<1>3. d \in T
  <2>1. \A k \in 0..d : k \in T
    <3> HIDE DEF T, d
    <3> QED
      BY <1>0, <1>1, <1>2, Induction
  <2>2. d \in 0..d
    BY <1>0
  <2> QED
    BY <2>1, <2>2
<1> DEFINE P(f) == Solves(f, N)
           h == CHOOSE f : P(f)
<1>4. DerivePoiLifecycle(bars, after, band) = h[N]
  BY Zenon DEF DerivePoiLifecycle
<1>5. P(h)
  <2>1. \E f : P(f)
    <3>1. after + d = N
      BY <1>0
    <3> HIDE DEF Solves, d, N
    <3> QED
      BY <1>3, <3>1
  <2> HIDE DEF P
  <2> QED
    BY <2>1
<1> HIDE DEF h
<1>6. ReadTo(h, bars, after, band)
  <2>1. \A t \in after..N : h[t] = e(h, t)
    <3> HIDE DEF e
    <3>1. h = [t \in after..N |-> e(h, t)]
      BY <1>5
    <3> QED
      BY <3>1
  <2>2. after \in after..N /\ \A t \in (after + 1)..N : t \in after..N /\ t # after
    BY <1>0
  <2> QED
    BY <2>1, <2>2, Zenon DEF ReadTo
<1> QED
  BY <1>4, <1>6

\* One more bar is one more turn of the loop.
LEMMA ReadGoesOn ==
    ASSUME NEW bars, NEW longer, Len(bars) \in Nat, Len(longer) = Len(bars) + 1,
           Agree(bars, longer, Len(bars)), NEW after \in 0..Len(bars), NEW band
    PROVE  DerivePoiLifecycle(longer, after, band)
             = Replay(band, DerivePoiLifecycle(bars, after, band), longer[Len(longer)], Len(longer))
<1> DEFINE N == Len(bars)
           d == N - after
<1>0. /\ N \in Nat /\ d \in Nat /\ after \in Nat /\ after + d = N /\ Len(longer) \in Nat
      /\ after \in 0..Len(longer)
  OBVIOUS
<1>1. PICK f : ReadTo(f, bars, after, band) /\ DerivePoiLifecycle(bars, after, band) = f[N]
  BY ReadExists
<1>2. PICK g : /\ ReadTo(g, longer, after, band)
               /\ DerivePoiLifecycle(longer, after, band) = g[Len(longer)]
  BY <1>0, ReadExists
<1> DEFINE T == {k \in 0..d : g[after + k] = f[after + k]}
<1>3. 0 \in T
  <2>1. after + 0 = after /\ 0 \in 0..d
    BY <1>0
  <2> QED
    BY <1>1, <1>2, <2>1 DEF ReadTo
<1>4. ASSUME NEW k \in 0..(d - 1), k \in T PROVE k + 1 \in T
  <2> DEFINE t == after + (k + 1)
  <2>1. /\ t \in (after + 1)..N /\ t \in (after + 1)..Len(longer) /\ t - 1 = after + k
        /\ k + 1 \in 0..d /\ t \in 1..N
    BY <1>0
  <2>2. f[t] = Replay(band, f[t - 1], bars[t], t)
    BY <1>1, <2>1 DEF ReadTo
  <2>3. g[t] = Replay(band, g[t - 1], longer[t], t)
    BY <1>2, <2>1 DEF ReadTo
  <2>4. longer[t] = bars[t]
    BY <2>1 DEF Agree
  <2>5. g[t - 1] = f[t - 1]
    BY <1>4, <2>1
  <2>6. g[t] = f[t]
    BY <2>2, <2>3, <2>4, <2>5, Zenon
  <2> QED
    BY <2>1, <2>6
<1>5. g[N] = f[N]
  <2>1. \A k \in 0..d : k \in T
    <3> HIDE DEF T, d
    <3> QED
      BY <1>0, <1>3, <1>4, Induction
  <2>2. d \in 0..d
    BY <1>0
  <2>3. g[after + d] = f[after + d]
    BY <2>1, <2>2
  <2> QED
    BY <1>0, <2>3
<1>6. Len(longer) \in (after + 1)..Len(longer) /\ Len(longer) - 1 = N
  BY <1>0
<1>7. g[Len(longer)] = Replay(band, g[N], longer[Len(longer)], Len(longer))
  BY <1>2, <1>6 DEF ReadTo
<1> QED
  BY <1>1, <1>2, <1>5, <1>7, Zenon

-----------------------------------------------------------------------------
(* Where a band that is found ends *)

\* What a detector finds ends at a bar of the window, and has one of two kinds.
LEMMA DetectedEnds ==
    ASSUME NEW bars, Len(bars) \in Nat, NEW p \in Detected(bars)
    PROVE  p.end \in 1..Len(bars) /\ p.band.kind \in {"demand", "supply"}
<1>0. FirstDeparture \in Nat \ {0}
  BY DetectorAssumption, AtrAssumption
<1>1. CASE p \in ComputeBaseZoneCandidates(bars)
  <2>1. PICK i \in Candidates(bars) : p \in ZoneAt(bars, i)
    BY <1>1 DEF ComputeBaseZoneCandidates
  <2>2. i \in 1..Len(bars)
    BY <1>0, <2>1 DEF Candidates
  <2>3. p.end = i /\ p.band.kind \in {"demand", "supply"}
    BY <2>1 DEF ZoneAt
  <2> QED
    BY <2>2, <2>3
<1>2. CASE p \in DetectOrderBlocks(bars)
  <2>1. PICK i \in Candidates(bars) : p \in BlockAt(bars, i)
    BY <1>2 DEF DetectOrderBlocks
  <2>2. i \in 1..Len(bars)
    BY <1>0, <2>1 DEF Candidates
  <2>3. p.end = i /\ p.band.kind \in {"demand", "supply"}
    BY <2>1 DEF BlockAt
  <2> QED
    BY <2>2, <2>3
<1>3. CASE p \in DetectFvgs(bars)
  <2>1. PICK i \in 3..Len(bars) : p \in GapAt(bars, i)
    BY <1>3 DEF DetectFvgs
  <2>2. p.end = i /\ p.band.kind \in {"demand", "supply"}
    BY <2>1 DEF GapAt
  <2> QED
    BY <2>1, <2>2
<1> QED
  BY <1>1, <1>2, <1>3 DEF Detected

-----------------------------------------------------------------------------
(* The freshness of zones.ts and the lifecycle, over a whole window *)

\* What zoneFreshness starts with, what a bar makes of it, and its verdict.
FreshStart == [touches |-> 0, inside |-> TRUE, gone |-> FALSE]

FreshTurn(z, r, bar) ==
    LET visits == r.touches + (IF Touching(z, bar) /\ ~r.inside THEN 1 ELSE 0)
    IN  IF r.gone \/ Through(z, bar) \/ visits >= 2 THEN [r EXCEPT !.gone = TRUE]
        ELSE [touches |-> visits, inside |-> Touching(z, bar), gone |-> FALSE]

FreshVerdict(last) ==
    IF last.gone THEN "gone" ELSE IF last.touches = 0 THEN "fresh" ELSE "tested"

\* f does what zoneFreshness does with the bars after a zone's departure.
FreshTo(f, bars, poi) ==
    /\ f[poi.end] = FreshStart
    /\ \A t \in (poi.end + 1)..Len(bars) : f[t] = FreshTurn(poi.band, f[t - 1], bars[t])

\* zoneFreshness is the verdict on the last value of such a recursion.
LEMMA FreshExists ==
    ASSUME NEW bars, Len(bars) \in Nat, NEW poi, poi.end \in 0..Len(bars)
    PROVE  \E f : FreshTo(f, bars, poi) /\ Freshness(bars, poi) = FreshVerdict(f[Len(bars)])
<1> DEFINE N == Len(bars)
           after == poi.end
           d == N - after
           e(f, t) == IF t = after THEN FreshStart ELSE FreshTurn(poi.band, f[t - 1], bars[t])
           Solves(f, m) == f = [t \in after..m |-> e(f, t)]
           T == {k \in 0..d : \E f : Solves(f, after + k)}
<1>0. N \in Nat /\ d \in Nat /\ after \in Nat /\ after + d = N
  OBVIOUS
<1>1. 0 \in T
  <2> DEFINE g == [t \in after..after |-> FreshStart]
  <2>1. Solves(g, after)
    <3>1. \A t \in after..after : e(g, t) = FreshStart
      OBVIOUS
    <3> HIDE DEF e
    <3> QED
      BY <3>1
  <2> HIDE DEF g, Solves
  <2>2. after + 0 = after /\ 0 \in 0..d
    BY <1>0
  <2> QED
    BY <2>1, <2>2
<1>2. ASSUME NEW k \in 0..(d - 1), k \in T PROVE k + 1 \in T
  <2> DEFINE m == after + k
  <2>0. m \in Nat /\ after <= m /\ after + (k + 1) = m + 1 /\ k + 1 \in 0..d
    BY SMTT(30), <1>0
  <2>1. PICK f : Solves(f, m)
    BY <1>2
  <2>2. f = [t \in after..m |-> e(f, t)]
    BY <2>1
  <2> HIDE DEF e, m
  <2> DEFINE g == [t \in after..(m + 1) |-> IF t <= m THEN f[t] ELSE e(f, t)]
  <2>3. \A t \in after..(m + 1) : t # after => t - 1 \in after..m /\ g[t - 1] = f[t - 1]
    <3>1. \A t \in after..(m + 1) : t # after =>
              t - 1 \in after..m /\ t - 1 \in after..(m + 1) /\ t - 1 <= m
      BY <1>0, <2>0, SMTT(40)
    <3> QED
      BY <3>1
  <2>4. \A t \in after..(m + 1) : g[t] = e(f, t)
    <3>1. \A t \in after..(m + 1) : t <= m => t \in after..m
      BY <2>0
    <3> QED
      BY <2>2, <3>1
  <2>5. \A t \in after..(m + 1) : e(g, t) = e(f, t)
    <3> HIDE DEF g
    <3> QED
      BY <2>3, Zenon DEF e
  <2>6. g = [t \in after..(m + 1) |-> e(g, t)]
    <3>1. g = [t \in after..(m + 1) |-> g[t]]
      OBVIOUS
    <3> HIDE DEF g
    <3> QED
      BY <2>4, <2>5, <3>1
  <2> HIDE DEF g
  <2>7. Solves(g, m + 1)
    BY <2>6
  <2> HIDE DEF Solves
  <2> QED
    BY <2>0, <2>7
<1>3. d \in T
  <2>1. \A k \in 0..d : k \in T
    <3> HIDE DEF T, d
    <3> QED
      BY <1>0, <1>1, <1>2, Induction
  <2>2. d \in 0..d
    BY <1>0
  <2> QED
    BY <2>1, <2>2
<1> DEFINE P(f) == Solves(f, N)
           h == CHOOSE f : P(f)
<1>4. Freshness(bars, poi) = FreshVerdict(h[N])
  BY Zenon DEF Freshness, FreshVerdict, FreshTurn, FreshStart
<1>5. P(h)
  <2>1. \E f : P(f)
    <3>1. after + d = N
      BY <1>0
    <3> HIDE DEF Solves, d, N
    <3> QED
      BY <1>3, <3>1
  <2> HIDE DEF P
  <2> QED
    BY <2>1
<1> HIDE DEF h
<1>6. FreshTo(h, bars, poi)
  <2>1. \A t \in after..N : h[t] = e(h, t)
    <3> HIDE DEF e
    <3>1. h = [t \in after..N |-> e(h, t)]
      BY <1>5
    <3> QED
      BY <3>1
  <2>2. after \in after..N /\ \A t \in (after + 1)..N : t \in after..N /\ t # after
    BY <1>0
  <2> QED
    BY <2>1, <2>2, Zenon DEF FreshTo
<1> QED
  BY <1>4, <1>6

-----------------------------------------------------------------------------
(* Both rankings put the same zones first *)

\* What that loop carries.
IsFreshRead(r) ==
    DOMAIN r = {"touches", "inside", "gone"} /\ r.touches \in Nat /\ r.gone \in BOOLEAN

\* The two loops side by side: gone is terminal, and a live zone has the visits and
\* the place of its read.
Beside(r, q) ==
    /\ IsFreshRead(r)
    /\ r.gone <=> q.state \in Terminal
    /\ q.state \in States
    /\ ~r.gone => /\ r.touches = q.touches /\ r.touches \in 0..1 /\ r.inside = q.inside
                  /\ q.state = "fresh" <=> q.touches = 0

\* They start beside each other,
LEMMA BesideStart == Beside(FreshStart, NewRead)
BY DEF Beside, FreshStart, NewRead, IsFreshRead, Terminal, States

\* and a bar keeps them so; a bar that closes through leaves no live zone.
LEMMA BesideTurn ==
    ASSUME NEW r, NEW q, Beside(r, q), NEW band, NEW bar, NEW t
    PROVE  /\ Beside(FreshTurn(band, r, bar), Replay(band, q, bar, t))
           /\ ~FreshTurn(band, r, bar).gone => ~r.gone /\ ~Through(band, bar)
<1> DEFINE touching == Touching(band, bar)
           deepest == Deeper(band, q, bar)
           touches == IF touching /\ ~q.inside THEN q.touches + 1 ELSE q.touches
           visits == r.touches + (IF touching /\ ~r.inside THEN 1 ELSE 0)
           r2 == FreshTurn(band, r, bar)
           q2 == Replay(band, q, bar, t)
<1>1. CASE r.gone \/ Through(band, bar)
  <2>1. r2 = [r EXCEPT !.gone = TRUE]
    BY <1>1 DEF FreshTurn
  <2>2. IsFreshRead(r2) /\ r2.gone
    BY <2>1 DEF Beside, IsFreshRead
  <2>3. q2.state \in Terminal
    <3>1. CASE q.state \in Terminal
      BY <3>1 DEF Replay
    <3>2. CASE q.state \notin Terminal /\ Through(band, bar)
      <4>1. q2.state = "invalidated"
        BY <3>2 DEF Replay
      <4> QED
        BY <4>1 DEF Terminal
    <3> QED
      BY <1>1, <3>1, <3>2 DEF Beside
  <2>4. q2.state \in States
    BY <2>3 DEF Terminal, States
  <2> HIDE DEF r2, q2
  <2> QED
    BY <2>2, <2>3, <2>4 DEF Beside, r2, q2
<1>2. CASE ~r.gone /\ ~Through(band, bar)
  <2>1. visits = touches /\ visits \in 0..2 /\ q.state \notin Terminal
    BY <1>2 DEF Beside
  <2>2. CASE visits >= 2
    <3>1. r2 = [r EXCEPT !.gone = TRUE]
      BY <1>2, <2>2 DEF FreshTurn
    <3>2. IsFreshRead(r2) /\ r2.gone
      BY <3>1 DEF Beside, IsFreshRead
    <3>3. q2.state = "consumed"
      BY <1>2, <2>1, <2>2 DEF Replay
    <3>4. q2.state \in Terminal /\ q2.state \in States
      BY <3>3 DEF Terminal, States
    <3> HIDE DEF r2, q2
    <3> QED
      BY <3>2, <3>4 DEF Beside, r2, q2
  <2>3. CASE ~(visits >= 2)
    <3>1. r2 = [touches |-> visits, inside |-> touching, gone |-> FALSE]
      BY <1>2, <2>3 DEF FreshTurn
    <3>2. IsFreshRead(r2) /\ ~r2.gone /\ r2.touches = visits /\ r2.inside = touching
      BY <2>1, <3>1 DEF IsFreshRead
    <3>3. /\ q2.state = LiveState(band, touches, deepest) /\ q2.touches = touches
          /\ q2.inside = touching
      BY <1>2, <2>1, <2>3 DEF Replay
    <3>4. /\ q2.state \in {"fresh", "tested", "mitigated"}
          /\ q2.state = "fresh" <=> touches = 0
      BY <3>3, LiveStates
    <3>5. q2.state \in States /\ q2.state \notin Terminal
      BY <3>4 DEF Terminal, States
    <3> HIDE DEF r2, q2, visits, touches, touching
    <3>6. r2.touches \in 0..1
      BY <2>1, <2>3, <3>2
    <3>7. Beside(r2, q2)
      BY <2>1, <3>2, <3>3, <3>4, <3>5, <3>6 DEF Beside
    <3> QED
      BY <1>2, <3>7 DEF r2, q2
  <2> QED
    BY <2>2, <2>3
<1> QED
  BY <1>1, <1>2

\* zoneFreshness gives the verdict the state of the lifecycle stands for, and a zone
\* that is not gone was not closed through.
LEMMA FreshnessAgrees ==
    ASSUME NEW bars, Len(bars) \in Nat, NEW poi, poi.end \in 0..Len(bars)
    PROVE  /\ Freshness(bars, poi) = Collapse(Read(bars, poi).state)
           /\ Read(bars, poi).state \in States
           /\ Freshness(bars, poi) # "gone" =>
                  \A t \in (poi.end + 1)..Len(bars) : ~Through(poi.band, bars[t])
<1> DEFINE N == Len(bars)
           after == poi.end
           d == N - after
           Whole(k) == \A t \in (after + 1)..(after + k) : ~Through(poi.band, bars[t])
<1>0. N \in Nat /\ d \in Nat /\ after \in Nat /\ after + d = N
  OBVIOUS
<1>1. PICK f : FreshTo(f, bars, poi) /\ Freshness(bars, poi) = FreshVerdict(f[N])
  BY FreshExists
<1>2. PICK g : ReadTo(g, bars, after, poi.band) /\ Read(bars, poi) = g[N]
  BY ReadExists DEF Read
<1> DEFINE T == {k \in 0..d : /\ Beside(f[after + k], g[after + k])
                              /\ ~f[after + k].gone => Whole(k)}
<1>3. 0 \in T
  <2>1. after + 0 = after /\ 0 \in 0..d /\ (after + 1)..(after + 0) = {}
    BY <1>0
  <2>2. Beside(f[after], g[after])
    BY <1>1, <1>2, BesideStart DEF FreshTo, ReadTo
  <2> QED
    BY <2>1, <2>2
<1>4. ASSUME NEW k \in 0..(d - 1), k \in T PROVE k + 1 \in T
  <2>0. Beside(f[after + k], g[after + k]) /\ (~f[after + k].gone => Whole(k))
    BY <1>4
  <2> HIDE DEF T, Whole, N, after, d
  <2>00. \A j \in (after + 1)..(after + (k + 1)) : j \in (after + 1)..(after + k) \/ j = after + (k + 1)
    BY <1>0
  <2> DEFINE t == after + (k + 1)
  <2>1. t \in (after + 1)..N /\ t - 1 = after + k /\ k + 1 \in 0..d
    BY <1>0
  <2>2. f[t] = FreshTurn(poi.band, f[t - 1], bars[t]) /\ g[t] = Replay(poi.band, g[t - 1], bars[t], t)
    BY <1>1, <1>2, <2>1 DEF FreshTo, ReadTo, N, after
  <2>3. Beside(f[t - 1], g[t - 1]) /\ (~f[t - 1].gone => Whole(k))
    BY <2>0, <2>1
  <2> HIDE DEF t
  <2>4. Beside(f[t], g[t]) /\ (~f[t].gone => ~f[t - 1].gone /\ ~Through(poi.band, bars[t]))
    BY <2>2, <2>3, BesideTurn
  <2>5. ~f[t].gone => Whole(k + 1)
    <3>1. \A j \in (after + 1)..(after + (k + 1)) : j \in (after + 1)..(after + k) \/ j = t
      BY <2>00 DEF t
    <3> QED
      BY <2>3, <2>4, <3>1 DEF Whole
  <2> QED
    BY <2>1, <2>4, <2>5 DEF t, T
<1>5. Beside(f[N], g[N]) /\ (~f[N].gone => Whole(d))
  <2>1. \A k \in 0..d : k \in T
    <3> HIDE DEF T, d
    <3> QED
      BY <1>0, <1>3, <1>4, Induction
  <2>2. d \in 0..d
    BY <1>0
  <2>3. Beside(f[after + d], g[after + d]) /\ (~f[after + d].gone => Whole(d))
    <3>1. d \in T
      BY <2>1, <2>2
    <3> HIDE DEF Whole
    <3> QED
      BY <3>1
  <2> QED
    BY <1>0, <2>3
<1>6. FreshVerdict(f[N]) = Collapse(g[N].state)
  BY <1>5 DEF Beside, FreshVerdict, Collapse, States, Terminal, IsFreshRead
<1>7. Freshness(bars, poi) # "gone" => ~f[N].gone
  BY <1>1 DEF FreshVerdict
<1> QED
  BY <1>0, <1>1, <1>2, <1>5, <1>6, <1>7 DEF Beside

\* For every tape and every band found in it, the state of the lifecycle collapses
\* to the verdict of zoneFreshness (poi-lifecycle.ts).
THEOREM ReplaysAgree == Spec => []FreshnessReproduced
<1>1. IInv => FreshnessReproduced
  <2> SUFFICES ASSUME IInv, NEW p \in Detected(tape)
               PROVE  Freshness(tape, p) = Collapse(Read(tape, p).state)
    BY DEF FreshnessReproduced
  <2>1. Len(tape) \in Nat
    BY DEF IInv, TapeInv
  <2>2. p.end \in 0..Len(tape)
    BY <2>1, DetectedEnds
  <2> QED
    BY <2>1, <2>2, FreshnessAgrees
<1> QED
  BY <1>1, IInvAlways, PTL

\* rankPois and selectPoi put the same zones first: what is gone loses to what lives,
\* and among the living both compare alike.
LEMMA SameFirst ==
    ASSUME NEW bars, Len(bars) \in Nat, NEW ls, NEW range, NEW kind, NEW from
    PROVE  LET candidates == ComputeBaseZoneCandidates(bars)
               live == {z \in candidates : Freshness(bars, z) # "gone"}
               selected == SelectPoi(bars, ls, range, live, kind, from)
           IN  selected # {} => RankedFirst(bars, ls, range, candidates, kind, from) = selected
<1> DEFINE candidates == ComputeBaseZoneCandidates(bars)
           live == {z \in candidates : Freshness(bars, z) # "gone"}
           selected == SelectPoi(bars, ls, range, live, kind, from)
           reachable == {z \in live : Reachable(kind, from, z.band)}
           listed == {z \in candidates : Reachable(kind, from, z.band)}
           fresh == {z \in reachable : Freshness(bars, z) = "fresh"}
           freshListed == {z \in listed : Read(bars, z).state = "fresh"}
           dead(z) == Read(bars, z).state \in Terminal
<1> SUFFICES ASSUME selected # {}
             PROVE  RankedFirst(bars, ls, range, candidates, kind, from) = selected
  OBVIOUS
<1>1. \A z \in candidates : /\ Freshness(bars, z) = Collapse(Read(bars, z).state)
                            /\ Read(bars, z).state \in States
  <2> TAKE z \in candidates
  <2>1. z.end \in 0..Len(bars)
    BY DetectedEnds DEF Detected
  <2> QED
    BY <2>1, FreshnessAgrees
<1>2. \A z \in candidates : /\ Freshness(bars, z) = "gone" <=> dead(z)
                            /\ Freshness(bars, z) = "fresh" <=> Read(bars, z).state = "fresh"
  BY <1>1 DEF Collapse, States, Terminal
<1> HIDE DEF candidates
<1>3. reachable = {z \in listed : ~dead(z)}
  BY <1>2
<1>4. freshListed = fresh
  <2>1. \A z \in listed : z \in freshListed => z \in reachable
    BY <1>2
  <2> QED
    BY <1>2, <2>1
<1>5. selected = {z \in reachable : \A y \in reachable : ~Preferred(ls, range, y, z, fresh)}
  BY DEF SelectPoi
<1>6. RankedFirst(bars, ls, range, candidates, kind, from) =
        {p \in listed : \A q \in listed : ~Outranks(bars, ls, range, listed, q, p)}
  BY DEF RankedFirst
<1>7. \A a, b : Outranks(bars, ls, range, listed, a, b) <=>
                  \/ ~dead(a) /\ dead(b)
                  \/ dead(a) = dead(b) /\ Preferred(ls, range, a, b, freshListed)
  BY Zenon DEF Outranks
<1> HIDE DEF listed, reachable, fresh, freshListed, selected, dead
<1>8. PICK z0 \in listed : ~dead(z0)
  BY <1>3, <1>5
<1>9. \A a : dead(a) \in BOOLEAN
  BY DEF dead
<1>10. ASSUME NEW p \in listed
       PROVE  (\A q \in listed : ~Outranks(bars, ls, range, listed, q, p)) <=>
              (p \in reachable /\ \A y \in reachable : ~Preferred(ls, range, y, p, fresh))
  <2>1. CASE dead(p)
    BY <1>3, <1>7, <1>8, <2>1
  <2>2. CASE ~dead(p)
    BY <1>3, <1>4, <1>7, <1>9, <2>2
  <2> QED
    BY <2>1, <2>2
<1>11. \A p \in reachable : p \in listed
  BY <1>3
<1> QED
  BY <1>5, <1>6, <1>10, <1>11

\* For every tape, rankPois over the ledger's zones puts first exactly the zones that
\* selectPoi chooses for the plan (poi-map.ts, poi.ts).
THEOREM RankingsAgree == Spec => []RankAgreesWithSelect
<1>1. IInv => RankAgreesWithSelect
  <2>1. IInv => Len(tape) \in Nat
    BY DEF IInv, TapeInv
  <2> QED
    BY <2>1, SameFirst DEF RankAgreesWithSelect
<1> QED
  BY <1>1, IInvAlways, PTL

-----------------------------------------------------------------------------
(* Sums and extremes of integers *)

\* The values of a function over a finite set add up to an integer.
LEMMA SumIsInt ==
    ASSUME NEW v, IsFiniteSet(DOMAIN v), \A x \in DOMAIN v : v[x] \in Int
    PROVE  FoldFunction(LAMBDA x, y : x + y, 0, v) \in Int
<1> DEFINE S == DOMAIN v
           pick(s) == CHOOSE x \in s : TRUE
           e(g, s) == IF s = {} THEN 0 ELSE v[pick(s)] + g[s \ {pick(s)}]
           N == Cardinality(S)
           D(m) == {s \in SUBSET S : Cardinality(s) <= m}
           Solves(g, m) == g = [s \in D(m) |-> e(g, s)]
           T == {m \in 0..N : \E g : Solves(g, m)}
           Goal(g) == g = [s \in SUBSET S |-> e(g, s)]
<1>0. IsFiniteSet(S) /\ N \in Nat
  BY FS_CardinalityType
<1>a. FoldFunction(LAMBDA x, y : x + y, 0, v) = (CHOOSE g : Goal(g))[S]
  BY Zenon DEF FoldFunction, FoldFunctionOnSet, MapThenFoldSet
<1>b. \A s \in SUBSET S : IsFiniteSet(s) /\ Cardinality(s) \in 0..N
  BY <1>0, FS_Subset, FS_CardinalityType
<1>c. \A s \in SUBSET S : s # {} =>
          /\ pick(s) \in s /\ s \ {pick(s)} \in SUBSET S
          /\ Cardinality(s \ {pick(s)}) = Cardinality(s) - 1
  <2> TAKE s \in SUBSET S
  <2> SUFFICES ASSUME s # {} PROVE /\ pick(s) \in s /\ s \ {pick(s)} \in SUBSET S
                                   /\ Cardinality(s \ {pick(s)}) = Cardinality(s) - 1
    OBVIOUS
  <2>1. pick(s) \in s
    OBVIOUS
  <2> HIDE DEF pick
  <2> QED
    BY <1>b, <2>1, FS_RemoveElement
<1>d. {} \in SUBSET S /\ Cardinality({}) = 0 /\ \A s \in SUBSET S : Cardinality(s) = 0 => s = {}
  BY <1>b, FS_EmptySet
<1> HIDE DEF S, N, pick
<1>1. 0 \in T
  <2> DEFINE g == [s \in D(0) |-> 0]
  <2>1. \A s \in D(0) : s = {}
    BY <1>b, <1>d
  <2>2. \A s \in D(0) : e(g, s) = 0
    BY <2>1
  <2>3. Solves(g, 0)
    <3> HIDE DEF e, D
    <3> QED
      BY <2>2
  <2> HIDE DEF g, Solves
  <2> QED
    BY <1>0, <2>3
<1>2. ASSUME NEW m \in 0..(N - 1), m \in T PROVE m + 1 \in T
  <2>0. m \in Nat /\ m + 1 \in 0..N
    BY <1>0
  <2>1. PICK f : Solves(f, m)
    BY <1>2
  <2>2. f = [s \in D(m) |-> e(f, s)]
    BY <2>1
  <2> DEFINE g == [s \in D(m + 1) |-> IF s \in D(m) THEN f[s] ELSE e(f, s)]
  <2>3. \A s \in D(m + 1) : s # {} => s \ {pick(s)} \in D(m) /\ s \ {pick(s)} \in D(m + 1)
    BY <1>b, <1>c, <2>0
  <2> HIDE DEF e, D
  <2>4. \A s \in D(m + 1) : g[s] = e(f, s)
    BY <2>2
  <2>5. \A s \in D(m + 1) : e(g, s) = e(f, s)
    <3>1. \A s \in D(m + 1) : s # {} => g[s \ {pick(s)}] = f[s \ {pick(s)}]
      BY <2>3
    <3> HIDE DEF g
    <3> QED
      BY <3>1, Zenon DEF e
  <2>6. g = [s \in D(m + 1) |-> e(g, s)]
    <3>1. g = [s \in D(m + 1) |-> g[s]]
      OBVIOUS
    <3> HIDE DEF g
    <3> QED
      BY <2>4, <2>5, <3>1
  <2> HIDE DEF g
  <2>7. Solves(g, m + 1)
    BY <2>6
  <2> HIDE DEF Solves
  <2> QED
    BY <2>0, <2>7
<1>3. N \in T
  <2>1. \A m \in 0..N : m \in T
    <3> HIDE DEF T
    <3> QED
      BY <1>0, <1>1, <1>2, Induction
  <2>2. N \in 0..N
    BY <1>0
  <2> QED
    BY <2>1, <2>2
<1> DEFINE h == CHOOSE g : Goal(g)
<1>5. Goal(h)
  <2>1. D(N) = SUBSET S
    BY <1>b
  <2>2. PICK g : Solves(g, N)
    BY <1>3
  <2>3. Goal(g)
    <3> HIDE DEF e, D
    <3> QED
      BY <2>1, <2>2
  <2> HIDE DEF Goal
  <2> QED
    BY <2>3
<1>f. FoldFunction(LAMBDA x, y : x + y, 0, v) = h[S]
  BY <1>a, Zenon DEF pick
<1> HIDE DEF h
<1>6. \A s \in SUBSET S : h[s] = e(h, s)
  <2>1. h = [s \in SUBSET S |-> e(h, s)]
    BY <1>5
  <2> HIDE DEF e
  <2> QED
    BY <2>1
<1> DEFINE U == {m \in 0..N : \A s \in D(m) : h[s] \in Int}
<1>7. 0 \in U
  <2>1. \A s \in D(0) : s = {}
    BY <1>b, <1>d
  <2>2. h[{}] = 0
    BY <1>6, <1>d
  <2> QED
    BY <1>0, <2>1, <2>2
<1>8. ASSUME NEW m \in 0..(N - 1), m \in U PROVE m + 1 \in U
  <2>0. m \in Nat /\ m + 1 \in 0..N
    BY <1>0
  <2>1. ASSUME NEW s \in D(m + 1), s # {} PROVE h[s] \in Int
    <3>1. s \in SUBSET S /\ pick(s) \in S /\ s \ {pick(s)} \in D(m)
      BY <1>b, <1>c, <2>0, <2>1
    <3>2. h[s] = v[pick(s)] + h[s \ {pick(s)}]
      BY <1>6, <2>1, <3>1
    <3>3. h[s \ {pick(s)}] \in Int
      BY <1>8, <3>1
    <3>4. v[pick(s)] \in Int
      BY <3>1 DEF S
    <3> QED
      BY <3>2, <3>3, <3>4
  <2>2. h[{}] = 0
    BY <1>6, <1>d
  <2>3. \A s \in D(m + 1) : h[s] \in Int
    <3>1. h[{}] \in Int
      BY <2>2
    <3> HIDE DEF D
    <3> QED
      BY <2>1, <3>1, Zenon
  <2> HIDE DEF D
  <2> QED
    BY <2>0, <2>3
<1>9. \A m \in 0..N : m \in U
  <2> HIDE DEF U
  <2> QED
    BY <1>0, <1>7, <1>8, Induction
<1>10. S \in D(N) /\ N \in U
  BY <1>0, <1>9 DEF N
<1>11. h[S] \in Int
  BY <1>10
<1> QED
  BY <1>f, <1>11, Zenon

\* A function with integer values over a finite set has a greatest value.
LEMMA GreatestValue ==
    ASSUME NEW J, IsFiniteSet(J), J # {}, NEW v, \A j \in J : v[j] \in Int
    PROVE  \E a \in J : \A j \in J : v[j] <= v[a]
<1> DEFINE N == Cardinality(J)
           Tops(s) == \E a \in s : \A j \in s : v[j] <= v[a]
           D(m) == {s \in SUBSET J : s # {} /\ Cardinality(s) <= m}
           T == {m \in 0..N : \A s \in D(m) : Tops(s)}
<1>0. N \in Nat
  BY FS_CardinalityType
<1>b. \A s \in SUBSET J : IsFiniteSet(s) /\ Cardinality(s) \in 0..N
  BY <1>0, FS_Subset, FS_CardinalityType
<1> HIDE DEF N
<1>1. 0 \in T
  <2>1. \A s \in SUBSET J : Cardinality(s) = 0 => s = {}
    BY <1>b, FS_EmptySet
  <2> QED
    BY <1>0, <1>b, <2>1
<1>2. ASSUME NEW m \in 0..(N - 1), m \in T PROVE m + 1 \in T
  <2>0. m \in Nat /\ m + 1 \in 0..N
    BY <1>0
  <2>1. ASSUME NEW s \in D(m + 1) PROVE Tops(s)
    <3>1. PICK x \in s : TRUE
      OBVIOUS
    <3>2. s \ {x} \in SUBSET J /\ x \in J /\ Cardinality(s \ {x}) = Cardinality(s) - 1
      BY <1>b, <3>1, FS_RemoveElement
    <3>3. CASE s \ {x} = {}
      <4>1. \A j \in s : j = x
        BY <3>3
      <4>2. v[x] \in Int
        BY <3>2
      <4> QED
        BY <3>1, <4>1, <4>2
    <3>4. CASE s \ {x} # {}
      <4>1. s \ {x} \in D(m)
        BY <1>b, <2>0, <3>2, <3>4
      <4>2. PICK a \in s \ {x} : \A j \in s \ {x} : v[j] <= v[a]
        BY <1>2, <4>1
      <4>3. v[a] \in Int /\ v[x] \in Int /\ \A j \in s : v[j] \in Int
        BY <3>2, <4>2
      <4>4. CASE v[x] <= v[a]
        BY <4>2, <4>4
      <4>5. CASE v[a] <= v[x]
        BY <3>1, <4>2, <4>3, <4>5
      <4> QED
        BY <4>3, <4>4, <4>5
    <3> QED
      BY <3>3, <3>4
  <2> HIDE DEF D, Tops
  <2> QED
    BY <2>0, <2>1
<1>3. \A m \in 0..N : m \in T
  <2> HIDE DEF T
  <2> QED
    BY <1>0, <1>1, <1>2, Induction
<1>4. J \in D(N) /\ N \in T
  BY <1>0, <1>3 DEF N
<1> QED
  BY <1>4

\* So the largest and the smallest of its values are values.
LEMMA ExtremesAreInts ==
    ASSUME NEW J, IsFiniteSet(J), J # {}, NEW v, \A j \in J : v[j] \in Int
    PROVE  Largest({v[j] : j \in J}) \in Int /\ Smallest({v[j] : j \in J}) \in Int
<1> DEFINE V == {v[j] : j \in J}
           w == [j \in J |-> -v[j]]
<1>1. \E x \in V : \A y \in V : y <= x
  <2>1. PICK a \in J : \A j \in J : v[j] <= v[a]
    BY GreatestValue
  <2> QED
    BY <2>1
<1>2. \E x \in V : \A y \in V : x <= y
  <2>0. \A j \in J : w[j] \in Int /\ w[j] = -v[j]
    OBVIOUS
  <2> HIDE DEF w
  <2>1. PICK a \in J : \A j \in J : w[j] <= w[a]
    BY <2>0, GreatestValue
  <2>2. \A j \in J : v[a] <= v[j]
    BY <2>0, <2>1
  <2> QED
    BY <2>2
<1>3. V \subseteq Int
  OBVIOUS
<1> HIDE DEF V
<1>4. Largest(V) \in Int /\ Smallest(V) \in Int
  BY <1>1, <1>2, <1>3 DEF Largest, Smallest
<1> QED
  BY <1>4 DEF V

\* Bars with integer prices.
BarsOk(bars) ==
    /\ Len(bars) \in Nat
    /\ \A t \in 1..Len(bars) : /\ bars[t].open \in Int /\ bars[t].high \in Int
                               /\ bars[t].low \in Int /\ bars[t].close \in Int

\* A true range is a number.
LEMMA TrueRangeIsInt ==
    ASSUME NEW bars, BarsOk(bars), NEW i \in 1..Len(bars)
    PROVE  TrueRange(bars, i) \in Int
<1> DEFINE last == bars[IF i = 1 THEN 1 ELSE i - 1].close
           a == bars[i].high - bars[i].low
           b == Abs(bars[i].high - last)
           c == Abs(bars[i].low - last)
<1>1. (IF i = 1 THEN 1 ELSE i - 1) \in 1..Len(bars)
  BY DEF BarsOk
<1>2. last \in Int /\ bars[i].high \in Int /\ bars[i].low \in Int
  BY <1>1 DEF BarsOk
<1> HIDE DEF last
<1>3. a \in Int /\ b \in Int /\ c \in Int
  BY <1>2, SMTT(40) DEF Abs
<1>4. TrueRange(bars, i) = Largest({a, b, c})
  BY Zenon DEF TrueRange, last
<1> HIDE DEF a, b, c
<1>5. \E x \in {a, b, c} : \A y \in {a, b, c} : y <= x
  BY <1>3
<1> DEFINE S == {a, b, c}
<1>6. S \subseteq Int /\ \E x \in S : \A y \in S : y <= x
  BY <1>3, <1>5
<1>7. TrueRange(bars, i) = Largest(S)
  BY <1>4
<1> HIDE DEF S
<1> QED
  BY <1>6, <1>7 DEF Largest

\* So is the sum an ATR is read from.
LEMMA AtrSumIsInt ==
    ASSUME NEW bars, BarsOk(bars), NEW i \in Nat, AtrLength <= i, i <= Len(bars)
    PROVE  AtrSum(bars, i) \in Int
<1> DEFINE first == i - AtrLength + 1
           ranges == [j \in first..i |-> TrueRange(bars, j)]
<1>1. first \in Int /\ \A j \in first..i : j \in 1..Len(bars)
  BY AtrAssumption DEF BarsOk
<1>2. AtrSum(bars, i) = FoldFunction(LAMBDA x, y : x + y, 0, ranges)
  BY Zenon DEF AtrSum
<1> HIDE DEF first
<1>3. DOMAIN ranges = first..i /\ IsFiniteSet(first..i)
  BY <1>1, FS_Interval
<1>4. \A j \in DOMAIN ranges : ranges[j] \in Int
  BY <1>1, TrueRangeIsInt
<1> HIDE DEF ranges
<1> QED
  BY <1>2, <1>3, <1>4, SumIsInt

-----------------------------------------------------------------------------
(* Bands of integers *)

\* The bands of the detectors.
BandOk(band) == band \in [kind : {"demand", "supply"}, low : Int, high : Int, gap : BOOLEAN]

\* A base zone is one of them,
LEMMA ZonesOk ==
    ASSUME NEW bars, BarsOk(bars), NEW p \in ComputeBaseZoneCandidates(bars)
    PROVE  BandOk(p.band)
<1>1. PICK i \in Candidates(bars) : p \in ZoneAt(bars, i)
  BY DEF ComputeBaseZoneCandidates
<1>2. i \in FirstDeparture..Len(bars)
  BY <1>1 DEF Candidates
<1> DEFINE base == BaseOf(bars, i)
           ref == AtrSum(bars, i - 1)
           highs == {bars[j].high : j \in base}
           lows == {bars[j].low : j \in base}
           tops == {TopOf(bars[j]) : j \in base}
           bottoms == {BottomOf(bars[j]) : j \in base}
           top == Bigger(Scale * Largest(tops), Scale * Smallest(lows) + ref)
           bottom == Smaller(Scale * Smallest(bottoms), Scale * Largest(highs) - ref)
<1>3. i \in Nat /\ i <= Len(bars) /\ i - 1 \in Nat /\ AtrLength <= i - 1 /\ i - 1 <= Len(bars)
  BY <1>2, DetectorAssumption, AtrAssumption DEF BarsOk
<1>4. ref \in Int
  BY <1>3, AtrSumIsInt
<1>5. base # {}
  BY <1>1, Zenon DEF ZoneAt
<1> DEFINE demand == [kind |-> "demand", low |-> Scale * Smallest(lows), high |-> top, gap |-> FALSE]
           supply == [kind |-> "supply", low |-> bottom, high |-> Scale * Largest(highs), gap |-> FALSE]
           found(band) == [source |-> "base-zone", start |-> Smallest(base), end |-> i, band |-> band]
<1>6. p.band = demand \/ p.band = supply
  <2>1. p = found(IF bars[i].close > bars[i].open THEN demand ELSE supply)
    BY <1>1, <1>5, Zenon DEF ZoneAt
  <2> HIDE DEF demand, supply, base
  <2> QED
    BY <2>1
<1>7. IsFiniteSet(base) /\ \A j \in base : j \in 1..Len(bars)
  <2>1. base \subseteq 2..(i - 1)
    BY DEF BaseOf
  <2>2. IsFiniteSet(2..(i - 1))
    BY <1>3, FS_Interval
  <2>3. \A j \in 2..(i - 1) : j \in 1..Len(bars)
    BY <1>3 DEF BarsOk
  <2> HIDE DEF base
  <2> QED
    BY <2>1, <2>2, <2>3, FS_Subset
<1> HIDE DEF base
<1>8. Smallest(lows) \in Int
  <2> DEFINE v == [j \in base |-> bars[j].low]
  <2>1. \A j \in base : v[j] \in Int
    BY <1>7 DEF BarsOk
  <2>2. lows = {v[j] : j \in base}
    OBVIOUS
  <2> HIDE DEF v, lows
  <2>3. Smallest({v[j] : j \in base}) \in Int
    BY <1>5, <1>7, <2>1, ExtremesAreInts
  <2> QED
    BY <2>2, <2>3
<1>9. Largest(highs) \in Int
  <2> DEFINE v == [j \in base |-> bars[j].high]
  <2>1. \A j \in base : v[j] \in Int
    BY <1>7 DEF BarsOk
  <2>2. highs = {v[j] : j \in base}
    OBVIOUS
  <2> HIDE DEF v, highs
  <2>3. Largest({v[j] : j \in base}) \in Int
    BY <1>5, <1>7, <2>1, ExtremesAreInts
  <2> QED
    BY <2>2, <2>3
<1>10. Largest(tops) \in Int
  <2> DEFINE v == [j \in base |-> TopOf(bars[j])]
  <2>1. \A j \in base : v[j] \in Int
    BY <1>7 DEF BarsOk, TopOf, Bigger
  <2>2. tops = {v[j] : j \in base}
    OBVIOUS
  <2> HIDE DEF v, tops
  <2>3. Largest({v[j] : j \in base}) \in Int
    BY <1>5, <1>7, <2>1, ExtremesAreInts
  <2> QED
    BY <2>2, <2>3
<1>11. Smallest(bottoms) \in Int
  <2> DEFINE v == [j \in base |-> BottomOf(bars[j])]
  <2>1. \A j \in base : v[j] \in Int
    BY <1>7 DEF BarsOk, BottomOf, Smaller
  <2>2. bottoms = {v[j] : j \in base}
    OBVIOUS
  <2> HIDE DEF v, bottoms
  <2>3. Smallest({v[j] : j \in base}) \in Int
    BY <1>5, <1>7, <2>1, ExtremesAreInts
  <2> QED
    BY <2>2, <2>3
<1> HIDE DEF ref, highs, lows, tops, bottoms
<1>12. Scale \in Int
  BY AtrAssumption DEF Scale
<1>13. Scale * Smallest(lows) \in Int /\ Scale * Largest(highs) \in Int
       /\ Scale * Largest(tops) \in Int /\ Scale * Smallest(bottoms) \in Int
  BY <1>8, <1>9, <1>10, <1>11, <1>12
<1>14. top \in Int /\ bottom \in Int
  BY <1>4, <1>13 DEF Bigger, Smaller
<1> HIDE DEF top, bottom
<1>15. BandOk(demand) /\ BandOk(supply)
  BY <1>13, <1>14 DEF BandOk
<1> HIDE DEF demand, supply
<1> QED
  BY <1>6, <1>15

\* so is an order block,
LEMMA BlocksOk ==
    ASSUME NEW bars, BarsOk(bars), NEW p \in DetectOrderBlocks(bars)
    PROVE  BandOk(p.band)
<1>1. PICK i \in Candidates(bars) : p \in BlockAt(bars, i)
  BY DEF DetectOrderBlocks
<1> DEFINE bullish == bars[i].close > bars[i].open
           band(j) == [kind |-> IF bullish THEN "demand" ELSE "supply",
                       low |-> Scale * bars[j].low, high |-> Scale * bars[j].high, gap |-> FALSE]
<1>2. PICK j \in 2..(i - 1) : p = [source |-> "order-block", start |-> j, end |-> i,
                                  swept |-> SweptSwing(bars, j, bullish), band |-> band(j)]
  BY <1>1, Zenon DEF BlockAt
<1>3. i \in FirstDeparture..Len(bars)
  BY <1>1 DEF Candidates
<1>4. j \in 1..Len(bars)
  BY <1>3, DetectorAssumption DEF BarsOk
<1>5. bars[j].low \in Int /\ bars[j].high \in Int /\ Scale \in Int
  BY <1>4, AtrAssumption DEF BarsOk, Scale
<1>6. BandOk(band(j))
  BY <1>5 DEF BandOk
<1> HIDE DEF band
<1> QED
  BY <1>2, <1>6

\* and a gap.
LEMMA GapsOk ==
    ASSUME NEW bars, BarsOk(bars), NEW p \in DetectFvgs(bars)
    PROVE  BandOk(p.band)
<1>1. PICK i \in 3..Len(bars) : p \in GapAt(bars, i)
  BY DEF DetectFvgs
<1> DEFINE bullish == bars[i].low > bars[i - 2].high
           low == IF bullish THEN bars[i - 2].high ELSE bars[i].high
           high == IF bullish THEN bars[i].low ELSE bars[i - 2].low
           band == [kind |-> IF bullish THEN "demand" ELSE "supply",
                    low |-> Scale * low, high |-> Scale * high, gap |-> TRUE]
<1>2. p = [source |-> "fvg", start |-> i - 1, end |-> i, band |-> band]
  BY <1>1, Zenon DEF GapAt
<1>3. i \in 1..Len(bars) /\ i - 2 \in 1..Len(bars)
  BY DEF BarsOk
<1>4. low \in Int /\ high \in Int /\ Scale \in Int
  BY <1>3, AtrAssumption DEF BarsOk, Scale
<1>5. Scale * low \in Int /\ Scale * high \in Int
  <2> HIDE DEF low, high
  <2> QED
    BY <1>4
<1>6. BandOk(band)
  <2> HIDE DEF low, high, bullish
  <2> QED
    BY <1>5 DEF BandOk
<1> HIDE DEF band
<1> QED
  BY <1>2, <1>6

\* The bars of a tape have integer prices.
LEMMA TapeBarsOk ==
    ASSUME NEW bars \in Seq(AllBars)
    PROVE  BarsOk(bars)
<1>1. \A b \in AllBars : b.open \in Int /\ b.high \in Int /\ b.low \in Int /\ b.close \in Int
  BY TapeAssumption DEF AllBars
<1>2. Len(bars) \in Nat /\ \A t \in 1..Len(bars) : bars[t] \in AllBars
  OBVIOUS
<1> QED
  BY <1>1, <1>2 DEF BarsOk

-----------------------------------------------------------------------------
(* The plan of a resting limit *)

\* selectZones only drops zones.
LEMMA SelectedZones ==
    ASSUME NEW bars, Len(bars) \in Nat, NEW zones
    PROVE  SelectZones(bars, zones) \subseteq zones
<1> DEFINE N == Len(bars)
           crowded(picked, z) ==
                LET same == {p \in picked : p.band.kind = z.band.kind}
                IN  \/ Cardinality(same) >= PerKind
                    \/ \E p \in same : z.band.low <= p.band.high /\ z.band.high >= p.band.low
           more(picked, n) == picked \cup {z \in zones : z.end = Len(bars) - n + 1 /\ ~crowded(picked, z)}
           e(f, n) == IF n = 0 THEN {} ELSE more(f[n - 1], n)
           Solves(f, m) == f = [n \in 0..m |-> e(f, n)]
           T == {m \in 0..N : \E f : Solves(f, m)}
<1>0. N \in Nat
  OBVIOUS
<1>a. \A picked, n : more(picked, n) \subseteq picked \cup zones
  OBVIOUS
<1>b. SelectZones(bars, zones) = (CHOOSE f : Solves(f, N))[N]
  BY Zenon DEF SelectZones
<1> HIDE DEF more, crowded
<1>1. 0 \in T
  <2> DEFINE g == [n \in 0..0 |-> {}]
  <2>1. Solves(g, 0)
    <3>1. \A n \in 0..0 : e(g, n) = {}
      OBVIOUS
    <3> HIDE DEF e
    <3> QED
      BY <3>1
  <2> HIDE DEF g, Solves
  <2> QED
    BY <1>0, <2>1
<1>2. ASSUME NEW m \in 0..(N - 1), m \in T PROVE m + 1 \in T
  <2>0. m \in Nat /\ m + 1 \in 0..N
    BY <1>0
  <2>1. PICK f : Solves(f, m)
    BY <1>2
  <2>2. f = [n \in 0..m |-> e(f, n)]
    BY <2>1
  <2> HIDE DEF e, N
  <2> DEFINE g == [n \in 0..(m + 1) |-> IF n <= m THEN f[n] ELSE e(f, n)]
  <2>3. \A n \in 0..(m + 1) : n # 0 => n - 1 \in 0..m /\ g[n - 1] = f[n - 1]
    <3>1. \A n \in 0..(m + 1) : n # 0 => n - 1 \in 0..m /\ n - 1 \in 0..(m + 1) /\ n - 1 <= m
      BY <2>0
    <3> QED
      BY <3>1
  <2>4. \A n \in 0..(m + 1) : g[n] = e(f, n)
    <3>1. \A n \in 0..(m + 1) : n <= m => n \in 0..m
      BY <2>0
    <3> QED
      BY <2>2, <3>1
  <2>5. \A n \in 0..(m + 1) : e(g, n) = e(f, n)
    <3> HIDE DEF g
    <3> QED
      BY <2>3, Zenon DEF e
  <2>6. g = [n \in 0..(m + 1) |-> e(g, n)]
    <3>1. g = [n \in 0..(m + 1) |-> g[n]]
      OBVIOUS
    <3> HIDE DEF g
    <3> QED
      BY <2>4, <2>5, <3>1
  <2> HIDE DEF g
  <2>7. Solves(g, m + 1)
    BY <2>6
  <2> HIDE DEF Solves
  <2> QED
    BY <2>0, <2>7
<1>3. N \in T
  <2>1. \A m \in 0..N : m \in T
    <3> HIDE DEF T, N
    <3> QED
      BY <1>0, <1>1, <1>2, Induction
  <2>2. N \in 0..N
    BY <1>0
  <2> QED
    BY <2>1, <2>2
<1> DEFINE P(f) == Solves(f, N)
           h == CHOOSE f : P(f)
<1>5. P(h)
  <2>1. \E f : P(f)
    <3> HIDE DEF Solves
    <3> QED
      BY <1>3
  <2> HIDE DEF P
  <2> QED
    BY <2>1
<1>6. SelectZones(bars, zones) = h[N]
  BY <1>b
<1> HIDE DEF h
<1>7. \A n \in 0..N : h[n] = e(h, n)
  <2> HIDE DEF e
  <2>1. h = [n \in 0..N |-> e(h, n)]
    BY <1>5
  <2> QED
    BY <2>1
<1> DEFINE U == {n \in 0..N : h[n] \subseteq zones}
<1>8. 0 \in U
  BY <1>0, <1>7
<1>9. ASSUME NEW n \in 0..(N - 1), n \in U PROVE n + 1 \in U
  <2>1. n + 1 \in 0..N /\ n + 1 # 0 /\ (n + 1) - 1 = n
    BY <1>0
  <2>2. h[n + 1] = more(h[n], n + 1)
    BY <1>7, <2>1
  <2> QED
    BY <1>a, <1>9, <2>1, <2>2
<1>10. \A n \in 0..N : n \in U
  <2> HIDE DEF U, N
  <2> QED
    BY <1>0, <1>8, <1>9, Induction
<1>11. N \in U
  BY <1>0, <1>10
<1> QED
  BY <1>6, <1>11

\* The plan's zone is reachable from the price and was not closed through.
LEMMA PlanIs ==
    ASSUME NEW bars, Len(bars) \in Nat, NEW ls, NEW kind, NEW from,
           NEW p \in BuildAnticipatoryPlan(bars, ls, kind, from)
    PROVE  /\ p.zone.band.kind = kind /\ Reachable(kind, from, p.zone.band)
           /\ p.entry = Proximal(p.zone.band) /\ p.zone \in ComputeBaseZoneCandidates(bars)
           /\ \A t \in (p.zone.end + 1)..Len(bars) : ~Through(p.zone.band, bars[t])
<1> DEFINE zones == ComputeBaseZones(bars)
<1>1. p.zone \in SelectPoi(bars, ls, DealingRange(ls), zones, kind, from) /\ p.entry = Proximal(p.zone.band)
  BY DEF BuildAnticipatoryPlan
<1>2. p.zone \in zones /\ Reachable(kind, from, p.zone.band)
  BY <1>1 DEF SelectPoi
<1>3. p.zone \in ComputeBaseZoneCandidates(bars) /\ Freshness(bars, p.zone) # "gone"
  BY <1>2, SelectedZones DEF ComputeBaseZones
<1>4. p.zone.end \in 0..Len(bars)
  BY <1>3, DetectedEnds DEF Detected
<1> QED
  BY <1>1, <1>2, <1>3, <1>4, FreshnessAgrees DEF Reachable

\* For every tape a resting limit is not passed: the price it is planned from has not
\* reached its entry, and no bar since its zone formed closed beyond its stop
\* (buildAnticipatoryPlan).
THEOREM LimitsRest == Spec => []PlanNotPassed
<1>1. IInv => PlanNotPassed
  <2> SUFFICES ASSUME IInv, Len(tape) > 0, NEW kind \in {"demand", "supply"},
                      NEW p \in BuildAnticipatoryPlan(tape, legs, kind, tape[Len(tape)].close)
               PROVE  /\ ~Beyond(IF kind = "demand" THEN "high" ELSE "low", p.entry,
                                 Scale * tape[Len(tape)].close)
                      /\ \A t \in (p.zone.end + 1)..Len(tape) : ~Through(p.zone.band, tape[t])
    BY Zenon DEF PlanNotPassed
  <2> DEFINE from == tape[Len(tape)].close
             band == p.zone.band
  <2>1. Len(tape) \in Nat
    BY DEF IInv, TapeInv
  <2>2. /\ band.kind = kind /\ Reachable(kind, from, band) /\ p.entry = Proximal(band)
        /\ p.zone \in ComputeBaseZoneCandidates(tape)
        /\ \A t \in (p.zone.end + 1)..Len(tape) : ~Through(band, tape[t])
    BY <2>1, PlanIs
  <2>3. from \in Int /\ band.low \in Int /\ band.high \in Int
    <3>1. BarsOk(tape) /\ Len(tape) \in 1..Len(tape)
      BY <2>1, TapeBarsOk DEF IInv, TapeInv, BarsOk
    <3> QED
      BY <2>2, <3>1, ZonesOk DEF BarsOk, BandOk
  <2> DEFINE price == Scale * from
  <2>4. price \in Int /\ from * Scale = price
    BY <2>3, AtrAssumption DEF Scale
  <2>5. ~Beyond(IF kind = "demand" THEN "high" ELSE "low", p.entry, price)
    <3> HIDE DEF band, from, price
    <3>1. CASE kind = "demand"
      BY <2>2, <2>3, <2>4, <3>1 DEF Reachable, Proximal, Beyond
    <3>2. CASE kind = "supply"
      BY <2>2, <2>3, <2>4, <3>2 DEF Reachable, Proximal, Beyond
    <3> QED
      BY <3>1, <3>2
  <2> QED
    BY <2>2, <2>5
<1> QED
  BY <1>1, IInvAlways, PTL

-----------------------------------------------------------------------------
(* The ledger only ages *)

\* What a read of n bars looks like: a live state is the one its visits and its depth
\* tell, and a decided one names its bar.
ReadOk(r, band, n) ==
    /\ r.state \in States /\ r.touches \in Nat /\ r.deepest \in Int
    /\ r.state \notin Terminal => r.state = LiveState(band, r.touches, r.deepest)
    /\ r.state \in Terminal => r.decidedAt \in 1..n

\* A read only gets older.
LEMMA ReplayAges ==
    ASSUME NEW band, BandOk(band), NEW n \in Nat, NEW r, ReadOk(r, band, n), NEW bar,
           bar.high \in Int, bar.low \in Int, bar.close \in Int
    PROVE  LET after == Replay(band, r, bar, n + 1)
           IN  /\ ReadOk(after, band, n + 1)
               /\ Age(r.state) <= Age(after.state)
               /\ r.state \in Terminal => after = r
<1> DEFINE after == Replay(band, r, bar, n + 1)
           touching == Touching(band, bar)
           deepest == Deeper(band, r, bar)
           touches == IF touching /\ ~r.inside THEN r.touches + 1 ELSE r.touches
<1> SUFFICES /\ ReadOk(after, band, n + 1) /\ Age(r.state) <= Age(after.state)
             /\ r.state \in Terminal => after = r
  OBVIOUS
<1>0. band.low \in Int /\ band.high \in Int /\ Scale \in Int
  BY AtrAssumption DEF BandOk, Scale
<1>1. touches \in Nat /\ r.touches <= touches
  BY DEF ReadOk
<1>2. deepest \in Int /\ r.deepest <= deepest
  <2>1. Scale * bar.low \in Int /\ Scale * bar.high \in Int
        /\ bar.low * Scale \in Int /\ bar.high * Scale \in Int
    BY <1>0
  <2>2. Depth(band, bar) \in Int
    BY <1>0, <2>1 DEF Depth, Smaller, Bigger
  <2> QED
    BY <2>2 DEF Deeper, Bigger, ReadOk
<1>3. CASE r.state \in Terminal
  <2>1. after = r
    BY <1>3 DEF Replay
  <2>2. Age(r.state) = 3
    BY <1>3 DEF Age, Terminal
  <2> QED
    BY <1>3, <2>1, <2>2 DEF ReadOk
<1>4. CASE r.state \notin Terminal /\ Through(band, bar)
  <2>1. /\ after.state = "invalidated" /\ after.touches = r.touches
        /\ after.deepest = band.high - band.low /\ after.decidedAt = n + 1
    BY <1>4 DEF Replay
  <2> HIDE DEF after
  <2> QED
    BY <1>0, <1>4, <2>1 DEF ReadOk, Age, States, Terminal
<1>5. CASE r.state \notin Terminal /\ ~Through(band, bar) /\ touches >= 2
  <2>1. /\ after.state = "consumed" /\ after.touches = touches
        /\ after.deepest = deepest /\ after.decidedAt = n + 1
    BY <1>5 DEF Replay
  <2> HIDE DEF after, touches, deepest
  <2> QED
    BY <1>1, <1>2, <1>5, <2>1 DEF ReadOk, Age, States, Terminal
<1>6. CASE r.state \notin Terminal /\ ~Through(band, bar) /\ ~(touches >= 2)
  <2>1. /\ after.state = LiveState(band, touches, deepest) /\ after.touches = touches
        /\ after.deepest = deepest
    BY <1>6 DEF Replay
  <2> HIDE DEF after, touches, deepest
  <2>2. r.state = LiveState(band, r.touches, r.deepest) /\ r.touches \in Nat /\ r.deepest \in Int
    BY <1>6 DEF ReadOk
  <2>3. Age(r.state) <= Age(after.state)
    <3>1. CASE r.touches = 0
      BY <2>1, <2>2, <3>1 DEF LiveState, Age
    <3>2. CASE r.touches # 0 /\ 2 * r.deepest >= band.high - band.low
      <4>1. touches # 0 /\ 2 * deepest >= band.high - band.low
        BY <1>0, <1>1, <1>2, <2>2, <3>2
      <4> QED
        BY <2>1, <2>2, <3>2, <4>1 DEF LiveState, Age
    <3>3. CASE r.touches # 0 /\ ~(2 * r.deepest >= band.high - band.low)
      <4>1. touches # 0
        BY <1>1, <2>2, <3>3
      <4> QED
        BY <2>1, <2>2, <3>3, <4>1 DEF LiveState, Age
    <3> QED
      BY <3>1, <3>2, <3>3
  <2>4. after.state \in States \ Terminal
    BY <2>1 DEF LiveState, States, Terminal
  <2> QED
    BY <1>1, <1>2, <1>6, <2>1, <2>3, <2>4 DEF ReadOk
<1> QED
  BY <1>3, <1>4, <1>5, <1>6, Zenon

\* Every read of a window is such a read.
LEMMA ReadIsOk ==
    ASSUME NEW bars, BarsOk(bars), NEW after \in 0..Len(bars), NEW band, BandOk(band)
    PROVE  ReadOk(DerivePoiLifecycle(bars, after, band), band, Len(bars))
<1> DEFINE N == Len(bars)
           d == N - after
<1>0. N \in Nat /\ d \in Nat /\ after \in Nat /\ after + d = N
  BY DEF BarsOk
<1>1. PICK f : ReadTo(f, bars, after, band) /\ DerivePoiLifecycle(bars, after, band) = f[N]
  BY <1>0, ReadExists
<1> DEFINE T == {k \in 0..d : ReadOk(f[after + k], band, after + k)}
<1>2. 0 \in T
  <2>1. after + 0 = after /\ 0 \in 0..d
    BY <1>0
  <2>2. ReadOk(NewRead, band, after)
    BY DEF ReadOk, NewRead, LiveState, States, Terminal
  <2> QED
    BY <1>1, <2>1, <2>2 DEF ReadTo
<1>3. ASSUME NEW k \in 0..(d - 1), k \in T PROVE k + 1 \in T
  <2> DEFINE t == after + (k + 1)
  <2>1. /\ t \in (after + 1)..N /\ t - 1 = after + k /\ k + 1 \in 0..d /\ t \in 1..N
        /\ t - 1 \in Nat /\ (t - 1) + 1 = t
    BY <1>0
  <2> HIDE DEF t
  <2>2. f[t] = Replay(band, f[t - 1], bars[t], t)
    BY <1>1, <2>1 DEF ReadTo
  <2>3. ReadOk(f[t - 1], band, t - 1)
    BY <1>3, <2>1
  <2>4. bars[t].high \in Int /\ bars[t].low \in Int /\ bars[t].close \in Int
    BY <2>1 DEF BarsOk
  <2>5. ReadOk(Replay(band, f[t - 1], bars[t], (t - 1) + 1), band, (t - 1) + 1)
    BY <2>1, <2>3, <2>4, ReplayAges
  <2>6. ReadOk(f[t], band, t)
    BY <2>1, <2>2, <2>5
  <2> QED
    BY <2>1, <2>6 DEF t
<1>4. \A k \in 0..d : k \in T
  <2> HIDE DEF T, d
  <2> QED
    BY <1>0, <1>2, <1>3, Induction
<1>5. d \in 0..d
  BY <1>0
<1>6. ReadOk(f[after + d], band, after + d)
  BY <1>4, <1>5
<1> QED
  BY <1>0, <1>1, <1>6

\* What a detector found: a band of numbers, formed within the bars.
LEMMA DetectedOk ==
    ASSUME NEW bars, BarsOk(bars), NEW p \in Detected(bars)
    PROVE  BandOk(p.band) /\ p.end \in 1..Len(bars)
<1>1. p.end \in 1..Len(bars)
  BY DetectedEnds DEF BarsOk
<1> QED
  BY <1>1, ZonesOk, BlocksOk, GapsOk DEF Detected

\* A gap that inverts makes another such band.
LEMMA InversionOk ==
    ASSUME NEW bars, BarsOk(bars), NEW p \in Detected(bars), NEW q \in Inversion(bars, p)
    PROVE  BandOk(q.band) /\ q.end \in 1..Len(bars)
<1> DEFINE at == Read(bars, p).decidedAt
           band == [p.band EXCEPT !.kind = IF @ = "demand" THEN "supply" ELSE "demand",
                                  !.gap = FALSE]
<1>1. q = [source |-> "ifvg", start |-> at, end |-> at, band |-> band]
  BY Zenon DEF Inversion
<1>2. Read(bars, p).state \in Terminal
  BY DEF Inversion, Inverted, Terminal
<1>3. BandOk(p.band) /\ p.end \in 0..Len(bars)
  BY DetectedOk
<1>4. ReadOk(Read(bars, p), p.band, Len(bars))
  BY <1>3, ReadIsOk DEF Read
<1>5. at \in 1..Len(bars)
  BY <1>2, <1>4 DEF ReadOk
<1>6. BandOk(band)
  BY <1>3 DEF BandOk
<1> HIDE DEF at, band
<1> QED
  BY <1>1, <1>5, <1>6

\* The read of a band formed within the bars ages by one turn when a bar closes.
LEMMA ReadAges ==
    ASSUME NEW bars, NEW longer, BarsOk(bars), BarsOk(longer), Len(longer) = Len(bars) + 1,
           Agree(bars, longer, Len(bars)), NEW p, BandOk(p.band), p.end \in 1..Len(bars)
    PROVE  /\ Age(Read(bars, p).state) <= Age(Read(longer, p).state)
           /\ Read(bars, p).state \in Terminal => Read(longer, p) = Read(bars, p)
<1> DEFINE n == Len(bars)
           bar == longer[Len(longer)]
<1>1. n \in Nat /\ Len(longer) = n + 1 /\ p.end \in 0..n
  BY DEF BarsOk
<1>2. Read(longer, p) = Replay(p.band, Read(bars, p), bar, n + 1)
  BY <1>1, ReadGoesOn DEF Read
<1>3. ReadOk(Read(bars, p), p.band, n)
  BY <1>1, ReadIsOk DEF Read
<1>4. bar.high \in Int /\ bar.low \in Int /\ bar.close \in Int
  BY <1>1 DEF BarsOk
<1> HIDE DEF n, bar
<1> QED
  BY <1>1, <1>2, <1>3, <1>4, ReplayAges

\* What the ledger holds stays on it.
LEMMA LedgerKeeps ==
    ASSUME NEW bars, NEW longer, BarsOk(bars), BarsOk(longer), Len(longer) = Len(bars) + 1,
           Agree(bars, longer, Len(bars)), Detected(bars) \subseteq Detected(longer),
           NEW p \in BuildPoiMap(bars, ComputeBaseZoneCandidates(bars))
    PROVE  /\ p \in BuildPoiMap(longer, ComputeBaseZoneCandidates(longer))
           /\ BandOk(p.band) /\ p.end \in 1..Len(bars)
<1>1. \A s : BuildPoiMap(s, ComputeBaseZoneCandidates(s))
               = Detected(s) \cup UNION {Inversion(s, q) : q \in Detected(s)}
  BY Zenon DEF BuildPoiMap, Detected
<1>2. CASE p \in Detected(bars)
  BY <1>1, <1>2, DetectedOk
<1>3. ASSUME NEW q \in Detected(bars), p \in Inversion(bars, q)
      PROVE  /\ p \in BuildPoiMap(longer, ComputeBaseZoneCandidates(longer))
             /\ BandOk(p.band) /\ p.end \in 1..Len(bars)
  <2>1. Inverted(q.band, Read(bars, q))
    BY <1>3 DEF Inversion
  <2>2. Read(longer, q) = Read(bars, q)
    BY <2>1, DetectedOk, ReadAges DEF Inverted, Terminal
  <2>3. Inversion(longer, q) = Inversion(bars, q)
    BY <2>2, Zenon DEF Inversion
  <2>4. p \in BuildPoiMap(longer, ComputeBaseZoneCandidates(longer))
    BY <1>1, <1>3, <2>3
  <2> QED
    BY <1>3, <2>4, InversionOk
<1>4. p \in Detected(bars) \/ \E q \in Detected(bars) : p \in Inversion(bars, q)
  BY <1>1
<1> QED
  BY <1>2, <1>3, <1>4

\* For every tape the ledger only ages: no point of interest leaves it when a bar
\* closes, none gets younger, and a decided one is read the same for ever
\* (buildPoiMap, derivePoiLifecycle).
THEOREM LedgerAges == Spec => LedgerOnlyAges
<1> DEFINE Older ==
             \A p \in BuildPoiMap(tape, ComputeBaseZoneCandidates(tape)) :
                LET before == Read(tape, p)
                    after == Read(tape', p)
                IN  /\ p \in BuildPoiMap(tape', ComputeBaseZoneCandidates(tape'))
                    /\ Age(before.state) <= Age(after.state)
                    /\ before.state \in Terminal => after = before
<1>1. IInv /\ IInv' /\ [Next]_vars => [Older]_vars
  <2> SUFFICES ASSUME IInv, IInv', Next PROVE Older
    BY Zenon
  <2>1. PICK bar \in Bars[Len(tape) + 1] : tape' = Append(tape, bar)
    BY DEF Next, CloseBar
  <2>2. bar \in AllBars /\ tape \in Seq(AllBars)
    BY <2>1, TapeGrows DEF Next, IInv, TapeInv
  <2>3. Len(tape') = Len(tape) + 1 /\ Agree(tape, tape', Len(tape))
    BY <2>1, <2>2 DEF Agree
  <2>4. Detected(tape) \subseteq Detected(tape')
    BY <2>1, <2>2, DetectedGrows
  <2>5. BarsOk(tape) /\ BarsOk(tape')
    <3>1. tape' \in Seq(AllBars)
      BY DEF IInv, TapeInv
    <3> QED
      BY <2>2, <3>1, TapeBarsOk
  <2> QED
    BY <2>3, <2>4, <2>5, LedgerKeeps, ReadAges
<1> QED
  BY <1>1, IInvAlways, PTL DEF Spec, LedgerOnlyAges

=============================================================================
