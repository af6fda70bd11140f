------------------------- MODULE AlertDeliveryProofs -------------------------
(***************************************************************************)
(* What the alerts table says is true, for any number of alerts, writers   *)
(* and overlapping passes.  The invariant ties each row, each row a pass   *)
(* has listed and each change it has not committed to the two histories.   *)
(***************************************************************************)
EXTENDS AlertDelivery, FiniteSetTheorems, TLAPS

\* The states a pass decides on.
Decided == {"sent", "failed"}

\* A row of key k against the histories.
RowSound(k, row) ==
    /\ row.attempts <= tried[k]
    /\ row.born # "pending" => row.state = row.born /\ received[k] = 0
    /\ row.born = "pending" =>
          /\ row.state \in Decided \cup {"pending"}
          /\ row.state = "sent" => received[k] > 0
          /\ row.state = "failed" => tried[k] >= MaxAttempts

\* A key some pass works on: it is stored, and was created to be sent.
Outgoing(k) == alerts[k] # {} /\ \A row \in alerts[k] : row.born = "pending"

ListedSound(k, row) == row.state = "pending" /\ row.attempts <= tried[k] /\ Outgoing(k)

\* A change that is not committed yet, against the histories its commit leaves.
WrittenSound(k, change) ==
    /\ Outgoing(k)
    /\ change.state \in Decided \cup {"pending"}
    /\ change.state = "sent" => received[k] > 0
    /\ change.state # "sent" => change.attempts <= tried[k] + 1
    /\ change.state = "failed" => tried[k] + 1 >= MaxAttempts

TableInv ==
    /\ \A k \in Alerts : \A row \in alerts[k] : RowSound(k, row)
    /\ \A k \in Alerts : alerts[k] = {} => received[k] = 0

PassInv ==
    /\ \A p \in Passes : \A k \in Alerts : \A row \in listed[p][k] : ListedSound(k, row)
    /\ \A p \in Passes : \A k \in Alerts : \A c \in written[p][k] : WrittenSound(k, c)

Inv == TypeOK /\ TableInv /\ PassInv

-----------------------------------------------------------------------------
LEMMA RowTypes ==
    ASSUME NEW row \in Alert
    PROVE  /\ SentRow(row) \in Alert /\ UnsentRow(row) \in Alert /\ ReadRow(row) \in Alert
           /\ \A change \in Alert : Flushed(row, change) \in Alert
           /\ \A state \in RowState, t \in Nat : NewAlert(state, t) \in Alert
<1>1. row.attempts + 1 \in Nat
  BY DEF Alert
<1>2. SentRow(row) \in Alert /\ ReadRow(row) \in Alert
  BY DEF Alert, SentRow, ReadRow, RowState, DeliveryState
<1>3. UnsentRow(row) \in Alert
  BY <1>1 DEF Alert, UnsentRow, RowState, DeliveryState
<1>4. ASSUME NEW change \in Alert PROVE Flushed(row, change) \in Alert
  BY ZenonT(40), <1>2 DEF Alert, Flushed, RowState, DeliveryState
<1>5. ASSUME NEW state \in RowState, NEW t \in Nat PROVE NewAlert(state, t) \in Alert
  BY DEF Alert, NewAlert
<1> QED
  BY <1>2, <1>3, <1>4, <1>5

LEMMA InitInv == Init => Inv
<1> SUFFICES ASSUME Init PROVE Inv
  OBVIOUS
<1>1. Nothing \in Table /\ Nothing \in [Alerts -> SUBSET RowState] /\ AtMostOne(Nothing)
  BY DEF Nothing, Table, AtMostOne
<1>2. TypeOK
  BY <1>1 DEF Init, TypeOK
<1>3. TableInv /\ PassInv
  BY DEF Init, TableInv, PassInv, Nothing
<1> QED
  BY <1>2, <1>3 DEF Inv

\* What pass work stays sound through: no key goes away or becomes suppressed,
\* and the histories only grow.
LEMMA PassInvKept ==
    ASSUME TypeOK, PassInv, UNCHANGED <<listed, written>>,
           \A k \in Alerts : tried'[k] \in Nat /\ received'[k] \in Nat
                             /\ tried'[k] >= tried[k] /\ received'[k] >= received[k],
           \A k \in Alerts : Outgoing(k) => Outgoing(k)'
    PROVE  PassInv'
<1>1. ASSUME NEW p \in Passes, NEW k \in Alerts, NEW row \in listed[p][k]
      PROVE  ListedSound(k, row)'
  <2>1. ListedSound(k, row) /\ row \in Alert
    BY <1>1 DEF PassInv, TypeOK, Table
  <2> QED
    BY <2>1 DEF ListedSound, TypeOK, Alert
<1>2. ASSUME NEW p \in Passes, NEW k \in Alerts, NEW c \in written[p][k]
      PROVE  WrittenSound(k, c)'
  <2>1. WrittenSound(k, c) /\ c \in Alert
    BY <1>2 DEF PassInv, TypeOK, Table
  <2> QED
    BY <2>1, AlertAssumption DEF WrittenSound, TypeOK, Alert
<1> QED
  BY <1>1, <1>2 DEF PassInv

\* A step that leaves the table, the passes and the histories alone keeps the
\* invariant but for the types.
LEMMA QuietStep ==
    ASSUME Inv, TypeOK', UNCHANGED <<alerts, listed, written, received, tried>>
    PROVE  Inv'
<1>1. PassInv'
  BY PassInvKept DEF Inv, TypeOK, Outgoing
<1>2. TableInv'
  BY DEF Inv, TableInv, RowSound
<1> QED
  BY <1>1, <1>2 DEF Inv

\* What a step that changes the table owes for each key.
KeyKept(k) ==
    /\ alerts'[k] \subseteq Alert
    /\ \A x, y \in alerts'[k] : x = y
    /\ \A row \in alerts'[k] : RowSound(k, row)'
    /\ alerts'[k] = {} => received'[k] = 0
    /\ Outgoing(k) => Outgoing(k)'

LEMMA TableTyped ==
    ASSUME \A k \in Alerts : KeyKept(k), alerts' = [k \in Alerts |-> alerts'[k]]
    PROVE  alerts' \in Table /\ AtMostOne(alerts')
BY DEF KeyKept, Table, AtMostOne

LEMMA TableStep ==
    ASSUME Inv, TypeOK', \A k \in Alerts : KeyKept(k),
           UNCHANGED <<listed, written, received, tried>>
    PROVE  Inv'
<1>1. PassInv'
  BY PassInvKept DEF Inv, TypeOK, KeyKept
<1>2. TableInv'
  BY DEF TableInv, KeyKept
<1> QED
  BY <1>1, <1>2 DEF Inv

-----------------------------------------------------------------------------
LEMMA SelectInv ==
    ASSUME Inv, NEW w \in Writers, SelectExisting(w) \/ InsertConflicts(w)
    PROVE  Inv'
<1> USE DEF Inv
<1>1. UNCHANGED <<alerts, listed, quiet, written, ppc, received, overlaps, tried, now, faults>>
  BY DEF SelectExisting, InsertConflicts, passVars
<1>2. /\ batch' \in [Writers -> [Alerts -> SUBSET RowState]]
      /\ \A v \in Writers : AtMostOne(batch'[v])
  <2>1. CASE SelectExisting(w)
    <3>1. PICK candidates \in [Alerts -> {{}} \cup {{state} : state \in Asked}] :
             batch' = [batch EXCEPT ![w] = candidates]
      BY <2>1 DEF SelectExisting
    <3>2. AtMostOne(candidates) /\ candidates \in [Alerts -> SUBSET RowState]
      BY AlertAssumption DEF AtMostOne
    <3> QED
      BY <3>1, <3>2 DEF TypeOK
  <2>2. CASE InsertConflicts(w)
    <3>1. AtMostOne(Nothing) /\ Nothing \in [Alerts -> SUBSET RowState]
      BY DEF AtMostOne, Nothing
    <3> QED
      BY <2>2, <3>1 DEF InsertConflicts, WriterDone, TypeOK
  <2> QED
    BY <2>1, <2>2
<1>3. existing' \in [Writers -> SUBSET Alerts] /\ wpc' \in [Writers -> {"idle", "insert"}]
  <2>1. CASE SelectExisting(w)
    <3>1. PICK table \in [Alerts -> {{}} \cup {{state} : state \in Asked}] :
             existing' = [existing EXCEPT ![w] = Held(table) \cap Stored]
      BY <2>1 DEF SelectExisting
    <3>2. Held(table) \subseteq Alerts
      BY DEF Held
    <3> QED
      BY <2>1, <3>1, <3>2 DEF SelectExisting, TypeOK
  <2>2. CASE InsertConflicts(w)
    BY <2>2 DEF InsertConflicts, WriterDone, TypeOK
  <2> QED
    BY <2>1, <2>2
<1>4. TypeOK'
  BY <1>1, <1>2, <1>3 DEF TypeOK, AtMostOne
<1> QED
  BY <1>1, <1>4, QuietStep

LEMMA InsertInv ==
    ASSUME Inv, NEW w \in Writers, InsertAlerts(w)
    PROVE  Inv'
<1> USE DEF Inv
<1>1. ASSUME NEW k \in Alerts
      PROVE  /\ k \in NewKeys(w) => alerts[k] = {}
             /\ k \notin NewKeys(w) => alerts'[k] = alerts[k]
             /\ k \in NewKeys(w) =>
                   alerts'[k] = {NewAlert(state, now) : state \in batch[w][k]}
  BY DEF InsertAlerts, Stored, Held
<1>2. UNCHANGED <<listed, quiet, written, ppc, received, overlaps, tried, now, faults>>
  BY DEF InsertAlerts, passVars
<1>3. ASSUME NEW k \in Alerts PROVE KeyKept(k)
  <2> USE DEF KeyKept
  <2>1. CASE k \notin NewKeys(w)
    BY <1>1, <1>2, <2>1 DEF TypeOK, Table, AtMostOne, TableInv, RowSound, Outgoing
  <2>2. CASE k \in NewKeys(w)
    <3>1. received[k] = 0 /\ ~ Outgoing(k) /\ tried[k] \in Nat
      BY <1>1, <2>2 DEF TableInv, Outgoing, TypeOK
    <3>2. PICK state \in batch[w][k] : TRUE
      BY <2>2 DEF NewKeys, Held
    <3>3. batch[w][k] = {state} /\ state \in RowState
      BY <3>2 DEF TypeOK, AtMostOne
    <3>4. alerts'[k] = {NewAlert(state, now)}
      BY <1>1, <2>2, <3>3
    <3>5. NewAlert(state, now) \in Alert
      BY <3>3, AlertAssumption DEF NewAlert, Alert, TypeOK
    <3>6. ASSUME NEW row \in alerts'[k] PROVE RowSound(k, row)'
      <4>1. row.attempts = 0 /\ row.state = row.born
        BY <3>3, <3>4 DEF NewAlert
      <4> QED
        BY <1>2, <3>1, <4>1 DEF RowSound
    <3>7. alerts'[k] # {} /\ alerts'[k] \subseteq Alert /\ \A x, y \in alerts'[k] : x = y
      BY <3>4, <3>5
    <3> QED
      BY <3>1, <3>6, <3>7
  <2> QED
    BY <2>1, <2>2
<1>4. TypeOK'
  <2>1. batch' \in [Writers -> [Alerts -> SUBSET RowState]]
        /\ \A v \in Writers : AtMostOne(batch'[v])
    BY DEF InsertAlerts, WriterDone, TypeOK, AtMostOne, Nothing
  <2>2. existing' \in [Writers -> SUBSET Alerts] /\ wpc' \in [Writers -> {"idle", "insert"}]
    BY DEF InsertAlerts, WriterDone, TypeOK
  <2>3. alerts' = [k \in Alerts |-> alerts'[k]]
    BY DEF InsertAlerts
  <2> QED
    BY <1>2, <1>3, <2>1, <2>2, <2>3, TableTyped DEF TypeOK, AtMostOne
<1> QED
  BY <1>2, <1>3, <1>4, TableStep DEF TypeOK

LEMMA ReaderInv ==
    ASSUME Inv, MarkRead \/ MarkAllRead
    PROVE  Inv'
<1> USE DEF Inv
<1>1. UNCHANGED <<batch, existing, wpc, listed, quiet, written, ppc, received,
                  overlaps, tried, now, faults>>
  BY DEF MarkRead, MarkAllRead, writerVars, passVars
<1>2. alerts' = [k \in Alerts |-> alerts'[k]]
  BY DEF MarkRead, MarkAllRead, TypeOK, Table
<1>3. ASSUME NEW k \in Alerts
      PROVE  \/ alerts'[k] = alerts[k]
             \/ \E row \in alerts[k] : alerts'[k] = {ReadRow(row)}
  <2>1. CASE MarkRead
    <3>1. PICK j \in Stored : alerts' = [alerts EXCEPT ![j] = {ReadRow(Row(j))}]
      BY <2>1 DEF MarkRead
    <3>2. Row(j) \in alerts[j]
      BY DEF Stored, Held, Row
    <3> QED
      BY <3>1, <3>2 DEF TypeOK, Table
  <2>2. CASE MarkAllRead
    <3>1. alerts'[k] = {IF row.read THEN row ELSE ReadRow(row) : row \in alerts[k]}
      BY <2>2 DEF MarkAllRead
    <3>2. \A x, y \in alerts[k] : x = y
      BY DEF TypeOK, AtMostOne
    <3>3. CASE alerts[k] = {}
      BY <3>1, <3>3
    <3>4. CASE alerts[k] # {}
      <4>1. PICK row \in alerts[k] : alerts[k] = {row}
        BY <3>2, <3>4
      <4> QED
        BY <3>1, <4>1
    <3> QED
      BY <3>3, <3>4
  <2> QED
    BY <2>1, <2>2
<1>4. ASSUME NEW k \in Alerts PROVE KeyKept(k)
  <2>1. CASE alerts'[k] = alerts[k]
    BY <1>1, <2>1 DEF KeyKept, TypeOK, Table, AtMostOne, TableInv, RowSound, Outgoing
  <2>2. CASE \E row \in alerts[k] : alerts'[k] = {ReadRow(row)}
    <3>1. PICK row \in alerts[k] : alerts'[k] = {ReadRow(row)}
      BY <2>2
    <3>2. row \in Alert /\ RowSound(k, row)
      BY DEF TypeOK, Table, TableInv
    <3>3. /\ ReadRow(row) \in Alert /\ ReadRow(row).attempts = row.attempts
          /\ ReadRow(row).state = row.state /\ ReadRow(row).born = row.born
      BY <3>2, RowTypes DEF ReadRow, Alert
    <3>4. ASSUME NEW new \in alerts'[k] PROVE RowSound(k, new)'
      BY <1>1, <3>1, <3>2, <3>3 DEF RowSound
    <3> QED
      BY <3>1, <3>3, <3>4 DEF KeyKept, Outgoing
  <2> QED
    BY <1>3, <2>1, <2>2
<1>5. TypeOK'
  BY <1>1, <1>2, <1>4, TableTyped DEF TypeOK, AtMostOne
<1> QED
  BY <1>1, <1>4, <1>5, TableStep

-----------------------------------------------------------------------------
\* Pass work that leaves the table and the histories alone: what it lists or
\* still has to write is sound.
LEMMA WorkStep ==
    ASSUME Inv, NEW p \in Passes, UNCHANGED <<now, alerts, batch, existing, wpc, received, tried>>,
           overlaps' \in [Alerts -> Nat], faults' \in Nat, quiet' \in [Passes -> BOOLEAN], ppc' \in [Passes -> {"idle", "send"}],
           NEW L \in Table, listed' = [listed EXCEPT ![p] = L], AtMostOne(L),
           NEW W \in Table, written' = [written EXCEPT ![p] = W], AtMostOne(W),
           \A k \in Alerts : \A row \in L[k] : ListedSound(k, row),
           \A k \in Alerts : \A c \in W[k] : WrittenSound(k, c)
    PROVE  Inv'
<1> USE DEF Inv
<1>1. TypeOK'
  BY DEF TypeOK, AtMostOne
<1>2. TableInv'
  BY DEF TableInv, RowSound
<1>3. PassInv'
  <2>1. ASSUME NEW q \in Passes, NEW k \in Alerts, NEW row \in listed'[q][k]
        PROVE  ListedSound(k, row)'
    <3>1. ListedSound(k, row)
      BY <2>1 DEF PassInv, TypeOK
    <3> QED
      BY <3>1 DEF ListedSound, Outgoing
  <2>2. ASSUME NEW q \in Passes, NEW k \in Alerts, NEW c \in written'[q][k]
        PROVE  WrittenSound(k, c)'
    <3>1. WrittenSound(k, c)
      BY <2>2 DEF PassInv, TypeOK
    <3> QED
      BY <3>1 DEF WrittenSound, Outgoing
  <2> QED
    BY <2>1, <2>2 DEF PassInv
<1> QED
  BY <1>1, <1>2, <1>3

LEMMA NothingSound ==
    /\ Nothing \in Table /\ AtMostOne(Nothing)
    /\ \A k \in Alerts : Nothing[k] = {}
BY DEF Nothing, Table, AtMostOne

LEMMA ListInv ==
    ASSUME Inv, NEW p \in Passes, ListPending(p)
    PROVE  Inv'
<1> USE DEF Inv
<1> DEFINE L == [k \in Alerts |-> {row \in alerts[k] : Deliverable(row)}]
<1>1. L \in Table /\ AtMostOne(L)
  BY DEF TypeOK, Table, AtMostOne
<1>2. ASSUME NEW k \in Alerts, NEW row \in L[k] PROVE ListedSound(k, row)
  <2>1. row \in alerts[k] /\ row.state = "pending" /\ RowSound(k, row)
    BY <1>2 DEF Deliverable, TableInv
  <2>2. \A other \in alerts[k] : other = row
    BY <2>1 DEF TypeOK, AtMostOne
  <2> QED
    BY <2>1, <2>2 DEF ListedSound, Outgoing, RowSound
<1>3. /\ written[p] \in Table /\ AtMostOne(written[p])
      /\ written' = [written EXCEPT ![p] = written[p]]
      /\ \A k \in Alerts : \A c \in written[p][k] : WrittenSound(k, c)
  BY DEF ListPending, TypeOK, PassInv
<1>4. /\ UNCHANGED <<now, alerts, batch, existing, wpc, received, tried>> /\ faults' \in Nat
      /\ overlaps' \in [Alerts -> Nat]
      /\ quiet' \in [Passes -> BOOLEAN] /\ ppc' \in [Passes -> {"idle", "send"}]
      /\ listed' = [listed EXCEPT ![p] = L]
  <2>1. InQuietHours(now % DayLength) \in BOOLEAN
    BY DEF InQuietHours
  <2> QED
    BY <2>1 DEF ListPending, TypeOK, writerVars
<1> HIDE DEF L
<1> QED
  BY <1>1, <1>2, <1>3, <1>4, WorkStep

LEMMA SkipInv ==
    ASSUME Inv, NEW p \in Passes, SkipInfo(p)
    PROVE  Inv'
<1> USE DEF Inv
<1>1. PICK j \in Alerts : listed' = [listed EXCEPT ![p][j] = {}]
  BY DEF SkipInfo
<1> DEFINE L == [listed[p] EXCEPT ![j] = {}]
<1>2. /\ L \in Table /\ AtMostOne(L) /\ listed' = [listed EXCEPT ![p] = L]
      /\ \A k \in Alerts : L[k] \subseteq listed[p][k]
  BY <1>1 DEF TypeOK, Table, AtMostOne
<1>3. \A k \in Alerts : \A row \in L[k] : ListedSound(k, row)
  BY <1>2 DEF PassInv
<1>4. /\ written[p] \in Table /\ AtMostOne(written[p])
      /\ written' = [written EXCEPT ![p] = written[p]]
      /\ \A k \in Alerts : \A c \in written[p][k] : WrittenSound(k, c)
  BY DEF SkipInfo, TypeOK, PassInv
<1>5. /\ UNCHANGED <<now, alerts, batch, existing, wpc, received, tried>> /\ faults' \in Nat
      /\ overlaps' \in [Alerts -> Nat]
      /\ quiet' \in [Passes -> BOOLEAN] /\ ppc' \in [Passes -> {"idle", "send"}]
  BY DEF SkipInfo, TypeOK, writerVars
<1> HIDE DEF L
<1> QED
  BY <1>2, <1>3, <1>4, <1>5, WorkStep

LEMMA KillInv ==
    ASSUME Inv, NEW p \in Passes, KillPass(p)
    PROVE  Inv'
<1> USE DEF Inv
<1>1. /\ UNCHANGED <<now, alerts, batch, existing, wpc, received, tried>> /\ faults' \in Nat
      /\ overlaps' \in [Alerts -> Nat]
      /\ quiet' \in [Passes -> BOOLEAN] /\ ppc' \in [Passes -> {"idle", "send"}]
      /\ listed' = [listed EXCEPT ![p] = Nothing]
      /\ written' = [written EXCEPT ![p] = Nothing]
  BY DEF KillPass, PassDone, TypeOK, writerVars
<1> QED
  BY <1>1, NothingSound, WorkStep

\* One listed row is sent, or fails to: it leaves the list, `more' messages of it
\* arrive, and `change' waits for the commit.
LEMMA SendStep ==
    ASSUME Inv, NEW p \in Passes, NEW j \in Alerts, NEW row \in listed[p][j], NEW more \in Nat,
           NEW change \in Alert, change.state \in Decided \cup {"pending"},
           change.state = "sent" => more > 0,
           change.state # "sent" => change.attempts <= tried[j] + 1,
           change.state = "failed" => tried[j] + 1 >= MaxAttempts,
           UNCHANGED <<now, alerts, batch, existing, wpc, quiet, ppc, overlaps, tried>>, faults' \in Nat,
           received' = [received EXCEPT ![j] = @ + more],
           listed' = [listed EXCEPT ![p][j] = {}],
           written' = [written EXCEPT ![p][j] = {change}]
    PROVE  Inv'
<1> USE DEF Inv
<1>1. ListedSound(j, row) /\ Outgoing(j)
  BY DEF PassInv, ListedSound
<1>2. received' \in [Alerts -> Nat] /\ \A k \in Alerts : received'[k] >= received[k]
  BY DEF TypeOK
<1>3. TypeOK'
  <2>1. listed' \in [Passes -> Table] /\ \A q \in Passes : AtMostOne(listed'[q])
    BY DEF TypeOK, Table, AtMostOne
  <2>2. written' \in [Passes -> Table] /\ \A q \in Passes : AtMostOne(written'[q])
    BY DEF TypeOK, Table, AtMostOne
  <2> QED
    BY <1>2, <2>1, <2>2 DEF TypeOK, AtMostOne
<1>4. TableInv'
  <2>1. ASSUME NEW k \in Alerts, NEW r \in alerts[k] PROVE RowSound(k, r)'
    <3>1. RowSound(k, r) /\ received[k] \in Nat /\ received'[k] \in Nat
      BY <1>2 DEF TableInv, TypeOK
    <3>2. k # j => received'[k] = received[k]
      BY DEF TypeOK
    <3>3. k = j => r.born = "pending"
      BY <1>1 DEF Outgoing
    <3> QED
      BY <1>2, <3>1, <3>2, <3>3 DEF RowSound
  <2>2. ASSUME NEW k \in Alerts, alerts[k] = {} PROVE received'[k] = 0
    BY <1>1, <2>2 DEF Outgoing, TableInv, TypeOK
  <2> QED
    BY <2>1, <2>2 DEF TableInv
<1>5. PassInv'
  <2>1. ASSUME NEW q \in Passes, NEW k \in Alerts, NEW r \in listed'[q][k]
        PROVE  ListedSound(k, r)'
    <3>1. r \in listed[q][k]
      BY <2>1 DEF TypeOK, Table
    <3>2. ListedSound(k, r)
      BY <3>1 DEF PassInv
    <3> QED
      BY <3>2 DEF ListedSound, Outgoing
  <2>2. ASSUME NEW q \in Passes, NEW k \in Alerts, NEW c \in written'[q][k]
        PROVE  WrittenSound(k, c)'
    <3>1. c \in written[q][k] \/ (k = j /\ c = change)
      BY <2>2 DEF TypeOK, Table
    <3>2. CASE c \in written[q][k]
      <4>1. WrittenSound(k, c) /\ received[k] \in Nat /\ received'[k] \in Nat
        BY <1>2, <3>2 DEF PassInv, TypeOK
      <4> QED
        BY <1>2, <4>1 DEF WrittenSound, Outgoing
    <3>3. CASE k = j /\ c = change
      <4>1. received'[j] = received[j] + more /\ received[j] \in Nat
        BY DEF TypeOK
      <4> QED
        BY <1>1, <3>3, <4>1 DEF WrittenSound, Outgoing
    <3> QED
      BY <3>1, <3>2, <3>3
  <2> QED
    BY <2>1, <2>2 DEF PassInv
<1> QED
  BY <1>3, <1>4, <1>5

LEMMA SendInv ==
    ASSUME Inv, NEW p \in Passes, SendSucceeds(p) \/ SendFails(p)
    PROVE  Inv'
<1> USE DEF Inv
<1>1. CASE SendSucceeds(p)
  <2>0. PICK j \in Alerts, lost \in 0 .. Tries - 1 : \E row \in listed[p][j] :
           /\ NextUp(p, j, row)
           /\ ~ HoldBack(p, j)
           /\ faults + lost <= MaxFaults /\ (lost > 0 => "send" \in FaultKinds)
           /\ faults' = faults + lost
           /\ \E arrived \in 0 .. lost :
                 received' = [received EXCEPT ![j] = @ + 1 + arrived]
           /\ listed' = [listed EXCEPT ![p][j] = {}]
           /\ written' = [written EXCEPT ![p][j] = {SentRow(row)}]
    BY <1>1, Zenon DEF SendSucceeds
  <2>1. PICK row \in listed[p][j] :
           /\ faults' = faults + lost
           /\ \E arrived \in 0 .. lost :
                 received' = [received EXCEPT ![j] = @ + 1 + arrived]
           /\ listed' = [listed EXCEPT ![p][j] = {}]
           /\ written' = [written EXCEPT ![p][j] = {SentRow(row)}]
    BY <2>0, Zenon
  <2>2. PICK arrived \in 0 .. lost : received' = [received EXCEPT ![j] = @ + 1 + arrived]
    BY <2>1
  <2>3. row \in Alert
    BY DEF TypeOK, Table
  <2>4. /\ SentRow(row) \in Alert /\ SentRow(row).state = "sent"
        /\ SentRow(row).state \in Decided \cup {"pending"}
    BY <2>3, RowTypes DEF SentRow, Alert, Decided
  <2>5. /\ 1 + arrived \in Nat /\ 1 + arrived > 0 /\ faults' \in Nat
        /\ received' = [received EXCEPT ![j] = @ + (1 + arrived)]
    <3>1. lost \in Nat /\ arrived \in Nat /\ faults \in Nat
      BY AlertAssumption DEF TypeOK
    <3>2. faults' = faults + lost
      BY <2>1
    <3>3. received[j] \in Nat /\ received[j] + 1 + arrived = received[j] + (1 + arrived)
      BY <3>1 DEF TypeOK
    <3>4. received' = [received EXCEPT ![j] = received[j] + (1 + arrived)]
      BY <2>2, <3>3, Zenon
    <3> QED
      BY <3>1, <3>2, <3>4
  <2>6. UNCHANGED <<now, alerts, batch, existing, wpc, quiet, ppc, overlaps, tried>>
    BY <1>1 DEF SendSucceeds, writerVars
  <2> QED
    BY <2>1, <2>4, <2>5, <2>6, SendStep
<1>2. CASE SendFails(p)
  <2>1. PICK j \in Alerts, arrived \in 0 .. Tries : \E row \in listed[p][j] :
           /\ NextUp(p, j, row)
           /\ ~ HoldBack(p, j)
           /\ received' = [received EXCEPT ![j] = @ + arrived]
           /\ listed' = [listed EXCEPT ![p][j] = {}]
           /\ written' = [written EXCEPT ![p][j] = {UnsentRow(row)}]
    BY <1>2, Zenon DEF SendFails
  <2>2. PICK row \in listed[p][j] :
           /\ listed' = [listed EXCEPT ![p][j] = {}]
           /\ written' = [written EXCEPT ![p][j] = {UnsentRow(row)}]
    BY <2>1, Zenon
  <2>3. row \in Alert /\ ListedSound(j, row) /\ tried[j] \in Nat
    BY DEF TypeOK, Table, PassInv
  <2>4. /\ UnsentRow(row) \in Alert /\ UnsentRow(row).attempts = row.attempts + 1
        /\ UnsentRow(row).state \in Decided \cup {"pending"} /\ UnsentRow(row).state # "sent"
        /\ UnsentRow(row).state = "failed" => row.attempts + 1 >= MaxAttempts
    BY <2>3, RowTypes DEF UnsentRow, Alert, ListedSound, Decided
  <2>5. /\ UnsentRow(row).attempts <= tried[j] + 1
        /\ UnsentRow(row).state = "failed" => tried[j] + 1 >= MaxAttempts
    BY <2>3, <2>4, AlertAssumption DEF ListedSound, Alert
  <2>6. /\ UNCHANGED <<now, alerts, batch, existing, wpc, quiet, ppc, overlaps, tried>>
        /\ faults' \in Nat /\ arrived \in Nat
    BY <1>2, AlertAssumption DEF SendFails, writerVars, TypeOK
  <2> QED
    BY <2>1, <2>2, <2>4, <2>5, <2>6, SendStep
<1> QED
  BY <1>1, <1>2

LEMMA CommitInv ==
    ASSUME Inv, NEW p \in Passes, CommitPass(p)
    PROVE  Inv'
<1> USE DEF Inv
<1>1. /\ UNCHANGED <<now, batch, existing, wpc, received, overlaps, faults>>
      /\ listed' = [listed EXCEPT ![p] = Nothing]
      /\ written' = [written EXCEPT ![p] = Nothing]
      /\ quiet' \in [Passes -> BOOLEAN] /\ ppc' \in [Passes -> {"idle", "send"}]
  BY DEF CommitPass, PassDone, TypeOK, writerVars
<1>2. ASSUME NEW k \in Alerts
      PROVE  /\ tried'[k] \in Nat /\ tried[k] \in Nat /\ tried'[k] >= tried[k]
             /\ \A c \in written[p][k] : c.state # "sent" => tried'[k] = tried[k] + 1
             /\ written[p][k] = {} => alerts'[k] = alerts[k]
             /\ written[p][k] # {} =>
                   alerts'[k] = {Flushed(row, c) : row \in alerts[k], c \in written[p][k]}
  BY DEF CommitPass, TypeOK
<1>3. ASSUME NEW k \in Alerts PROVE KeyKept(k)
  <2>1. CASE written[p][k] = {}
    <3>1. ASSUME NEW row \in alerts[k] PROVE RowSound(k, row)'
      <4>1. RowSound(k, row) /\ row \in Alert
        BY DEF TableInv, TypeOK, Table
      <4> QED
        BY <1>1, <1>2, <4>1, AlertAssumption DEF RowSound, Alert
    <3>2. alerts'[k] = alerts[k] /\ received'[k] = received[k]
      BY <1>1, <1>2, <2>1
    <3>3. alerts[k] \subseteq Alert /\ \A x, y \in alerts[k] : x = y
      BY DEF TypeOK, Table, AtMostOne
    <3>4. alerts[k] = {} => received[k] = 0
      BY DEF TableInv
    <3>5. Outgoing(k) => Outgoing(k)'
      BY <3>2 DEF Outgoing
    <3> QED
      BY <3>1, <3>2, <3>3, <3>4, <3>5 DEF KeyKept
  <2>2. CASE written[p][k] # {}
    <3>1. PICK c \in written[p][k] : written[p][k] = {c}
      BY <2>2, SMTT(40) DEF TypeOK, AtMostOne
    <3>2. WrittenSound(k, c) /\ c \in Alert
      BY DEF PassInv, TypeOK, Table
    <3>3. PICK row \in alerts[k] : alerts[k] = {row}
      <4>1. alerts[k] # {}
        BY <3>2 DEF WrittenSound, Outgoing
      <4>2. \A x, y \in alerts[k] : x = y
        BY DEF TypeOK, AtMostOne
      <4> QED
        BY <4>1, <4>2
    <3>4. RowSound(k, row) /\ row \in Alert /\ row.born = "pending"
      BY <3>2, <3>3 DEF TableInv, TypeOK, Table, WrittenSound, Outgoing
    <3>5. alerts'[k] = {Flushed(row, c)} /\ Flushed(row, c) \in Alert
      BY <1>2, <2>2, <3>1, <3>2, <3>3, <3>4, RowTypes
    <3>6. CASE c.state = "sent"
      <4>1. /\ Flushed(row, c).state = "sent" /\ Flushed(row, c).attempts = row.attempts
            /\ Flushed(row, c).born = "pending"
        BY <3>4, <3>6 DEF Flushed, SentRow, Alert
      <4>2. ASSUME NEW new \in alerts'[k] PROVE RowSound(k, new)' /\ new.born = "pending"
        BY <1>1, <1>2, <3>2, <3>4, <3>5, <3>6, <4>1 DEF RowSound, WrittenSound, Alert, Decided
      <4> QED
        BY <3>5, <4>2 DEF KeyKept, Outgoing
    <3>7. CASE c.state # "sent"
      <4>1. /\ Flushed(row, c).attempts = c.attempts
            /\ Flushed(row, c).born = "pending"
            /\ Flushed(row, c).state = IF c.state = "failed" THEN "failed" ELSE row.state
        BY <3>4, <3>7 DEF Flushed, Alert
      <4>2. tried'[k] = tried[k] + 1
        BY <1>2, <3>7
      <4>3. ASSUME NEW new \in alerts'[k]
            PROVE  RowSound(k, new)' /\ new.born = "pending"
        BY <1>1, <1>2, <3>2, <3>4, <3>5, <3>7, <4>1, <4>2, AlertAssumption
           DEF RowSound, WrittenSound, Alert, Decided
      <4> QED
        BY <3>5, <4>3 DEF KeyKept, Outgoing
    <3> QED
      BY <3>6, <3>7
  <2> QED
    BY <2>1, <2>2
<1>4. TypeOK'
  <2>1. alerts' \in Table /\ AtMostOne(alerts')
    <3>1. alerts' = [k \in Alerts |-> alerts'[k]]
      BY DEF CommitPass
    <3> QED
      BY <1>3, <3>1, TableTyped
  <2>2. tried' \in [Alerts -> Nat]
    BY DEF CommitPass, TypeOK
  <2> QED
    BY <1>1, <2>1, <2>2, NothingSound DEF TypeOK, AtMostOne
<1>5. PassInv'
  <2>1. ASSUME NEW q \in Passes, NEW k \in Alerts, NEW row \in listed'[q][k]
        PROVE  ListedSound(k, row)'
    <3>1. ListedSound(k, row) /\ row \in Alert
      BY <1>1, <2>1, NothingSound DEF PassInv, TypeOK, Table
    <3> QED
      BY <1>2, <1>3, <3>1 DEF ListedSound, KeyKept, Alert
  <2>2. ASSUME NEW q \in Passes, NEW k \in Alerts, NEW c \in written'[q][k]
        PROVE  WrittenSound(k, c)'
    <3>1. WrittenSound(k, c) /\ c \in Alert
      BY <1>1, <2>2, NothingSound DEF PassInv, TypeOK, Table
    <3> QED
      BY <1>1, <1>2, <1>3, <3>1, AlertAssumption DEF WrittenSound, KeyKept, Alert
  <2> QED
    BY <2>1, <2>2 DEF PassInv
<1>6. TableInv'
  BY <1>3 DEF TableInv, KeyKept
<1> QED
  BY <1>4, <1>5, <1>6

LEMMA NextInv == Inv /\ [Next]_vars => Inv'
<1> SUFFICES ASSUME Inv, [Next]_vars PROVE Inv'
  OBVIOUS
<1>1. CASE Tick
  <2>1. TypeOK' /\ UNCHANGED <<alerts, listed, written, received, tried>>
    BY <1>1 DEF Tick, Inv, TypeOK, AtMostOne, writerVars, passVars
  <2> QED
    BY <2>1, QuietStep
<1>2. CASE MarkRead \/ MarkAllRead
  BY <1>2, ReaderInv
<1>3. ASSUME NEW w \in Writers, WriterStep(w) PROVE Inv'
  BY <1>3, SelectInv, InsertInv DEF WriterStep
<1>4. ASSUME NEW p \in Passes, PassStep(p) \/ KillPass(p) PROVE Inv'
  BY <1>4, ListInv, SkipInv, SendInv, CommitInv, KillInv DEF PassStep
<1>5. CASE UNCHANGED vars
  <2>1. TypeOK' /\ UNCHANGED <<alerts, listed, written, received, tried>>
    BY <1>5 DEF vars, Inv, TypeOK, AtMostOne
  <2> QED
    BY <2>1, QuietStep
<1> QED
  BY <1>1, <1>2, <1>3, <1>4, <1>5 DEF Next

-----------------------------------------------------------------------------
(* What a step may do to a decided row: only the commit of a pass changes   *)
(* the state of a row at all.                                              *)

\* What a step owes for the row of a decided alert.
DecidedKept == \A k \in Alerts : \A row \in alerts[k] : row.state # "pending" =>
    /\ alerts'[k] # {}
    /\ \A new \in alerts'[k] : new.state = row.state \/ {row.state, new.state} = Decided

\* Every row keeps its state; a row may be new where there was none.
StatesKept == \A k \in Alerts :
    /\ \A new \in alerts'[k], row \in alerts[k] : new.state = row.state
    /\ alerts[k] # {} => alerts'[k] # {}

LEMMA SameTable == ASSUME Inv, UNCHANGED alerts PROVE StatesKept
BY DEF StatesKept, Inv, TypeOK, AtMostOne

LEMMA WriterStates ==
    ASSUME Inv, NEW w \in Writers, WriterStep(w)
    PROVE  StatesKept
<1>1. ASSUME NEW k \in Alerts, alerts[k] # {} PROVE alerts'[k] = alerts[k]
  BY <1>1 DEF WriterStep, SelectExisting, InsertAlerts, InsertConflicts, Stored, Held
<1> QED
  BY <1>1 DEF StatesKept, Inv, TypeOK, AtMostOne

LEMMA ReaderStates ==
    ASSUME Inv, MarkRead \/ MarkAllRead
    PROVE  StatesKept
<1>2. \A row \in Alert : ReadRow(row).state = row.state
  BY DEF ReadRow, Alert
<1>3. \A k \in Alerts : alerts[k] \subseteq Alert /\ \A x, y \in alerts[k] : x = y
  BY DEF Inv, TypeOK, Table, AtMostOne
<1>4. CASE MarkRead
  <2>1. PICK j \in Stored : alerts' = [alerts EXCEPT ![j] = {ReadRow(Row(j))}]
    BY <1>4 DEF MarkRead
  <2>2. j \in Alerts /\ Row(j) \in alerts[j]
    BY DEF Stored, Held, Row
  <2>3. \A k \in Alerts : alerts'[k] = IF k = j THEN {ReadRow(Row(j))} ELSE alerts[k]
    BY <2>1 DEF Inv, TypeOK, Table
  <2> QED
    BY <1>2, <1>3, <2>2, <2>3 DEF StatesKept
<1>5. CASE MarkAllRead
  <2>1. ASSUME NEW k \in Alerts
        PROVE  alerts'[k] = {IF row.read THEN row ELSE ReadRow(row) : row \in alerts[k]}
    BY <1>5 DEF MarkAllRead
  <2> QED
    BY <1>2, <1>3, <2>1 DEF StatesKept
<1> QED
  BY <1>4, <1>5

LEMMA CommitStates ==
    ASSUME Inv, NEW p \in Passes, CommitPass(p)
    PROVE  DecidedKept
<1>1. SUFFICES ASSUME NEW k \in Alerts, NEW row \in alerts[k], row.state # "pending"
               PROVE  /\ alerts'[k] # {}
                      /\ \A new \in alerts'[k] :
                            new.state = row.state \/ {row.state, new.state} = Decided
  BY DEF DecidedKept
<1>2. \A other \in alerts[k] : other = row
  BY DEF Inv, TypeOK, AtMostOne
<1>3. CASE written[p][k] = {}
  <2>1. alerts'[k] = alerts[k]
    BY <1>3 DEF CommitPass
  <2> QED
    BY <1>2, <2>1
<1>4. CASE written[p][k] # {}
  <2>1. alerts'[k] = {Flushed(r, c) : r \in alerts[k], c \in written[p][k]}
    BY <1>4 DEF CommitPass
  <2>2. row \in Alert /\ row.state \in Decided
    <3>1. Outgoing(k) /\ RowSound(k, row)
      BY <1>4 DEF Inv, PassInv, TableInv, WrittenSound
    <3> QED
      BY <1>1, <3>1 DEF Outgoing, RowSound, Inv, TypeOK, Table
  <2>3. ASSUME NEW c \in written[p][k]
        PROVE  Flushed(row, c).state = row.state \/ Flushed(row, c).state \in Decided
    BY <2>2 DEF Flushed, SentRow, Alert, Decided
  <2>4. alerts'[k] # {}
    <3>1. PICK c \in written[p][k] : TRUE
      BY <1>4
    <3>2. Flushed(row, c) \in alerts'[k]
      BY <2>1
    <3> QED
      BY <3>2
  <2>5. ASSUME NEW new \in alerts'[k]
        PROVE  new.state = row.state \/ {row.state, new.state} = Decided
    <3>1. PICK c \in written[p][k] : new = Flushed(row, c)
      BY <1>2, <2>1
    <3>2. new.state = row.state \/ new.state \in Decided
      BY <2>3, <3>1
    <3> QED
      BY <2>2, <3>2 DEF Decided
  <2> QED
    BY <2>4, <2>5
<1> QED
  BY <1>3, <1>4

LEMMA NextStates ==
    ASSUME Inv, [Next]_vars
    PROVE  DecidedKept
<1>1. StatesKept => DecidedKept
  BY DEF StatesKept, DecidedKept
<1>2. CASE Tick \/ UNCHANGED vars
  BY <1>1, <1>2, SameTable DEF Tick, vars
<1>3. CASE MarkRead \/ MarkAllRead
  BY <1>1, <1>3, ReaderStates
<1>4. ASSUME NEW w \in Writers, WriterStep(w) PROVE DecidedKept
  BY <1>1, <1>4, WriterStates
<1>5. ASSUME NEW p \in Passes, PassStep(p) \/ KillPass(p) PROVE DecidedKept
  <2>1. CASE CommitPass(p)
    BY <2>1, CommitStates
  <2>2. CASE ListPending(p) \/ SkipInfo(p) \/ SendSucceeds(p) \/ SendFails(p) \/ KillPass(p)
    BY <1>1, <2>2, SameTable DEF ListPending, SkipInfo, SendSucceeds, SendFails, KillPass
  <2> QED
    BY <1>5, <2>1, <2>2 DEF PassStep
<1> QED
  BY <1>2, <1>3, <1>4, <1>5 DEF Next

-----------------------------------------------------------------------------
(* Counting messages.  Every pass that has k listed may still send it; the  *)
(* overlaps and faults pay for all of them but the first.  A pass whose     *)
(* send failed stays counted until it commits: the row may then be listed   *)
(* anew.                                                                    *)

Open(k) ==
    {p \in Passes : listed[p][k] # {} \/ \E c \in written[p][k] : c.state # "sent"}

\* The one message that needs no cause is under way, or was decided on.
Spent(k) ==
    \/ \E row \in alerts[k] : row.state # "pending"
    \/ \E p \in Passes : Holds(p, k)

First(k) == IF Spent(k) THEN 1 ELSE 0

Counted(k) ==
    received[k] + Cardinality(Open(k)) <= overlaps[k] + Tries * faults + First(k)

\* A row is either to be sent or to be committed, and a pass that is not under way
\* holds none.
WorkInv ==
    \A p \in Passes :
        /\ \A k \in Alerts : listed[p][k] = {} \/ written[p][k] = {}
        /\ ppc[p] = "idle" => \A k \in Alerts : ~ Holds(p, k)

CountInv == WorkInv /\ \A k \in Alerts : Counted(k)

LEMMA FinitePasses ==
    ASSUME NEW S, S \subseteq Passes
    PROVE  IsFiniteSet(S) /\ Cardinality(S) \in Nat
BY FS_Subset, FS_CardinalityType, AlertAssumption

LEMMA OpenFinite ==
    ASSUME NEW k \in Alerts
    PROVE  /\ IsFiniteSet(Open(k)) /\ Cardinality(Open(k)) \in Nat
           /\ IsFiniteSet(Open(k)') /\ Cardinality(Open(k)') \in Nat
<1>1. Open(k) \subseteq Passes /\ Open(k)' \subseteq Passes
  BY DEF Open
<1> QED
  BY <1>1, FinitePasses

LEMMA Tries_Times ==
    ASSUME NEW a \in Nat, NEW b \in Nat
    PROVE  /\ Tries * a \in Nat /\ Tries * b \in Nat
           /\ Tries * (a + b) = Tries * a + Tries * b
           /\ b <= Tries * b /\ Tries * 1 = Tries
<1>1. Tries \in Nat /\ Tries >= 1
  BY AlertAssumption
<1> QED
  BY <1>1, SMTT(40)

\* A step keeps the count of a key when what it adds is paid for.
LEMMA CountStep ==
    ASSUME TypeOK, TypeOK', NEW k \in Alerts, Counted(k),
           NEW more \in Nat, received'[k] = received[k] + more,
           NEW new \in Nat, overlaps'[k] = overlaps[k] + new,
           NEW lost \in Nat, faults' = faults + lost,
           more + Cardinality(Open(k)') + First(k)
               <= Cardinality(Open(k)) + new + Tries * lost + First(k)'
    PROVE  Counted(k)'
<1>1. /\ received[k] \in Nat /\ overlaps[k] \in Nat /\ faults \in Nat
      /\ First(k) \in Nat /\ First(k)' \in Nat
  BY DEF TypeOK, First
<1>2. /\ Tries * faults' = Tries * faults + Tries * lost
      /\ Tries * faults \in Nat /\ Tries * lost \in Nat
  BY <1>1, Tries_Times
<1>3. Cardinality(Open(k)) \in Nat /\ Cardinality(Open(k)') \in Nat
  BY OpenFinite
<1>4. received[k] + Cardinality(Open(k)) <= overlaps[k] + Tries * faults + First(k)
  BY DEF Counted
<1> HIDE DEF First, Open
<1>5. received'[k] + Cardinality(Open(k)') <= overlaps'[k] + Tries * faults' + First(k)'
  BY <1>1, <1>2, <1>3, <1>4
<1> QED
  BY <1>5 DEF Counted

\* A step that adds nothing and lets no first message go.
LEMMA CountSame ==
    ASSUME TypeOK, TypeOK', NEW k \in Alerts, Counted(k),
           received'[k] = received[k], overlaps'[k] = overlaps[k],
           NEW lost \in Nat, faults' = faults + lost,
           Open(k)' = Open(k), Spent(k) => Spent(k)'
    PROVE  Counted(k)'
<1>1. /\ received'[k] = received[k] + 0 /\ overlaps'[k] = overlaps[k] + 0
  BY DEF TypeOK
<1>2. First(k) <= First(k)' /\ First(k) \in Nat /\ First(k)' \in Nat
  BY DEF First
<1>3. Tries * lost \in Nat /\ Cardinality(Open(k)) \in Nat
  BY Tries_Times, OpenFinite
<1>4. 0 + Cardinality(Open(k)') + First(k) <= Cardinality(Open(k)) + 0 + Tries * lost + First(k)'
  BY <1>2, <1>3
<1> QED
  BY <1>1, <1>4, CountStep

\* What pass p did with key k leaves the other passes alone.
OthersKept(p, k) ==
    \A q \in Passes \ {p} : listed'[q][k] = listed[q][k] /\ written'[q][k] = written[q][k]

LEMMA OpenLoses ==
    ASSUME NEW p \in Passes, NEW k \in Alerts, OthersKept(p, k), p \notin Open(k)'
    PROVE  /\ Cardinality(Open(k)') <= Cardinality(Open(k))
           /\ p \in Open(k) => Cardinality(Open(k)') + 1 = Cardinality(Open(k))
<1>1. Open(k)' = Open(k) \ {p}
  BY DEF OthersKept, Open
<1>2. IsFiniteSet(Open(k)) /\ Cardinality(Open(k)) \in Nat /\ Cardinality(Open(k)') \in Nat
  BY OpenFinite
<1>3. p \in Open(k) => Cardinality(Open(k)') = Cardinality(Open(k)) - 1
  BY <1>1, <1>2, FS_RemoveElement
<1>4. p \notin Open(k) => Open(k)' = Open(k)
  BY <1>1
<1> HIDE DEF Open
<1> QED
  BY <1>2, <1>3, <1>4

LEMMA OpenGains ==
    ASSUME NEW p \in Passes, NEW k \in Alerts, OthersKept(p, k), p \in Open(k)', p \notin Open(k)
    PROVE  Cardinality(Open(k)') = Cardinality(Open(k)) + 1
<1>1. Open(k)' = Open(k) \cup {p}
  BY DEF OthersKept, Open
<1> QED
  BY <1>1, OpenFinite, FS_AddElement

\* A key pass p does not touch.
LEMMA UntouchedKey ==
    ASSUME NEW p \in Passes, NEW k \in Alerts, OthersKept(p, k), UNCHANGED alerts,
           listed'[p][k] = listed[p][k], written'[p][k] = written[p][k]
    PROVE  Open(k)' = Open(k) /\ Spent(k)' = Spent(k)
<1>1. \A q \in Passes : listed'[q][k] = listed[q][k] /\ written'[q][k] = written[q][k]
  BY DEF OthersKept
<1>2. Open(k)' = Open(k)
  BY <1>1 DEF Open
<1>3. Spent(k)' <=> Spent(k)
  BY <1>1 DEF Spent, Holds
<1>4. Spent(k)' \in BOOLEAN /\ Spent(k) \in BOOLEAN
  BY DEF Spent
<1> QED
  BY <1>2, <1>3, <1>4

-----------------------------------------------------------------------------
LEMMA InitCount == Init => CountInv
<1> SUFFICES ASSUME Init PROVE CountInv
  OBVIOUS
<1>1. WorkInv
  BY DEF Init, WorkInv, Holds, Nothing
<1>2. ASSUME NEW k \in Alerts PROVE Counted(k)
  <2>1. Open(k) = {}
    BY DEF Init, Open, Nothing
  <2>2. received[k] = 0 /\ overlaps[k] = 0 /\ faults = 0 /\ First(k) \in {0, 1}
    BY DEF Init, First
  <2>3. Cardinality(Open(k)) = 0
    BY <2>1, FS_EmptySet
  <2>4. Tries * 0 \in Nat
    BY Tries_Times
  <2> HIDE DEF Open, First
  <2> QED
    BY <2>2, <2>3, <2>4 DEF Counted
<1> QED
  BY <1>1, <1>2 DEF CountInv

\* Steps of time, writers and readers.
LEMMA OutsideCount ==
    ASSUME Inv, Inv', CountInv, DecidedKept,
           UNCHANGED <<listed, written, ppc, received, overlaps, faults>>
    PROVE  CountInv'
<1>1. WorkInv'
  BY DEF CountInv, WorkInv, Holds
<1>2. ASSUME NEW k \in Alerts PROVE Counted(k)'
  <2>1. Open(k)' = Open(k)
    BY DEF Open
  <2>2. Spent(k) => Spent(k)'
    <3>1. CASE \E row \in alerts[k] : row.state # "pending"
      <4>1. PICK row \in alerts[k] : row.state # "pending"
        BY <3>1
      <4>2. PICK new \in alerts'[k] : new.state = row.state \/ {row.state, new.state} = Decided
        BY <4>1 DEF DecidedKept
      <4>3. new.state # "pending"
        BY <4>1, <4>2 DEF Decided
      <4> QED
        BY <4>3 DEF Spent
    <3>2. CASE \E p \in Passes : Holds(p, k)
      BY <3>2 DEF Spent, Holds
    <3> QED
      BY <3>1, <3>2 DEF Spent
  <2>3. faults' = faults + 0 /\ 0 \in Nat
    BY DEF Inv, TypeOK
  <2> QED
    BY <2>1, <2>2, <2>3, CountSame DEF Inv, CountInv
<1> QED
  BY <1>1, <1>2 DEF CountInv

LEMMA ListCount ==
    ASSUME Inv, Inv', CountInv, NEW p \in Passes, ListPending(p)
    PROVE  CountInv'
<1>1. /\ UNCHANGED <<alerts, written, received, faults>>
      /\ \A k \in Alerts : ~ Holds(p, k)
      /\ \A k \in Alerts : OthersKept(p, k)
      /\ \A k \in Alerts : listed'[p][k] = {row \in alerts[k] : Deliverable(row)}
      /\ \A q \in Passes : q # p => ppc'[q] = ppc[q]
      /\ ppc'[p] = "send"
  BY DEF ListPending, CountInv, WorkInv, OthersKept, Inv, TypeOK
<1>2. WorkInv'
  BY <1>1 DEF CountInv, WorkInv, Holds, OthersKept
<1>3. ASSUME NEW k \in Alerts PROVE Counted(k)'
  <2>1. CASE listed'[p][k] = {}
    <3>1. listed'[p][k] = listed[p][k] /\ written'[p][k] = written[p][k]
      BY <1>1, <2>1 DEF Holds
    <3>2. overlaps'[k] = overlaps[k] /\ faults' = faults + 0 /\ 0 \in Nat
      BY <2>1 DEF ListPending, Inv, TypeOK
    <3> QED
      BY <1>1, <3>1, <3>2, UntouchedKey, CountSame DEF Inv, CountInv
  <2>2. CASE listed'[p][k] # {}
    <3>1. p \in Open(k)' /\ p \notin Open(k) /\ Spent(k)'
      BY <1>1, <2>2 DEF Open, Holds, Spent
    <3>2. Cardinality(Open(k)') = Cardinality(Open(k)) + 1 /\ Cardinality(Open(k)) \in Nat
      BY <1>1, <3>1, OpenGains, OpenFinite
    <3>3. \A row \in alerts[k] : row.state = "pending"
      BY <1>1, <2>2 DEF Deliverable, Inv, TypeOK, AtMostOne
    <3>4. /\ received'[k] = received[k] + 0 /\ faults' = faults + 0
          /\ First(k)' = 1 /\ First(k) \in {0, 1}
      BY <1>1, <3>1 DEF Inv, TypeOK, First
    <3>5. Tries * 0 \in Nat
      BY Tries_Times
    <3>6. CASE \E q \in Passes : Holds(q, k)
      <4>1. overlaps'[k] = overlaps[k] + 1
        BY <2>2, <3>6 DEF ListPending
      <4>2. 0 + Cardinality(Open(k)') + First(k)
               <= Cardinality(Open(k)) + 1 + Tries * 0 + First(k)'
        BY <3>2, <3>4, <3>5
      <4> QED
        BY <3>4, <4>1, <4>2, CountStep DEF Inv, CountInv
    <3>7. CASE ~ \E q \in Passes : Holds(q, k)
      <4>1. overlaps'[k] = overlaps[k] + 0
        BY <3>7 DEF ListPending, Inv, TypeOK
      <4>2. First(k) = 0
        BY <3>3, <3>7 DEF First, Spent
      <4>3. 0 + Cardinality(Open(k)') + First(k)
               <= Cardinality(Open(k)) + 0 + Tries * 0 + First(k)'
        BY <3>2, <3>4, <3>5, <4>2
      <4> QED
        BY <3>4, <4>1, <4>3, CountStep DEF Inv, CountInv
    <3> QED
      BY <3>6, <3>7
  <2> QED
    BY <2>1, <2>2
<1> QED
  BY <1>2, <1>3 DEF CountInv

LEMMA SkipCount ==
    ASSUME Inv, Inv', CountInv, NEW p \in Passes, SkipInfo(p)
    PROVE  CountInv'
<1>0. UNCHANGED <<alerts, written, received, overlaps, faults, ppc>> /\ ppc[p] = "send"
  BY DEF SkipInfo
<1>1. PICK j \in Alerts : listed[p][j] # {} /\ listed' = [listed EXCEPT ![p][j] = {}]
  BY DEF SkipInfo
<1>2. /\ listed'[p][j] = {} /\ \A k \in Alerts : OthersKept(p, k)
      /\ \A k \in Alerts \ {j} : listed'[p][k] = listed[p][k]
  BY <1>0, <1>1 DEF OthersKept, Inv, TypeOK, Table
<1>3. WorkInv'
  BY <1>0, <1>2 DEF CountInv, WorkInv, Holds, OthersKept
<1>4. faults' = faults + 0 /\ 0 \in Nat /\ Tries * 0 \in Nat
  BY <1>0, Tries_Times DEF Inv, TypeOK
<1>5. ASSUME NEW k \in Alerts, k # j PROVE Counted(k)'
  BY <1>0, <1>2, <1>4, <1>5, UntouchedKey, CountSame DEF Inv, CountInv
<1>6. Counted(j)'
  <2>1. p \in Open(j) /\ p \notin Open(j)'
    BY <1>0, <1>1, <1>2 DEF Open, CountInv, WorkInv
  <2>2. Cardinality(Open(j)') + 1 = Cardinality(Open(j))
        /\ Cardinality(Open(j)') \in Nat /\ Cardinality(Open(j)) \in Nat
    BY <1>2, <2>1, OpenLoses, OpenFinite
  <2>3. First(j) \in {0, 1} /\ First(j)' \in {0, 1}
    BY DEF First
  <2>4. 0 + Cardinality(Open(j)') + First(j)
           <= Cardinality(Open(j)) + 0 + Tries * 0 + First(j)'
    BY <1>4, <2>2, <2>3
  <2>5. received'[j] = received[j] + 0 /\ overlaps'[j] = overlaps[j] + 0
    BY <1>0 DEF Inv, TypeOK
  <2> QED
    BY <1>4, <2>4, <2>5, CountStep DEF Inv, CountInv
<1> QED
  BY <1>3, <1>5, <1>6 DEF CountInv

\* A listed row leaves the list of p and a change of it waits for the commit:
\* `more' messages arrived, at the price of `lost' faults.
LEMMA SentCount ==
    ASSUME Inv, Inv', CountInv, NEW p \in Passes, NEW j \in Alerts, NEW change \in Alert,
           listed[p][j] # {}, ppc[p] = "send", UNCHANGED <<alerts, overlaps, ppc>>,
           listed' = [listed EXCEPT ![p][j] = {}],
           written' = [written EXCEPT ![p][j] = {change}],
           NEW more \in Nat, received' = [received EXCEPT ![j] = @ + more],
           NEW lost \in Nat, faults' = faults + lost,
           change.state = "sent" => more <= lost + 1,
           change.state # "sent" => more <= Tries * lost
    PROVE  CountInv'
<1>2. /\ listed'[p][j] = {} /\ written'[p][j] = {change}
      /\ \A k \in Alerts : OthersKept(p, k)
      /\ \A k \in Alerts \ {j} : listed'[p][k] = listed[p][k] /\ written'[p][k] = written[p][k]
      /\ \A k \in Alerts \ {j} : received'[k] = received[k]
      /\ received'[j] = received[j] + more /\ overlaps'[j] = overlaps[j] + 0
  BY DEF OthersKept, Inv, TypeOK, Table
<1>3. WorkInv'
  BY <1>2 DEF CountInv, WorkInv, Holds, OthersKept
<1>5. ASSUME NEW k \in Alerts, k # j PROVE Counted(k)'
  BY <1>2, <1>5, UntouchedKey, CountSame DEF Inv, CountInv
<1>6. Counted(j)'
  <2>1. p \in Open(j) /\ Spent(j) /\ Spent(j)'
    BY <1>2 DEF Open, Spent, Holds
  <2>2. First(j) = 1 /\ First(j)' = 1
    BY <2>1 DEF First
  <2>3. Cardinality(Open(j)') \in Nat /\ Cardinality(Open(j)) \in Nat
    BY OpenFinite
  <2>4. Tries * lost \in Nat /\ lost <= Tries * lost
    BY Tries_Times
  <2>5. more + Cardinality(Open(j)') <= Cardinality(Open(j)) + Tries * lost
    <3>1. CASE change.state = "sent"
      <4>1. p \notin Open(j)'
        BY <1>2, <3>1 DEF Open
      <4>2. Cardinality(Open(j)') + 1 = Cardinality(Open(j))
        BY <1>2, <2>1, <4>1, OpenLoses
      <4> QED
        BY <2>3, <2>4, <3>1, <4>2
    <3>2. CASE change.state # "sent"
      <4>1. Open(j)' = Open(j)
        BY <1>2, <2>1, <3>2 DEF Open, OthersKept
      <4> QED
        BY <2>3, <2>4, <3>2, <4>1
    <3> QED
      BY <3>1, <3>2
  <2>6. more + Cardinality(Open(j)') + First(j)
           <= Cardinality(Open(j)) + 0 + Tries * lost + First(j)'
    BY <2>2, <2>3, <2>4, <2>5
  <2> QED
    BY <1>2, <2>6, CountStep DEF Inv, CountInv
<1> QED
  BY <1>3, <1>5, <1>6 DEF CountInv

LEMMA SendCount ==
    ASSUME Inv, Inv', CountInv, NEW p \in Passes, SendSucceeds(p) \/ SendFails(p)
    PROVE  CountInv'
<1>1. UNCHANGED <<alerts, overlaps, ppc>> /\ ppc[p] = "send" /\ faults \in Nat
  BY DEF SendSucceeds, SendFails, Inv, TypeOK
<1>2. CASE SendSucceeds(p)
  <2>1. PICK j \in Alerts, lost \in 0 .. Tries - 1 : \E row \in listed[p][j] :
           /\ NextUp(p, j, row)
           /\ ~ HoldBack(p, j)
           /\ faults + lost <= MaxFaults /\ (lost > 0 => "send" \in FaultKinds)
           /\ faults' = faults + lost
           /\ \E arrived \in 0 .. lost :
                 received' = [received EXCEPT ![j] = @ + 1 + arrived]
           /\ listed' = [listed EXCEPT ![p][j] = {}]
           /\ written' = [written EXCEPT ![p][j] = {SentRow(row)}]
    BY <1>2, Zenon DEF SendSucceeds
  <2>2. PICK row \in listed[p][j] :
           /\ faults' = faults + lost
           /\ \E arrived \in 0 .. lost :
                 received' = [received EXCEPT ![j] = @ + 1 + arrived]
           /\ listed' = [listed EXCEPT ![p][j] = {}]
           /\ written' = [written EXCEPT ![p][j] = {SentRow(row)}]
    BY <2>1, Zenon
  <2>3. PICK arrived \in 0 .. lost : received' = [received EXCEPT ![j] = @ + 1 + arrived]
    BY <2>2
  <2>4. row \in Alert /\ SentRow(row) \in Alert /\ SentRow(row).state = "sent"
    <3>1. row \in Alert
      BY DEF Inv, TypeOK, Table
    <3> QED
      BY <3>1, RowTypes DEF SentRow, Alert
  <2>5. lost \in Nat /\ arrived \in Nat /\ arrived <= lost /\ 1 + arrived \in Nat
    BY AlertAssumption
  <2>6. received' = [received EXCEPT ![j] = @ + (1 + arrived)]
    <3>1. received[j] \in Nat /\ received[j] + 1 + arrived = received[j] + (1 + arrived)
      BY <2>5 DEF Inv, TypeOK
    <3>2. received' = [received EXCEPT ![j] = received[j] + (1 + arrived)]
      BY <2>3, <3>1, Zenon
    <3> QED
      BY <3>2
  <2>7. 1 + arrived <= lost + 1
    BY <2>5
  <2> QED
    BY <1>1, <2>2, <2>4, <2>5, <2>6, <2>7, SentCount
<1>3. CASE SendFails(p)
  <2>1. PICK j \in Alerts, arrived \in 0 .. Tries : \E row \in listed[p][j] :
           /\ NextUp(p, j, row)
           /\ ~ HoldBack(p, j)
           /\ received' = [received EXCEPT ![j] = @ + arrived]
           /\ listed' = [listed EXCEPT ![p][j] = {}]
           /\ written' = [written EXCEPT ![p][j] = {UnsentRow(row)}]
    BY <1>3, Zenon DEF SendFails
  <2>2. PICK row \in listed[p][j] :
           /\ received' = [received EXCEPT ![j] = @ + arrived]
           /\ listed' = [listed EXCEPT ![p][j] = {}]
           /\ written' = [written EXCEPT ![p][j] = {UnsentRow(row)}]
    BY <2>1, Zenon
  <2>3. row \in Alert /\ row.state = "pending"
    BY DEF Inv, TypeOK, Table, PassInv, ListedSound
  <2>4. UnsentRow(row) \in Alert /\ UnsentRow(row).state # "sent"
    BY <2>3, RowTypes DEF UnsentRow, Alert
  <2>5. arrived \in Nat /\ 1 \in Nat /\ arrived <= Tries * 1 /\ faults' = faults + 1
    <3>1. arrived \in Nat /\ arrived <= Tries /\ Tries * 1 = Tries
      BY AlertAssumption, Tries_Times
    <3> QED
      BY <1>3, <3>1 DEF SendFails
  <2> QED
    BY <1>1, <2>2, <2>4, <2>5, SentCount
<1> QED
  BY <1>2, <1>3

LEMMA CommitCount ==
    ASSUME Inv, Inv', CountInv, DecidedKept, NEW p \in Passes, CommitPass(p)
    PROVE  CountInv'
<1>1. /\ UNCHANGED <<received, overlaps, faults>>
      /\ \A k \in Alerts : listed[p][k] = {} /\ listed'[p][k] = {} /\ written'[p][k] = {}
      /\ \A k \in Alerts : OthersKept(p, k)
      /\ \A q \in Passes : q # p => ppc'[q] = ppc[q]
  BY DEF CommitPass, PassDone, OthersKept, Inv, TypeOK, Nothing
<1>2. WorkInv'
  BY <1>1 DEF CountInv, WorkInv, Holds, OthersKept
<1>3. faults' = faults + 0 /\ 0 \in Nat /\ Tries * 0 \in Nat
  BY <1>1, Tries_Times DEF Inv, TypeOK
<1>4. ASSUME NEW k \in Alerts PROVE Counted(k)'
  <2>1. p \notin Open(k)'
    BY <1>1 DEF Open
  <2>2. /\ Cardinality(Open(k)') <= Cardinality(Open(k))
        /\ p \in Open(k) => Cardinality(Open(k)') + 1 = Cardinality(Open(k))
        /\ Cardinality(Open(k)') \in Nat /\ Cardinality(Open(k)) \in Nat
    BY <1>1, <2>1, OpenLoses, OpenFinite
  <2>3. First(k) \in {0, 1} /\ First(k)' \in {0, 1}
    BY DEF First
  <2>4. p \in Open(k) \/ (Spent(k) => Spent(k)')
    <3> SUFFICES ASSUME p \notin Open(k), Spent(k) PROVE Spent(k)'
      OBVIOUS
    <3>1. CASE \E row \in alerts[k] : row.state # "pending"
      <4>1. PICK row \in alerts[k] : row.state # "pending"
        BY <3>1
      <4>2. PICK new \in alerts'[k] : new.state = row.state \/ {row.state, new.state} = Decided
        BY <4>1 DEF DecidedKept
      <4>3. new.state # "pending"
        BY <4>1, <4>2 DEF Decided
      <4> QED
        BY <4>3 DEF Spent
    <3>2. CASE \E q \in Passes \ {p} : Holds(q, k)
      BY <1>1, <3>2 DEF Spent, Holds, OthersKept
    <3>3. CASE Holds(p, k)
      <4>1. PICK c \in written[p][k] : c.state = "sent"
        BY <1>1, <3>3 DEF Holds, Open
      <4>2. PICK row \in alerts[k] : row \in Alert
        BY <4>1 DEF Inv, PassInv, WrittenSound, Outgoing, TypeOK, Table
      <4>3. Flushed(row, c).state = "sent"
        BY <4>1, <4>2 DEF Flushed, SentRow, Alert
      <4>4. Flushed(row, c) \in alerts'[k]
        BY <4>1, <4>2 DEF CommitPass
      <4> QED
        BY <4>3, <4>4 DEF Spent
    <3> QED
      BY <3>1, <3>2, <3>3 DEF Spent
  <2>5. p \in Open(k) \/ First(k) <= First(k)'
    BY <2>4 DEF First
  <2>6. 0 + Cardinality(Open(k)') + First(k)
           <= Cardinality(Open(k)) + 0 + Tries * 0 + First(k)'
    BY <1>3, <2>2, <2>3, <2>5
  <2>7. received'[k] = received[k] + 0 /\ overlaps'[k] = overlaps[k] + 0
    BY <1>1 DEF Inv, TypeOK
  <2> QED
    BY <1>3, <2>6, <2>7, CountStep DEF Inv, CountInv
<1> QED
  BY <1>2, <1>4 DEF CountInv

LEMMA KillCount ==
    ASSUME Inv, Inv', CountInv, NEW p \in Passes, KillPass(p)
    PROVE  CountInv'
<1>1. /\ UNCHANGED <<alerts, received, overlaps>> /\ faults' = faults + 1
      /\ \A k \in Alerts : listed'[p][k] = {} /\ written'[p][k] = {}
      /\ \A k \in Alerts : OthersKept(p, k)
      /\ \A q \in Passes : q # p => ppc'[q] = ppc[q]
  BY DEF KillPass, PassDone, OthersKept, Inv, TypeOK, Nothing
<1>2. WorkInv'
  BY <1>1 DEF CountInv, WorkInv, Holds, OthersKept
<1>3. Tries * 1 \in Nat /\ Tries * 1 >= 1
  BY Tries_Times, AlertAssumption
<1>4. ASSUME NEW k \in Alerts PROVE Counted(k)'
  <2>1. p \notin Open(k)'
    BY <1>1 DEF Open
  <2>2. /\ Cardinality(Open(k)') <= Cardinality(Open(k))
        /\ Cardinality(Open(k)') \in Nat /\ Cardinality(Open(k)) \in Nat
    BY <1>1, <2>1, OpenLoses, OpenFinite
  <2>3. First(k) \in {0, 1} /\ First(k)' \in {0, 1}
    BY DEF First
  <2>4. 0 + Cardinality(Open(k)') + First(k)
           <= Cardinality(Open(k)) + 0 + Tries * 1 + First(k)'
    BY <1>3, <2>2, <2>3
  <2>5. received'[k] = received[k] + 0 /\ overlaps'[k] = overlaps[k] + 0
    BY <1>1 DEF Inv, TypeOK
  <2> QED
    BY <1>1, <2>4, <2>5, CountStep DEF Inv, CountInv
<1> QED
  BY <1>2, <1>4 DEF CountInv

LEMMA NextCount == Inv /\ Inv' /\ CountInv /\ [Next]_vars => CountInv'
<1> SUFFICES ASSUME Inv, Inv', CountInv, [Next]_vars PROVE CountInv'
  OBVIOUS
<1>0. DecidedKept
  BY NextStates
<1>1. CASE Tick \/ MarkRead \/ MarkAllRead \/ UNCHANGED vars
  <2>1. UNCHANGED <<listed, written, ppc, received, overlaps, faults>>
    BY <1>1 DEF Tick, MarkRead, MarkAllRead, vars, passVars
  <2> QED
    BY <1>0, <2>1, OutsideCount
<1>2. ASSUME NEW w \in Writers, WriterStep(w) PROVE CountInv'
  <2>1. UNCHANGED <<listed, written, ppc, received, overlaps, faults>>
    BY <1>2 DEF WriterStep, SelectExisting, InsertAlerts, InsertConflicts, passVars
  <2> QED
    BY <1>0, <2>1, OutsideCount
<1>3. ASSUME NEW p \in Passes, PassStep(p) \/ KillPass(p) PROVE CountInv'
  BY <1>0, <1>3, ListCount, SkipCount, SendCount, CommitCount, KillCount DEF PassStep
<1> QED
  BY <1>1, <1>2, <1>3 DEF Next

-----------------------------------------------------------------------------
\* What Row picks is a row of the table.
LEMMA RowInTable == ASSUME NEW k \in Stored PROVE k \in Alerts /\ Row(k) \in alerts[k]
BY DEF Stored, Held, Row

\* Every variable keeps its shape and no dedupe key has two rows, whatever writers
\* race on a key and whatever state they name (create_alerts, alerts_dedupe_key_key).
THEOREM AlertsTyped == Spec => []TypeOK
<1>1. Inv => TypeOK
  BY DEF Inv
<1> QED
  BY <1>1, InitInv, NextInv, PTL DEF Spec

\* Whatever passes overlap, die or lose answers, a row created pending is "sent" only
\* if its message reached the chat, and a row created in any other state stays as it
\* is and silent.
THEOREM AlertsTellReceived == Spec => []StateTellsReceived
<1>1. Inv => StateTellsReceived
  BY RowInTable DEF Inv, TableInv, RowSound, StateTellsReceived
<1> QED
  BY <1>1, InitInv, NextInv, PTL DEF Spec

\* A pending alert is given up only after MaxAttempts passes that could not send it,
\* also when overlapping passes overwrite each other's count.
THEOREM AlertsTriedBeforeFailed == Spec => []FailedWasTried
<1>1. Inv => FailedWasTried
  BY RowInTable DEF Inv, TableInv, RowSound, FailedWasTried
<1> QED
  BY <1>1, InitInv, NextInv, PTL DEF Spec

\* Every message beyond the first has an overlap of two passes or a fault as its
\* cause, for any number of alerts, writers and overlapping passes.
THEOREM RepeatsAccounted == Spec => []RepeatsHaveCause
<1>1. Init => Inv /\ CountInv
  BY InitInv, InitCount
<1>2. Inv /\ CountInv /\ [Next]_vars => Inv' /\ CountInv'
  BY NextInv, NextCount
<1>3. Inv /\ CountInv => RepeatsHaveCause
  <2> SUFFICES ASSUME Inv, CountInv, NEW k \in Alerts
               PROVE  received[k] <= 1 + overlaps[k] + Tries * faults
    BY DEF RepeatsHaveCause
  <2>1. First(k) \in {0, 1} /\ Cardinality(Open(k)) \in Nat /\ Tries * faults \in Nat
    BY OpenFinite, Tries_Times DEF First, Inv, TypeOK
  <2>2. received[k] + Cardinality(Open(k)) <= overlaps[k] + Tries * faults + First(k)
    BY DEF CountInv, Counted
  <2>3. received[k] \in Nat /\ overlaps[k] \in Nat
    BY DEF Inv, TypeOK
  <2> HIDE DEF First, Open
  <2> QED
    BY <2>1, <2>2, <2>3
<1> QED
  BY <1>1, <1>2, <1>3, PTL DEF Spec

\* A decided alert never waits for a pass again, however many passes hold it: the
\* commit of one that does may only turn "sent" into "failed" or back.
THEOREM DecisionsStand == Spec => DecidedStays
<1>1. Inv /\ [Next]_vars =>
        \A k \in Stored :
            Row(k).state # "pending" =>
                \/ Row(k)'.state = Row(k).state
                \/ {Row(k).state, Row(k)'.state} = {"sent", "failed"}
  <2> SUFFICES ASSUME Inv, [Next]_vars, NEW k \in Stored, Row(k).state # "pending"
               PROVE  \/ Row(k)'.state = Row(k).state
                      \/ {Row(k).state, Row(k)'.state} = {"sent", "failed"}
    OBVIOUS
  <2>1. DecidedKept /\ k \in Alerts /\ Row(k) \in alerts[k]
    BY NextStates, RowInTable
  <2>2. /\ alerts'[k] # {}
        /\ \A new \in alerts'[k] :
              new.state = Row(k).state \/ {Row(k).state, new.state} = Decided
    BY <2>1 DEF DecidedKept
  <2>3. Row(k)' \in alerts'[k]
    BY <2>2 DEF Row
  <2> QED
    BY <2>2, <2>3 DEF Decided
<1> QED
  BY <1>1, InitInv, NextInv, PTL DEF Spec, DecidedStays

=============================================================================
