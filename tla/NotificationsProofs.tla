--------------------------- MODULE NotificationsProofs ---------------------------
(***************************************************************************)
(* The follow watch never passes a follow that settled in order, for any    *)
(* number of follows, tabs and overlapping polls.  A poll under way holds    *)
(* what makes that so: it has read every due follow that is not older than  *)
(* all it read.                                                            *)
(***************************************************************************)
EXTENDS Notifications, FiniteSetTheorems, SequenceTheorems, WellFoundedInduction, TLAPS

\* A poll that read `rows' may move the cursor without passing f.
Covers(rows, f) ==
    published[f] > 0 \/ f \in rows \/ \A g \in rows : closedAt[g] < closedAt[f]

WatchTypes ==
    /\ now \in Nat
    /\ closedAt \in [Follows -> Nat]
    /\ cursor \in Nat
    /\ published \in [Events -> Nat]
    /\ checks \in [Checks -> SUBSET SUBSET Follows]
    /\ due \subseteq Settled

PollsSound ==
    \A k \in Checks : \A rows \in checks[k] :
        rows \subseteq Settled /\ \A f \in due : Covers(rows, f)

Inv == WatchTypes /\ CursorBehind /\ PollsSound

-----------------------------------------------------------------------------
\* Emitting forgets nothing, and counts everything that is emitted.
LEMMA EmitCounts ==
    ASSUME NEW rows \in SUBSET Follows, NEW order \in ByTime(rows),
           published \in [Events -> Nat], Emit(order)
    PROVE  /\ published' \in [Events -> Nat]
           /\ \A e \in Events : published'[e] >= published[e]
           /\ \A f \in rows : published'[f] > 0
<1> DEFINE At(e) == {i \in DOMAIN order : order[i] = e}
<1>1. IsFiniteSet(rows) /\ Cardinality(rows) \in Nat
  BY FS_Subset, FS_CardinalityType, NotificationAssumption
<1>2. DOMAIN order = 1 .. Cardinality(rows)
  BY DEF ByTime
<1>3. IsFiniteSet(DOMAIN order)
  BY <1>1, <1>2, FS_Interval
<1>4. ASSUME NEW e \in Events PROVE IsFiniteSet(At(e)) /\ Cardinality(At(e)) \in Nat
  BY <1>3, FS_Subset, FS_CardinalityType
<1>5. published' = [e \in Events |-> published[e] + Cardinality(At(e))]
  BY DEF Emit
<1>6. ASSUME NEW f \in rows PROVE Cardinality(At(f)) > 0
  <2>1. f \in Events
    BY DEF Events
  <2>2. At(f) # {}
    BY DEF ByTime
  <2> QED
    BY <1>4, <2>1, <2>2, FS_EmptySet
<1>7. \A f \in rows : f \in Events
  BY DEF Events
<1> HIDE DEF At
<1> QED
  BY <1>4, <1>5, <1>6, <1>7

LEMMA EmitOneKeeps ==
    ASSUME NEW e \in Events, published \in [Events -> Nat], Emit(<<e>>)
    PROVE  published' \in [Events -> Nat] /\ \A d \in Events : published'[d] >= published[d]
<1> DEFINE At(d) == {i \in DOMAIN <<e>> : <<e>>[i] = d}
<1>1. IsFiniteSet(DOMAIN <<e>>)
  <2>1. DOMAIN <<e>> = {1}
    OBVIOUS
  <2> QED
    BY <2>1, FS_Singleton
<1>2. \A d \in Events : Cardinality(At(d)) \in Nat
  BY <1>1, FS_Subset, FS_CardinalityType
<1>3. published' = [d \in Events |-> published[d] + Cardinality(At(d))]
  BY DEF Emit
<1> HIDE DEF At
<1> QED
  BY <1>2, <1>3

\* A step that leaves the rows, the cursor, the polls and the due follows alone
\* and forgets no emission keeps the invariant.
LEMMA QuietStep ==
    ASSUME Inv, now' \in Nat, UNCHANGED <<closedAt, cursor, checks, due>>,
           published' \in [Events -> Nat], \A e \in Events : published'[e] >= published[e]
    PROVE  Inv'
<1>1. \A f \in Follows : published[f] > 0 => published'[f] > 0
  BY DEF Inv, WatchTypes, Events
<1>2. due \subseteq Follows
  BY DEF Inv, WatchTypes, Settled
<1>3. WatchTypes' /\ CursorBehind'
  BY <1>1, <1>2 DEF Inv, WatchTypes, CursorBehind, Settled
<1>4. PollsSound'
  BY <1>1, <1>2 DEF Inv, PollsSound, Covers, Settled
<1> QED
  BY <1>3, <1>4 DEF Inv

LEMMA InitInv == Init => Inv
BY NotificationAssumption DEF Init, Inv, WatchTypes, CursorBehind, PollsSound, Settled

LEMMA SettleInv == ASSUME Inv, Settle PROVE Inv'
<1> USE DEF Inv
<1>1. UNCHANGED <<now, cursor, checks, published>>
  BY DEF Settle, watchVars, hubVars
<1>2. PICK f \in Follows \ Settled, time \in 1 .. now :
         /\ closedAt' = [closedAt EXCEPT ![f] = time]
         /\ due' = IF cursor < time /\ \A g \in Settled : closedAt[g] < time
                   THEN due \cup {f} ELSE due
  BY DEF Settle
<1>3. time \in Nat /\ time > 0
  BY DEF WatchTypes
<1>4. /\ closedAt' \in [Follows -> Nat] /\ closedAt'[f] = time
      /\ \A g \in Settled : closedAt'[g] = closedAt[g]
  BY <1>2, <1>3 DEF WatchTypes, Settled
<1>5. Settled' = Settled \cup {f}
  BY <1>2, <1>3 DEF WatchTypes, Settled
<1>6. due' \subseteq Settled'
  BY <1>2, <1>5 DEF WatchTypes
<1>7. WatchTypes'
  BY <1>1, <1>4, <1>6 DEF WatchTypes
<1>8. CursorBehind'
  <2>1. ASSUME NEW d \in due' PROVE (published[d] > 0 \/ cursor < closedAt[d])'
    <3>1. CASE d \in due
      <4>1. d \in Settled
        BY <3>1 DEF WatchTypes
      <4> QED
        BY <1>1, <1>4, <3>1, <4>1 DEF CursorBehind
    <3>2. CASE d \notin due
      BY <1>1, <1>2, <1>4, <2>1, <3>2
    <3> QED
      BY <3>1, <3>2
  <2> QED
    BY <2>1 DEF CursorBehind
<1>9. PollsSound'
  <2>1. ASSUME NEW k \in Checks, NEW rows \in checks'[k]
        PROVE  (rows \subseteq Settled /\ \A d \in due : Covers(rows, d))'
    <3>1. rows \subseteq Settled /\ \A d \in due : Covers(rows, d)
      BY <1>1, <2>1 DEF PollsSound
    <3>2. ASSUME NEW d \in due' PROVE Covers(rows, d)'
      <4>1. CASE d \in due
        <5>1. d \in Settled
          BY <4>1 DEF WatchTypes
        <5> QED
          BY <1>1, <1>4, <3>1, <4>1, <5>1 DEF Covers
      <4>2. CASE d \notin due
        <5>1. d = f /\ \A g \in Settled : closedAt[g] < time
          BY <1>2, <3>2, <4>2
        <5> QED
          BY <1>4, <3>1, <5>1 DEF Covers
      <4> QED
        BY <4>1, <4>2
    <3> QED
      BY <1>5, <3>1, <3>2
  <2> QED
    BY <2>1 DEF PollsSound
<1> QED
  BY <1>7, <1>8, <1>9

LEMMA StartInv == ASSUME Inv, NEW k \in Checks, StartCheck(k) PROVE Inv'
<1> USE DEF Inv
<1> DEFINE Read == {f \in Follows : Fresh(f)}
<1>1. UNCHANGED <<now, closedAt, cursor, published, due>>
  BY DEF StartCheck, hubVars
<1>2. checks' = [checks EXCEPT ![k] = {Read}]
  BY DEF StartCheck
<1>3. WatchTypes'
  BY <1>1, <1>2 DEF WatchTypes, Settled
<1>4. Read \subseteq Settled /\ \A f \in due : Covers(Read, f)
  BY DEF Fresh, Settled, WatchTypes, CursorBehind, Covers
<1>5. PollsSound'
  BY <1>1, <1>2, <1>4 DEF PollsSound, Covers, Settled, WatchTypes
<1>6. CursorBehind'
  BY <1>1 DEF CursorBehind
<1> QED
  BY <1>3, <1>5, <1>6

LEMMA ApplyInv == ASSUME Inv, NEW k \in Checks, ApplyCheck(k) PROVE Inv'
<1> USE DEF Inv
<1>1. UNCHANGED <<now, closedAt, due>> /\ checks' = [checks EXCEPT ![k] = {}]
  BY DEF ApplyCheck
<1>2. PICK rows \in checks[k] :
         cursor' \in CursorAfter(rows) /\ \E order \in ByTime(rows) : Emit(order)
  BY DEF ApplyCheck
<1>3. rows \in SUBSET Follows /\ rows \subseteq Settled /\ \A f \in due : Covers(rows, f)
  BY <1>2 DEF WatchTypes, PollsSound
<1>4. /\ published' \in [Events -> Nat]
      /\ \A e \in Events : published'[e] >= published[e]
      /\ \A f \in rows : published'[f] > 0
  BY <1>2, <1>3, EmitCounts DEF WatchTypes
<1>5. cursor' \in {cursor} \cup {closedAt[f] : f \in rows}
  BY <1>2 DEF CursorAfter
<1>6. WatchTypes'
  BY <1>1, <1>3, <1>4, <1>5 DEF WatchTypes, Settled
<1>7. \A f \in due : f \in Events /\ f \in Follows
  BY DEF WatchTypes, Settled, Events
<1>8. CursorBehind'
  <2>1. ASSUME NEW f \in due PROVE published'[f] > 0 \/ cursor' < closedAt[f]
    <3>1. CASE published[f] > 0 \/ f \in rows
      BY <1>4, <1>7, <3>1 DEF WatchTypes
    <3>2. CASE ~(published[f] > 0 \/ f \in rows)
      <4>1. cursor < closedAt[f] /\ \A g \in rows : closedAt[g] < closedAt[f]
        BY <1>3, <3>2 DEF CursorBehind, Covers
      <4> QED
        BY <1>5, <4>1
    <3> QED
      BY <3>1, <3>2
  <2> QED
    BY <1>1, <2>1 DEF CursorBehind
<1>9. PollsSound'
  <2>1. ASSUME NEW j \in Checks, NEW read \in checks'[j]
        PROVE  (read \subseteq Settled /\ \A f \in due : Covers(read, f))'
    <3>1. read \subseteq Settled /\ \A f \in due : Covers(read, f)
      BY <1>1, <2>1 DEF PollsSound, WatchTypes
    <3> QED
      BY <1>1, <1>4, <1>7, <3>1 DEF Covers, Settled, WatchTypes
  <2> QED
    BY <2>1 DEF PollsSound
<1> QED
  BY <1>6, <1>8, <1>9

LEMMA FailInv == ASSUME Inv, NEW k \in Checks, FailCheck(k) PROVE Inv'
<1> USE DEF Inv
<1>1. /\ UNCHANGED <<now, closedAt, cursor, published, due>>
      /\ checks' = [checks EXCEPT ![k] = {}]
  BY DEF FailCheck, hubVars
<1>2. WatchTypes' /\ CursorBehind'
  BY <1>1 DEF WatchTypes, CursorBehind, Settled
<1>3. PollsSound'
  BY <1>1 DEF PollsSound, WatchTypes, Covers, Settled
<1> QED
  BY <1>2, <1>3

LEMMA RestartInv == ASSUME Inv, Restart PROVE Inv'
BY DEF Restart, BootCursor, Inv, WatchTypes, CursorBehind, PollsSound, Settled

LEMMA NextInv == Inv /\ [Next]_vars => Inv'
<1> SUFFICES ASSUME Inv, [Next]_vars PROVE Inv'
  OBVIOUS
<1> USE DEF watchVars, hubVars, tabVars
<1>0. now \in Nat /\ published \in [Events -> Nat]
  BY DEF Inv, WatchTypes
<1>1. ASSUME Tick PROVE Inv'
  BY <1>0, <1>1, QuietStep DEF Tick
<1>2. ASSUME Broadcast PROVE Inv'
  <2>1. PICK e \in Broadcasts : Emit(<<e>>)
    BY <1>2 DEF Broadcast
  <2>2. e \in Events
    BY DEF Events
  <2>3. UNCHANGED <<now, closedAt, cursor, checks, due>>
    BY <1>2 DEF Broadcast
  <2> QED
    BY <1>0, <2>1, <2>2, <2>3, EmitOneKeeps, QuietStep
<1>3. ASSUME NEW c \in Clients,
             Ask(c) \/ Answer(c) \/ Reload(c) \/ Disconnect(c) \/ Receive(c)
      PROVE  Inv'
  <2>1. UNCHANGED <<now, closedAt, cursor, checks, due, published>>
    BY <1>3 DEF Ask, Answer, Connect, Refuse, Reload, Disconnect, Receive
  <2> QED
    BY <1>0, <2>1, QuietStep
<1>4. ASSUME NEW k \in Checks, CheckStep(k) \/ FailCheck(k) PROVE Inv'
  BY <1>4, StartInv, ApplyInv, FailInv DEF CheckStep
<1>5. CASE UNCHANGED vars
  BY <1>0, <1>5, QuietStep DEF vars
<1> QED
  BY <1>1, <1>2, <1>3, <1>4, <1>5, SettleInv, RestartInv DEF Next

-----------------------------------------------------------------------------
\* Whatever polls overlap, fail or are lost in a restart, and whatever settles late,
\* the cursor of the follow watch stays behind every follow that settled in order
\* and was not announced yet (check, listSettledTrackedSince).
THEOREM NothingPassed == Spec => []CursorBehind
<1>1. Inv => CursorBehind
  BY DEF Inv
<1> QED
  BY <1>1, InitInv, NextInv, PTL DEF Spec

-----------------------------------------------------------------------------
(* Nothing is announced twice.  Events are numbered by their emission: the    *)
(* buffer and every store fall, every stream rises, and what a store loses is  *)
(* older than all it keeps.                                                    *)

\* A set of indices that is not empty has a least one.
LEMMA LeastIndex ==
    ASSUME NEW T, T \subseteq Nat, T # {}
    PROVE  \E x \in T : \A y \in T : x <= y
<1> DEFINE Less == {pair \in Nat \X Nat : pair[1] < pair[2]}
<1>1. IsWellFoundedOn(Less, Nat)
  BY NatLessThanWellFounded DEF OpToRel
<1>2. PICK x \in T : \A y \in T : ~(<<y, x>> \in Less)
  <2> HIDE DEF Less
  <2> QED
    BY <1>1, WFMin
<1>3. ASSUME NEW y \in T PROVE x <= y
  <2>1. x \in Nat /\ y \in Nat
    OBVIOUS
  <2>2. ~(y < x)
    BY <1>2, <2>1
  <2> QED
    BY <2>1, <2>2
<1> QED
  BY <1>3

\* Induction over the indices 0..n, for a set of them: the least index outside the
\* set would follow one inside it.
LEMMA Induction ==
    ASSUME NEW n \in Nat, NEW T, 0 \in T, \A i \in 0..(n - 1) : i \in T => i + 1 \in T
    PROVE  \A i \in 0..n : i \in T
<1> DEFINE Bad == (0..n) \ T
<1>1. SUFFICES ASSUME Bad # {} PROVE FALSE
  OBVIOUS
<1>2. PICK m \in Bad : \A y \in Bad : m <= y
  <2>1. Bad \subseteq Nat
    OBVIOUS
  <2> HIDE DEF Bad
  <2> QED
    BY <1>1, <2>1, LeastIndex
<1>3. m \in 1..n /\ m \notin T
  BY <1>2
<1>4. m - 1 \in 0..(n - 1) /\ m - 1 \notin Bad
  BY <1>2, <1>3
<1>5. m - 1 \in T /\ (m - 1) + 1 = m
  BY <1>3, <1>4
<1> QED
  BY <1>3, <1>4, <1>5

-----------------------------------------------------------------------------
(* Sequences of events *)

\* The members of a sequence are its values.
LEMMA Members ==
    ASSUME NEW S, NEW s \in Seq(S)
    PROVE  /\ Len(s) \in Nat /\ ToSet(s) \subseteq S
           /\ \A e : e \in ToSet(s) <=> \E i \in 1..Len(s) : s[i] = e
<1>1. DOMAIN s = 1..Len(s)
  BY LenProperties
<1> QED
  BY <1>1 DEF ToSet

\* A list cut at a limit is a prefix of it.
LEMMA ShortestIs ==
    ASSUME NEW s \in Seq(Events), NEW limit \in Nat
    PROVE  /\ Shortest(s, limit) \in Seq(Events)
           /\ Len(Shortest(s, limit)) = IF Len(s) < limit THEN Len(s) ELSE limit
           /\ \A i \in 1..Len(Shortest(s, limit)) : i \in 1..Len(s) /\ Shortest(s, limit)[i] = s[i]
<1> DEFINE m == IF Len(s) < limit THEN Len(s) ELSE limit
<1>1. Len(s) \in Nat /\ m \in Nat /\ m <= Len(s) /\ 1 \in Int /\ m \in Int
  BY LenProperties
<1>2. Shortest(s, limit) = SubSeq(s, 1, m)
  BY DEF Shortest
<1> HIDE DEF m
<1>3. \A i \in 1..m : i \in 1..Len(s) /\ s[i] \in Events
  BY <1>1, ElementOfSeq
<1>4. /\ SubSeq(s, 1, m) \in Seq(Events)
      /\ Len(SubSeq(s, 1, m)) = IF 1 <= m THEN m - 1 + 1 ELSE 0
      /\ \A i \in 1..(m - 1 + 1) : SubSeq(s, 1, m)[i] = s[1 + i - 1]
  BY <1>1, <1>3, SubSeqProperties
<1>5. Len(SubSeq(s, 1, m)) = m /\ \A i \in 1..m : SubSeq(s, 1, m)[i] = s[i]
  BY <1>1, <1>4
<1> QED
  BY <1>2, <1>3, <1>4, <1>5 DEF m

\* A list reversed has the same members, the last first.
LEMMA ReverseIs ==
    ASSUME NEW S, NEW s \in Seq(S)
    PROVE  /\ Reverse(s) \in Seq(S) /\ Len(Reverse(s)) = Len(s)
           /\ \A i \in 1..Len(s) : Len(s) - i + 1 \in 1..Len(s) /\ Reverse(s)[i] = s[Len(s) - i + 1]
           /\ ToSet(Reverse(s)) = ToSet(s)
<1>1. Len(s) \in Nat
  BY LenProperties
<1>2. \A i \in 1..Len(s) : Len(s) - i + 1 \in 1..Len(s) /\ (Len(s) - i) + 1 \in 1..Len(s)
  BY <1>1
<1>3. \A i \in 1..Len(s) : s[(Len(s) - i) + 1] \in S
  BY <1>2, ElementOfSeq
<1>4. Reverse(s) \in [1..Len(s) -> S]
  BY <1>3 DEF Reverse
<1>5. Reverse(s) \in Seq(S) /\ Len(Reverse(s)) = Len(s)
  BY <1>1, <1>4
<1>6. \A i \in 1..Len(s) : Reverse(s)[i] = s[Len(s) - i + 1]
  BY DEF Reverse
<1>7. ASSUME NEW e PROVE e \in ToSet(Reverse(s)) <=> e \in ToSet(s)
  <2>1. ASSUME NEW i \in 1..Len(s), s[i] = e PROVE e \in ToSet(Reverse(s))
    <3>1. Len(s) - i + 1 \in 1..Len(s) /\ Reverse(s)[Len(s) - i + 1] = s[i]
      <4>1. Len(s) - (Len(s) - i + 1) + 1 = i
        BY <1>1
      <4> QED
        BY <1>2, <1>6, <4>1
    <3> QED
      BY <1>5, <2>1, <3>1, Members
  <2>2. ASSUME NEW i \in 1..Len(s), Reverse(s)[i] = e PROVE e \in ToSet(s)
    BY <1>2, <1>6, <2>2, Members
  <2> QED
    BY <1>5, <2>1, <2>2, Members
<1> QED
  BY <1>2, <1>5, <1>6, <1>7

\* Newest first, and oldest first, for a numbering of the events.
Falls(s, rank) == \A i \in 1..Len(s), j \in 1..Len(s) : i < j => rank[s[i]] > rank[s[j]]
Rises(s, rank) == \A i \in 1..Len(s), j \in 1..Len(s) : i < j => rank[s[i]] < rank[s[j]]

\* A list of falling numbers rises when it is reversed.
LEMMA ReverseRises ==
    ASSUME NEW S, NEW s \in Seq(S), NEW rank, Falls(s, rank), \A e \in S : rank[e] \in Nat
    PROVE  Rises(Reverse(s), rank)
<1>1. Len(s) \in Nat /\ Len(Reverse(s)) = Len(s)
  BY LenProperties, ReverseIs
<1> SUFFICES ASSUME NEW i \in 1..Len(s), NEW j \in 1..Len(s), i < j
             PROVE  rank[Reverse(s)[i]] < rank[Reverse(s)[j]]
  BY <1>1 DEF Rises
<1> DEFINE a == Len(s) - i + 1
           b == Len(s) - j + 1
<1>2. a \in 1..Len(s) /\ b \in 1..Len(s) /\ b < a
  BY <1>1
<1>3. Reverse(s)[i] = s[a] /\ Reverse(s)[j] = s[b]
  BY ReverseIs
<1> HIDE DEF a, b
<1>4. rank[s[b]] > rank[s[a]] /\ rank[s[a]] \in Nat /\ rank[s[b]] \in Nat
  BY <1>2, ElementOfSeq DEF Falls
<1> QED
  BY <1>3, <1>4

-----------------------------------------------------------------------------
(* What a tab sees of a sequence: its visible members, in their order. *)

\* f does what SeenBy does with the first events.
SeenTo(f, c, events) ==
    /\ f[0] = <<>>
    /\ \A i \in 1..Len(events) :
        f[i] = IF VisibleTo(events[i], UserOf[c]) THEN Append(f[i - 1], events[i]) ELSE f[i - 1]

\* s holds the visible ones of the first m events, in their order.
SeenUpTo(s, c, events, m, rank) ==
    /\ s \in Seq(Events)
    /\ \A e : e \in ToSet(s) <=>
          \E i \in 1..m : events[i] = e /\ VisibleTo(e, UserOf[c])
    /\ Rises(events, rank) => Rises(s, rank)

\* SeenBy is the last value of such a recursion.
LEMMA SeenExists ==
    ASSUME NEW c, NEW events \in Seq(Events)
    PROVE  \E f : SeenTo(f, c, events) /\ SeenBy(c, events) = f[Len(events)]
<1> DEFINE N == Len(events)
           e(f, i) == IF i = 0 THEN <<>>
                      ELSE IF VisibleTo(events[i], UserOf[c]) THEN Append(f[i - 1], events[i])
                      ELSE f[i - 1]
           Solves(f, m) == f = [i \in 0..m |-> e(f, i)]
           T == {m \in 0..N : \E f : Solves(f, m)}
<1>0. N \in Nat
  BY LenProperties
<1>1. 0 \in T
  <2> DEFINE g == [i \in 0..0 |-> <<>>]
  <2>1. Solves(g, 0)
    <3>1. \A i \in 0..0 : e(g, i) = <<>>
      OBVIOUS
    <3> QED
      BY <3>1
  <2> HIDE DEF g, Solves
  <2> QED
    BY <1>0, <2>1
<1>2. ASSUME NEW m \in 0..(N - 1), m \in T PROVE m + 1 \in T
  <2>1. PICK f : Solves(f, m)
    BY <1>2
  <2>2. f = [i \in 0..m |-> e(f, i)]
    BY <2>1
  <2> HIDE DEF e
  <2> DEFINE g == [i \in 0..(m + 1) |-> IF i <= m THEN f[i] ELSE e(f, i)]
  <2>3. \A i \in 0..(m + 1) : i # 0 => i - 1 \in 0..m /\ g[i - 1] = f[i - 1]
    <3>1. \A i \in 0..(m + 1) : i # 0 => i - 1 \in 0..m /\ i - 1 \in 0..(m + 1) /\ i - 1 <= m
      OBVIOUS
    <3> QED
      BY <3>1
  <2>4. \A i \in 0..(m + 1) : g[i] = e(f, i)
    BY <2>2
  <2>5. \A i \in 0..(m + 1) : e(g, i) = e(f, i)
    <3> HIDE DEF g
    <3> QED
      BY <2>3 DEF e
  <2>6. g = [i \in 0..(m + 1) |-> e(g, i)]
    <3>1. g = [i \in 0..(m + 1) |-> g[i]]
      OBVIOUS
    <3> HIDE DEF g
    <3> QED
      BY <2>4, <2>5, <3>1
  <2> HIDE DEF g
  <2>7. Solves(g, m + 1)
    BY <2>6
  <2> HIDE DEF Solves
  <2>8. m + 1 \in 0..N
    BY <1>0
  <2> QED
    BY <2>7, <2>8
<1>3. N \in T
  <2>1. \A m \in 0..N : m \in T
    <3> HIDE DEF T, N
    <3> QED
      BY <1>0, <1>1, <1>2, Induction
  <2>2. N \in 0..N
    BY <1>0
  <2> QED
    BY <2>1, <2>2
<1> DEFINE P(f) == Solves(f, N)
           h == CHOOSE f : P(f)
<1>4. SeenBy(c, events) = h[N]
  BY DEF SeenBy
<1>5. P(h)
  <2>1. \E f : P(f)
    BY <1>3
  <2> HIDE DEF P
  <2> QED
    BY <2>1
<1> HIDE DEF h
<1>6. SeenTo(h, c, events)
  <2>1. \A i \in 0..N : h[i] = e(h, i)
    <3> HIDE DEF e
    <3>1. h = [i \in 0..N |-> e(h, i)]
      BY <1>5
    <3> QED
      BY <3>1
  <2>2. 0 \in 0..N /\ \A i \in 1..N : i \in 0..N /\ i # 0
    BY <1>0
  <2> QED
    BY <2>1, <2>2 DEF SeenTo
<1> QED
  BY <1>4, <1>6

\* A tab sees the visible members of a sequence, in their order.
LEMMA SeenIs ==
    ASSUME NEW c, NEW events \in Seq(Events), NEW rank
    PROVE  /\ SeenBy(c, events) \in Seq(Events)
           /\ \A e : e \in ToSet(SeenBy(c, events)) <=>
                  e \in ToSet(events) /\ VisibleTo(e, UserOf[c])
           /\ Rises(events, rank) => Rises(SeenBy(c, events), rank)
<1> DEFINE N == Len(events)
<1>0. N \in Nat
  BY LenProperties
<1>1. PICK f : SeenTo(f, c, events) /\ SeenBy(c, events) = f[N]
  BY SeenExists
<1> DEFINE T == {m \in 0..N : SeenUpTo(f[m], c, events, m, rank)}
<1>2. 0 \in T
  <2>1. f[0] = <<>> /\ <<>> \in Seq(Events) /\ Len(<<>>) = 0
    BY <1>1, EmptySeq DEF SeenTo
  <2>2. \A e : e \notin ToSet(<<>>)
    <3>1. ASSUME NEW s \in Seq(Events), Len(s) = 0, NEW e PROVE e \notin ToSet(s)
      <4>1. e \in ToSet(s) <=> \E i \in 1..Len(s) : s[i] = e
        BY <3>1, Members
      <4>2. 1..Len(s) = {}
        BY <3>1
      <4> QED
        BY <4>1, <4>2
    <3> QED
      BY <2>1, <3>1
  <2>3. Rises(<<>>, rank)
    BY <2>1 DEF Rises
  <2>4. SeenUpTo(<<>>, c, events, 0, rank)
    BY <2>1, <2>2, <2>3 DEF SeenUpTo
  <2> QED
    BY <1>0, <2>1, <2>4
<1>3. ASSUME NEW m \in 0..(N - 1), m \in T PROVE m + 1 \in T
  <2> DEFINE s == f[m]
             new == events[m + 1]
  <2>1. m + 1 \in 1..N /\ m + 1 \in 0..N /\ (m + 1) - 1 = m /\ m \in Nat
    BY <1>0
  <2>2. f[m + 1] = IF VisibleTo(new, UserOf[c]) THEN Append(s, new) ELSE s
    BY <1>1, <2>1 DEF SeenTo
  <2>3. SeenUpTo(s, c, events, m, rank) /\ new \in Events
    BY <1>3, <2>1, ElementOfSeq
  <2>4. \A i \in 1..(m + 1) : i \in 1..m \/ i = m + 1
    BY <2>1
  <2>5. \A i \in 1..m : i \in 1..(m + 1) /\ i \in 1..N /\ i < m + 1
    BY <1>0, <2>1
  <2> HIDE DEF s, N
  <2>6. CASE ~VisibleTo(new, UserOf[c])
    <3>1. \A e : (\E i \in 1..(m + 1) : events[i] = e /\ VisibleTo(e, UserOf[c]))
                 <=> (\E i \in 1..m : events[i] = e /\ VisibleTo(e, UserOf[c]))
      BY <2>4, <2>5, <2>6
    <3> QED
      BY <2>1, <2>2, <2>3, <2>6, <3>1 DEF SeenUpTo
  <2>7. CASE VisibleTo(new, UserOf[c])
    <3> DEFINE t == Append(s, new)
    <3>1. s \in Seq(Events) /\ Len(s) \in Nat
      BY <2>3, LenProperties DEF SeenUpTo
    <3>2. /\ t \in Seq(Events) /\ Len(t) = Len(s) + 1 /\ t[Len(s) + 1] = new
          /\ \A i \in 1..Len(s) : t[i] = s[i]
      BY <2>3, <3>1, AppendProperties
    <3> HIDE DEF t
    <3>3. \A i \in 1..Len(t) : i \in 1..Len(s) \/ i = Len(s) + 1
      BY <3>1, <3>2
    <3>4. \A e : e \in ToSet(t) <=> e \in ToSet(s) \/ e = new
      <4>1. \A i \in 1..Len(s) : i \in 1..Len(t)
        BY <3>1, <3>2
      <4>2. Len(s) + 1 \in 1..Len(t)
        BY <3>1, <3>2
      <4> QED
        BY <3>1, <3>2, <3>3, <4>1, <4>2, Members, SMTT(40)
    <3>5. \A e : e \in ToSet(t) <=> \E i \in 1..(m + 1) : events[i] = e /\ VisibleTo(e, UserOf[c])
      BY <2>1, <2>3, <2>4, <2>5, <2>7, <3>4 DEF SeenUpTo
    <3>6. ASSUME Rises(events, rank) PROVE Rises(t, rank)
      <4>1. Rises(s, rank)
        BY <2>3, <3>6 DEF SeenUpTo
      <4>2. ASSUME NEW i \in 1..Len(t), NEW j \in 1..Len(t), i < j
            PROVE  rank[t[i]] < rank[t[j]]
        <5>1. i \in 1..Len(s)
          BY <3>1, <3>2, <4>2
        <5>2. CASE j \in 1..Len(s)
          BY <3>2, <4>1, <4>2, <5>1, <5>2 DEF Rises
        <5>3. CASE j = Len(s) + 1
          <6>1. t[i] \in ToSet(s) /\ t[i] = s[i] /\ t[j] = new
            BY <3>1, <3>2, <5>1, <5>3, Members
          <6>2. PICK k \in 1..m : events[k] = t[i]
            BY <2>3, <6>1 DEF SeenUpTo
          <6>3. rank[events[k]] < rank[events[m + 1]]
            BY <2>1, <2>5, <3>6, <6>2 DEF Rises, N
          <6> QED
            BY <6>1, <6>2, <6>3
        <5> QED
          BY <3>3, <5>2, <5>3
      <4> QED
        BY <4>2 DEF Rises
    <3> QED
      BY <2>1, <2>2, <2>7, <3>2, <3>5, <3>6 DEF SeenUpTo, t
  <2> QED
    BY <2>6, <2>7
<1>4. SeenUpTo(f[N], c, events, N, rank)
  <2>1. \A m \in 0..N : m \in T
    <3> HIDE DEF T, N
    <3> QED
      BY <1>0, <1>2, <1>3, Induction
  <2>2. N \in 0..N
    BY <1>0
  <2> QED
    BY <2>1, <2>2
<1> QED
  BY <1>1, <1>4, Members DEF SeenUpTo

-----------------------------------------------------------------------------
(* The buffer, the streams and the stores *)

\* The types of the lists of the hub and the tabs.
ListTypes ==
    /\ recents \in Seq(Events)
    /\ conn \subseteq Clients
    /\ wire \in [Clients -> Seq(Events)]
    /\ items \in [Clients -> Seq(Events)]
    /\ announced \in [Clients -> [Events -> Nat]]
    /\ published \in [Events -> Nat]

\* Nothing was emitted twice.
Once == \A e \in Events : published[e] <= 1

\* The buffer is the newest of what was emitted, newest first.
HubOrder(rank, n) ==
    /\ \A e \in Events : published[e] > 0 => rank[e] < n
    /\ Falls(recents, rank) /\ Len(recents) <= RecentLimit
    /\ \A e \in ToSet(recents) : published[e] > 0
    /\ \A e \in ToSet(recents) : \A d \in Events :
          published[d] > 0 /\ rank[d] > rank[e] => d \in ToSet(recents)

\* What the hub's buffer would replay to a tab.
Replayed(c) == {e \in ToSet(recents) : VisibleTo(e, UserOf[c])}

\* A tab holds what it received newest first; whatever may still come to it is
\* newer; while its stream is open all that the buffer would replay is coming or
\* held; and an event it has announced is held, or can no longer come.
TabOrder(c, rank) ==
    /\ Falls(items[c], rank) /\ Len(items[c]) <= MaxItems
    /\ Rises(wire[c], rank)
    /\ \A e \in ToSet(items[c]) \cup ToSet(wire[c]) : published[e] > 0
    /\ \A d \in (ToSet(wire[c]) \cup Replayed(c)) \ ToSet(items[c]) :
          \A e \in ToSet(items[c]) : rank[d] > rank[e]
    /\ c \in conn => Replayed(c) \subseteq ToSet(wire[c]) \cup ToSet(items[c])
    /\ c \notin conn => wire[c] = <<>>
    /\ \A e \in Events :
          /\ announced[c][e] <= 1
          /\ announced[c][e] > 0 =>
                /\ published[e] > 0
                /\ e \in ToSet(items[c]) \/ e \notin ToSet(recents) \cup ToSet(wire[c])

Ordered(rank, n) == HubOrder(rank, n) /\ \A c \in Clients : TabOrder(c, rank)

\* The invariant: for some numbering of the events by their emission.
Kept == ListTypes /\ (Once => \E rank \in [Events -> Nat] : \E n \in Nat : Ordered(rank, n))

-----------------------------------------------------------------------------
\* What is at a place of two lists put together.
LEMMA ConcatIs ==
    ASSUME NEW s \in Seq(Events), NEW t \in Seq(Events)
    PROVE  /\ s \o t \in Seq(Events) /\ Len(s) \in Nat /\ Len(t) \in Nat
           /\ Len(s \o t) = Len(s) + Len(t)
           /\ \A i \in 1..Len(s \o t) :
                 \/ i \in 1..Len(s) /\ (s \o t)[i] = s[i]
                 \/ i > Len(s) /\ i - Len(s) \in 1..Len(t) /\ (s \o t)[i] = t[i - Len(s)]
           /\ \A i \in 1..Len(s) : i \in 1..Len(s \o t) /\ (s \o t)[i] = s[i]
           /\ \A i \in 1..Len(t) : i + Len(s) \in 1..Len(s \o t) /\ (s \o t)[i + Len(s)] = t[i]
           /\ \A e : e \in ToSet(s \o t) <=> e \in ToSet(s) \/ e \in ToSet(t)
<1> DEFINE w == s \o t
           m == Len(s)
           n == Len(t)
<1>1. m \in Nat /\ n \in Nat
  BY LenProperties
<1>2. w \in Seq(Events) /\ Len(w) = m + n /\ \A i \in 1..(m + n) : w[i] = IF i <= m THEN s[i] ELSE t[i - m]
  BY ConcatProperties
<1> HIDE DEF w, m, n
<1>3. \A i \in 1..Len(w) : \/ i \in 1..m /\ w[i] = s[i]
                           \/ i > m /\ i - m \in 1..n /\ w[i] = t[i - m]
  <2> TAKE i \in 1..Len(w)
  <2>1. i \in 1..(m + n) /\ w[i] = IF i <= m THEN s[i] ELSE t[i - m]
    BY <1>2
  <2>2. (i <= m /\ i \in 1..m) \/ (~(i <= m) /\ i > m /\ i - m \in 1..n)
    BY <1>1, <2>1
  <2> QED
    BY <2>1, <2>2
<1>4. \A i \in 1..m : i \in 1..Len(w) /\ w[i] = s[i]
  <2> TAKE i \in 1..m
  <2>1. i \in 1..(m + n) /\ i <= m
    BY <1>1
  <2> QED
    BY <1>2, <2>1
<1>5. \A i \in 1..n : i + m \in 1..Len(w) /\ w[i + m] = t[i]
  <2> TAKE i \in 1..n
  <2>1. i + m \in 1..(m + n) /\ ~(i + m <= m) /\ (i + m) - m = i
    BY <1>1
  <2> QED
    BY <1>2, <2>1
<1>6. \A e : e \in ToSet(w) <=> e \in ToSet(s) \/ e \in ToSet(t)
  <2>1. /\ \A e : e \in ToSet(w) <=> \E i \in 1..Len(w) : w[i] = e
        /\ \A e : e \in ToSet(s) <=> \E i \in 1..m : s[i] = e
        /\ \A e : e \in ToSet(t) <=> \E i \in 1..n : t[i] = e
    BY <1>2, Members DEF m, n
  <2> QED
    BY <1>3, <1>4, <1>5, <2>1, SMTT(40)
<1> QED
  BY <1>1, <1>2, <1>3, <1>4, <1>5, <1>6 DEF w, m, n

(* One emission *)

\* An emission counts what it emits; when nothing is emitted twice, no event repeats in it.
LEMMA EmitOnce ==
    ASSUME NEW events \in Seq(Events), published \in [Events -> Nat], Emit(events)
    PROVE  /\ published' \in [Events -> Nat]
           /\ \A e \in Events : published'[e] >= published[e]
           /\ \A e \in Events : e \notin ToSet(events) => published'[e] = published[e]
           /\ \A e \in ToSet(events) : published'[e] > published[e]
           /\ Once' => \A i \in 1..Len(events), j \in 1..Len(events) : events[i] = events[j] => i = j
<1> DEFINE At(e) == {i \in DOMAIN events : events[i] = e}
<1>1. DOMAIN events = 1..Len(events) /\ Len(events) \in Nat
  BY LenProperties
<1>2. IsFiniteSet(DOMAIN events)
  BY <1>1, FS_Interval
<1>3. ASSUME NEW e \in Events PROVE IsFiniteSet(At(e)) /\ Cardinality(At(e)) \in Nat
  BY <1>2, FS_Subset, FS_CardinalityType
<1>4. published' = [e \in Events |-> published[e] + Cardinality(At(e))]
  BY DEF Emit
<1>5. \A e \in Events : Cardinality(At(e)) = 0 <=> At(e) = {}
  <2> HIDE DEF At
  <2> QED
    BY <1>3, FS_EmptySet
<1>6. \A e \in Events : At(e) = {} <=> e \notin ToSet(events)
  BY DEF ToSet
<1>7. ASSUME Once', NEW i \in 1..Len(events), NEW j \in 1..Len(events), events[i] = events[j], i # j
      PROVE  FALSE
  <2>1. events[i] \in Events
    BY ElementOfSeq
  <2> DEFINE e == events[i]
  <2>2. {i, j} \subseteq At(e)
    BY <1>1, <1>7
  <2>3. Cardinality({i, j}) = 2
    <3>1. IsFiniteSet({i}) /\ Cardinality({i}) = 1 /\ {i, j} = {i} \cup {j} /\ j \notin {i}
      BY <1>7, FS_Singleton
    <3>2. Cardinality({i} \cup {j}) = Cardinality({i}) + 1
      BY <3>1, FS_AddElement
    <3> DEFINE one == Cardinality({i})
               two == Cardinality({i} \cup {j})
    <3>3. one = 1 /\ two = one + 1
      BY <3>1, <3>2, Zenon
    <3> HIDE DEF one, two
    <3>4. two = 2
      BY <3>3
    <3> QED
      BY <3>1, <3>4, Zenon DEF two
  <2>4. Cardinality({i, j}) <= Cardinality(At(e))
    <3> HIDE DEF At
    <3> QED
      BY <1>3, <2>1, <2>2, FS_Subset
  <2>5. published'[e] <= 1
    BY <1>7, <2>1 DEF Once
  <2> HIDE DEF At, e
  <2>6. e \in Events
    BY <2>1 DEF e
  <2> QED
    BY <1>3, <1>4, <2>3, <2>4, <2>5, <2>6
<1> HIDE DEF At
<1>8. ToSet(events) \subseteq Events
  BY Members
<1>9. \A e \in Events : published'[e] = published[e] + Cardinality(At(e))
  BY <1>4
<1>10. \A e \in ToSet(events) : published'[e] > published[e]
  BY <1>3, <1>5, <1>6, <1>8, <1>9
<1>11. \A e \in Events : e \notin ToSet(events) => published'[e] = published[e]
  BY <1>3, <1>5, <1>6, <1>9
<1> QED
  BY <1>3, <1>4, <1>7, <1>9, <1>10, <1>11

\* The events of one emission are numbered after all that came before.
LEMMA EmitKeeps ==
    ASSUME ListTypes, NEW rank \in [Events -> Nat], NEW n \in Nat, Ordered(rank, n),
           NEW events \in Seq(Events), Emit(events), Once', UNCHANGED <<conn, items, announced>>
    PROVE  \E rank2 \in [Events -> Nat] : \E n2 \in Nat : Ordered(rank2, n2)'
<1> DEFINE N == Len(events)
           place(e) == CHOOSE i \in 1..N : events[i] = e
           rank2 == [e \in Events |-> IF e \in ToSet(events) THEN n + place(e) ELSE rank[e]]
           n2 == n + N + 1
           all == Reverse(events) \o recents
<1> USE DEF ListTypes
<1>1. N \in Nat /\ \A i \in 1..N : events[i] \in Events /\ events[i] \in ToSet(events)
  BY LenProperties, ElementOfSeq, Members
<1>2. /\ published' \in [Events -> Nat]
      /\ \A e \in Events : published'[e] >= published[e]
      /\ \A e \in Events : e \notin ToSet(events) => published'[e] = published[e]
      /\ \A e \in ToSet(events) : published'[e] > published[e]
      /\ \A i \in 1..N, j \in 1..N : events[i] = events[j] => i = j
  BY EmitOnce
<1>3. \A e \in ToSet(events) : e \in Events /\ place(e) \in 1..N /\ events[place(e)] = e
  BY Members
<1>4. \A i \in 1..N : place(events[i]) = i
  BY <1>1, <1>2, <1>3
<1> HIDE DEF place, N
<1>5. rank2 \in [Events -> Nat] /\ n2 \in Nat
  BY <1>1, <1>3
<1>6. \A i \in 1..N : rank2[events[i]] = n + i
  BY <1>1, <1>4
<1>7. \A e \in Events : e \notin ToSet(events) => rank2[e] = rank[e]
  OBVIOUS
<1>8. \A e \in ToSet(events) : published[e] = 0 /\ rank2[e] > n /\ rank2[e] < n2 /\ published'[e] > 0
  <2> TAKE e \in ToSet(events)
  <2>1. e \in Events /\ place(e) \in 1..N /\ rank2[e] = n + place(e)
    BY <1>3
  <2>2. published'[e] <= 1
    BY <2>1 DEF Once
  <2>3. published[e] \in Nat /\ published'[e] \in Nat /\ published'[e] > published[e]
    BY <1>2, <2>1
  <2> HIDE DEF rank2
  <2> QED
    BY <1>1, <2>1, <2>2, <2>3
<1> HIDE DEF rank2
<1>9. \A e \in Events : published[e] > 0 =>
          e \notin ToSet(events) /\ rank2[e] = rank[e] /\ rank2[e] < n /\ published'[e] > 0
  <2> TAKE e \in Events
  <2> HAVE published[e] > 0
  <2>1. e \notin ToSet(events)
    BY <1>8
  <2>2. rank[e] < n
    BY DEF Ordered, HubOrder
  <2> QED
    BY <1>2, <1>7, <2>1, <2>2
<1>10. \A e \in Events : published'[e] > 0 => published[e] > 0 \/ e \in ToSet(events)
  BY <1>2
<1>11. /\ recents \in Seq(Events) /\ Len(recents) \in Nat /\ Falls(recents, rank)
       /\ \A i \in 1..Len(recents) : recents[i] \in Events /\ recents[i] \in ToSet(recents)
                                     /\ published[recents[i]] > 0
  BY LenProperties, ElementOfSeq, Members DEF Ordered, HubOrder
<1>12. /\ Reverse(events) \in Seq(Events) /\ Len(Reverse(events)) = N
       /\ \A i \in 1..N : N - i + 1 \in 1..N /\ Reverse(events)[i] = events[N - i + 1]
  BY ReverseIs DEF N
<1>13. /\ all \in Seq(Events) /\ Len(all) = N + Len(recents)
       /\ \A i \in 1..N : N - i + 1 \in 1..N /\ i \in 1..Len(all) /\ all[i] = events[N - i + 1]
       /\ \A i \in 1..Len(all) : i \in 1..N \/ (i - N \in 1..Len(recents) /\ all[i] = recents[i - N])
       /\ \A i \in 1..Len(recents) : i + N \in 1..Len(all) /\ all[i + N] = recents[i]
  <2>1. /\ all \in Seq(Events) /\ Len(all) = N + Len(recents)
        /\ \A i \in 1..Len(all) :
              \/ i \in 1..N /\ all[i] = Reverse(events)[i]
              \/ i > N /\ i - N \in 1..Len(recents) /\ all[i] = recents[i - N]
        /\ \A i \in 1..N : i \in 1..Len(all) /\ all[i] = Reverse(events)[i]
        /\ \A i \in 1..Len(recents) : i + N \in 1..Len(all) /\ all[i + N] = recents[i]
    <3> DEFINE r == Reverse(events)
    <3>1. r \in Seq(Events) /\ Len(r) = N
      BY <1>12
    <3> HIDE DEF r
    <3>2. /\ r \o recents \in Seq(Events) /\ Len(r \o recents) = Len(r) + Len(recents)
          /\ \A i \in 1..Len(r \o recents) :
              \/ i \in 1..Len(r) /\ (r \o recents)[i] = r[i]
              \/ i > Len(r) /\ i - Len(r) \in 1..Len(recents) /\ (r \o recents)[i] = recents[i - Len(r)]
          /\ \A i \in 1..Len(r) : i \in 1..Len(r \o recents) /\ (r \o recents)[i] = r[i]
          /\ \A i \in 1..Len(recents) : i + Len(r) \in 1..Len(r \o recents)
                                         /\ (r \o recents)[i + Len(r)] = recents[i]
      BY <1>11, <3>1, ConcatIs
    <3>3. all = r \o recents
      BY DEF r
    <3> HIDE DEF all
    <3> QED
      BY <3>1, <3>2, <3>3 DEF r
  <2> HIDE DEF all
  <2> QED
    BY <1>12, <2>1
<1> HIDE DEF all
<1>14. Falls(all, rank2)
  <2> SUFFICES ASSUME NEW i \in 1..Len(all), NEW j \in 1..Len(all), i < j
               PROVE  rank2[all[i]] > rank2[all[j]]
    BY DEF Falls
  <2>1. CASE i \in 1..N /\ j \in 1..N
    <3>1. /\ N - i + 1 \in 1..N /\ N - j + 1 \in 1..N
          /\ all[i] = events[N - i + 1] /\ all[j] = events[N - j + 1]
      BY <1>13, <2>1
    <3>2. rank2[all[i]] = n + (N - i + 1) /\ rank2[all[j]] = n + (N - j + 1)
      BY <1>6, <3>1
    <3> QED
      BY <1>1, <3>2
  <2>2. CASE i \in 1..N /\ j \notin 1..N
    <3>1. all[i] \in ToSet(events)
      BY <1>1, <1>13, <2>2
    <3>2. all[j] \in Events /\ published[all[j]] > 0
      BY <1>11, <1>13, <2>2
    <3>3. rank2[all[j]] \in Nat /\ rank2[all[i]] \in Nat
      BY <1>3, <1>5, <3>1, <3>2
    <3> QED
      BY <1>8, <1>9, <3>1, <3>2, <3>3
  <2>3. CASE i \notin 1..N
    <3>1. j \notin 1..N
      BY <1>1, <2>3
    <3>2. /\ i - N \in 1..Len(recents) /\ j - N \in 1..Len(recents) /\ i - N < j - N
          /\ all[i] = recents[i - N] /\ all[j] = recents[j - N]
      BY <1>1, <1>13, <2>3, <3>1
    <3>3. rank[recents[i - N]] > rank[recents[j - N]]
      BY <1>11, <3>2 DEF Falls
    <3>4. \A k \in 1..Len(recents) : rank2[recents[k]] = rank[recents[k]]
      BY <1>9, <1>11
    <3> QED
      BY <3>2, <3>3, <3>4, SMTT(40)
  <2> QED
    BY <2>1, <2>2, <2>3
<1>15. /\ recents' \in Seq(Events) /\ Len(recents') <= RecentLimit /\ Len(recents') \in Nat
       /\ \A i \in 1..Len(recents') : i \in 1..Len(all) /\ recents'[i] = all[i]
  <2>1. recents' = Shortest(all, RecentLimit) /\ RecentLimit \in Nat
    BY NotificationAssumption DEF Emit, all
  <2>2. Len(all) \in Nat
    BY <1>1, <1>11, <1>13
  <2>3. /\ Shortest(all, RecentLimit) \in Seq(Events)
        /\ Len(Shortest(all, RecentLimit)) = IF Len(all) < RecentLimit THEN Len(all) ELSE RecentLimit
        /\ \A i \in 1..Len(Shortest(all, RecentLimit)) :
              i \in 1..Len(all) /\ Shortest(all, RecentLimit)[i] = all[i]
    BY <1>13, <2>1, ShortestIs
  <2> QED
    BY <2>1, <2>2, <2>3
<1>16. \A e \in ToSet(recents') : e \in Events /\ (e \in ToSet(events) \/ e \in ToSet(recents))
                                  /\ published'[e] > 0
  <2> TAKE e \in ToSet(recents')
  <2>1. PICK i \in 1..Len(recents') : recents'[i] = e
    BY <1>15, Members
  <2>2. i \in 1..Len(all) /\ e = all[i]
    BY <1>15, <2>1
  <2>3. e \in ToSet(events) \/ (e \in ToSet(recents) /\ published[e] > 0 /\ e \in Events)
    BY <1>1, <1>11, <1>13, <2>2
  <2> QED
    BY <1>3, <1>8, <1>9, <2>3
<1>17. ASSUME NEW e \in ToSet(recents'), NEW d \in Events, published'[d] > 0, rank2[d] > rank2[e]
       PROVE  d \in ToSet(recents')
  <2>1. PICK i \in 1..Len(recents') : recents'[i] = e
    BY <1>15, Members
  <2>2. i \in 1..Len(all) /\ e = all[i]
    BY <1>15, <2>1
  <2>3. \E j \in 1..Len(all) : all[j] = d
    <3>1. CASE d \in ToSet(events)
      <4>1. PICK k \in 1..N : events[k] = d
        BY <3>1, Members DEF N
      <4>2. N - k + 1 \in 1..N /\ N - (N - k + 1) + 1 = k
        BY <1>1
      <4> QED
        BY <1>13, <4>1, <4>2, SMTT(40)
    <3>2. CASE d \notin ToSet(events)
      <4>1. published[d] > 0
        BY <1>10, <1>17, <3>2
      <4>2. rank2[d] = rank[d] /\ rank2[d] < n /\ rank2[d] \in Nat
        BY <1>5, <1>9, <4>1
      <4>3. e \in Events /\ rank2[e] \in Nat
        BY <1>5, <1>16
      <4>4. e \in ToSet(recents) /\ published[e] > 0
        <5>1. e \notin ToSet(events)
          BY <1>8, <1>17, <4>2, <4>3
        <5>2. e \in ToSet(recents)
          BY <1>16, <5>1
        <5> QED
          BY <5>2 DEF Ordered, HubOrder
      <4>5. rank2[e] = rank[e]
        BY <1>9, <4>3, <4>4
      <4>6. d \in ToSet(recents)
        BY <1>17, <4>1, <4>2, <4>4, <4>5 DEF Ordered, HubOrder
      <4>7. PICK k \in 1..Len(recents) : recents[k] = d
        BY <1>11, <4>6, Members
      <4> QED
        BY <1>13, <4>7
    <3> QED
      BY <3>1, <3>2
  <2>4. PICK j \in 1..Len(all) : all[j] = d
    BY <2>3
  <2>5. j < i
    <3>1. rank2[e] \in Nat /\ rank2[d] \in Nat
      BY <1>5, <1>16
    <3>2. j # i
      BY <1>17, <2>2, <2>4, <3>1
    <3>3. ~(i < j)
      <4>1. SUFFICES ASSUME i < j PROVE FALSE
        OBVIOUS
      <4>2. rank2[all[i]] > rank2[all[j]]
        BY <1>14, <2>2, <4>1 DEF Falls
      <4> QED
        BY SMTT(30), <1>17, <2>2, <2>4, <3>1, <4>2
    <3> QED
      BY <2>2, <3>2, <3>3
  <2>6. j \in 1..Len(recents')
    BY <1>15, <2>5
  <2> QED
    BY <1>15, <2>4, <2>6, Members
<1>18. HubOrder(rank2, n2)'
  <2>1. ASSUME NEW e \in Events, published'[e] > 0 PROVE rank2[e] < n2
    <3>1. rank2[e] \in Nat
      BY <1>5
    <3> QED
      BY <1>1, <1>8, <1>9, <1>10, <2>1, <3>1
  <2>2. Falls(recents', rank2)
    BY <1>14, <1>15 DEF Falls
  <2> QED
    BY <1>15, <1>16, <1>17, <2>1, <2>2 DEF HubOrder
<1>19. ASSUME NEW c \in Clients PROVE TabOrder(c, rank2)'
  <2> DEFINE seen == SeenBy(c, events)
             held == ToSet(items[c])
             coming == ToSet(wire[c])
  <2>1. TabOrder(c, rank)
    BY DEF Ordered
  <2>2. /\ seen \in Seq(Events) /\ Len(seen) \in Nat
        /\ \A e : e \in ToSet(seen) <=> e \in ToSet(events) /\ VisibleTo(e, UserOf[c])
        /\ Rises(events, rank2) => Rises(seen, rank2)
    BY SeenIs, LenProperties
  <2>3. Rises(events, rank2)
    <3> SUFFICES ASSUME NEW i \in 1..N, NEW j \in 1..N, i < j
                 PROVE  rank2[events[i]] < rank2[events[j]]
      BY DEF Rises, N
    <3>1. rank2[events[i]] = n + i /\ rank2[events[j]] = n + j
      BY <1>6
    <3> QED
      BY <1>1, <3>1
  <2> HIDE DEF seen
  <2>4. /\ items[c] \in Seq(Events) /\ wire[c] \in Seq(Events) /\ items' = items /\ conn' = conn
        /\ announced' = announced /\ Len(items[c]) \in Nat /\ Len(wire[c]) \in Nat
        /\ wire'[c] = IF c \in conn THEN wire[c] \o seen ELSE wire[c]
    BY LenProperties DEF Emit, seen
  <2>5. /\ \A i \in 1..Len(items[c]) : items[c][i] \in held
        /\ \A i \in 1..Len(wire[c]) : wire[c][i] \in coming
        /\ \A e \in held \cup coming : e \in Events /\ published[e] > 0
    BY <2>1, <2>4, Members, SMTT(40) DEF TabOrder
  <2>6. \A e \in held \cup coming : rank2[e] = rank[e] /\ rank2[e] < n /\ published'[e] > 0
                                     /\ rank2[e] \in Nat
    BY <1>5, <1>9, <2>5
  <2>7. Falls(items[c], rank2)
    BY <2>1, <2>5, <2>6 DEF TabOrder, Falls
  <2>8. Rises(wire[c], rank2)
    BY <2>1, <2>5, <2>6 DEF TabOrder, Rises
  <2>9. /\ Rises(wire'[c], rank2) /\ wire'[c] \in Seq(Events)
        /\ \A e : e \in ToSet(wire'[c]) <=> e \in coming \/ (c \in conn /\ e \in ToSet(seen))
    <3>1. CASE c \notin conn
      BY <2>4, <2>8, <3>1
    <3>2. CASE c \in conn
      <4> DEFINE w == wire[c] \o seen
      <4> DEFINE a == wire[c]
      <4>1. a \in Seq(Events) /\ a = wire[c]
        BY <2>4
      <4> HIDE DEF a
      <4>2. /\ a \o seen \in Seq(Events) /\ Len(a \o seen) = Len(a) + Len(seen)
            /\ Len(a) \in Nat /\ Len(seen) \in Nat
            /\ \A i \in 1..Len(a \o seen) :
                 \/ i \in 1..Len(a) /\ (a \o seen)[i] = a[i]
                 \/ i > Len(a) /\ i - Len(a) \in 1..Len(seen) /\ (a \o seen)[i] = seen[i - Len(a)]
            /\ \A i \in 1..Len(a) : i \in 1..Len(a \o seen) /\ (a \o seen)[i] = a[i]
            /\ \A e : e \in ToSet(a \o seen) <=> e \in ToSet(a) \/ e \in ToSet(seen)
        BY <2>2, <4>1, ConcatIs
      <4>3. w = a \o seen
        BY <4>1
      <4> HIDE DEF w
      <4>4. /\ w \in Seq(Events) /\ Len(w) = Len(a) + Len(seen)
            /\ \A i \in 1..Len(w) :
                 \/ i \in 1..Len(a) /\ w[i] = a[i]
                 \/ i > Len(a) /\ i - Len(a) \in 1..Len(seen) /\ w[i] = seen[i - Len(a)]
            /\ \A i \in 1..Len(a) : i \in 1..Len(w) /\ w[i] = a[i]
        BY <4>2, <4>3
      <4>5. \A e : e \in ToSet(w) <=> e \in coming \/ e \in ToSet(seen)
        BY <4>1, <4>2, <4>3
      <4>6. ASSUME NEW i \in 1..Len(w), NEW j \in 1..Len(w), i < j PROVE rank2[w[i]] < rank2[w[j]]
        <5>1. CASE i \in 1..Len(a) /\ j \in 1..Len(a)
          BY <2>8, <4>1, <4>4, <4>6, <5>1 DEF Rises
        <5>2. CASE i \in 1..Len(a) /\ j \notin 1..Len(a)
          <6>1. w[i] \in coming /\ w[j] \in ToSet(seen)
            <7>1. w[i] = a[i] /\ a[i] \in coming
              BY <2>5, <4>1, <4>4, <5>2
            <7>2. j - Len(a) \in 1..Len(seen) /\ w[j] = seen[j - Len(a)]
              BY <4>4, <5>2
            <7>3. seen[j - Len(a)] \in ToSet(seen)
              BY <2>2, <7>2, Members
            <7> QED
              BY <7>1, <7>2, <7>3
          <6>2. w[j] \in ToSet(events)
            BY <2>2, <6>1
          <6>3. rank2[w[j]] > n /\ rank2[w[i]] < n /\ rank2[w[i]] \in Nat /\ rank2[w[j]] \in Nat
            BY <1>3, <1>5, <1>8, <2>6, <6>1, <6>2
          <6> QED
            BY SMTT(30), <6>3
        <5>3. CASE i \notin 1..Len(a)
          <6>1. i > Len(a) /\ i - Len(a) \in 1..Len(seen) /\ w[i] = seen[i - Len(a)]
            BY <4>4, <5>3
          <6>2. j \notin 1..Len(a)
            BY <4>2, <4>6, <6>1
          <6>3. j - Len(a) \in 1..Len(seen) /\ w[j] = seen[j - Len(a)]
            BY <4>4, <6>2
          <6>4. i - Len(a) < j - Len(a)
            BY <4>2, <4>6
          <6> QED
            BY <2>2, <2>3, <6>1, <6>3, <6>4 DEF Rises
        <5> QED
          BY <5>1, <5>2, <5>3
      <4>7. Rises(w, rank2)
        BY <4>6 DEF Rises
      <4> QED
        BY <2>4, <3>2, <4>4, <4>5, <4>7 DEF w
    <3> QED
      BY <3>1, <3>2
  <2>10. \A e \in ToSet(wire'[c]) : e \in coming \/ e \in ToSet(events)
    BY <2>2, <2>9
  <2>11. \A e \in Replayed(c)' : e \in Replayed(c) \/ (e \in ToSet(events) /\ VisibleTo(e, UserOf[c]))
    BY <1>16 DEF Replayed
  <2>12. ASSUME NEW d \in (ToSet(wire'[c]) \cup Replayed(c)') \ held, NEW e \in held
         PROVE  rank2[d] > rank2[e]
    <3>1. rank2[e] = rank[e] /\ rank2[e] < n /\ rank2[e] \in Nat
      BY <2>6
    <3>2. CASE d \in ToSet(events)
      <4>1. rank2[d] > n /\ rank2[d] \in Nat
        BY <1>3, <1>5, <1>8, <3>2
      <4> QED
        BY <3>1, <4>1
    <3>3. CASE d \in coming \cup Replayed(c)
      <4>1. rank[d] > rank[e]
        BY <2>1, <2>12, <3>3 DEF TabOrder
      <4>2. d \in Events /\ published[d] > 0
        <5>1. d \in Replayed(c) => d \in Events /\ published[d] > 0
          BY <1>11, Members DEF Replayed, Ordered, HubOrder
        <5> QED
          BY <2>5, <3>3, <5>1
      <4> QED
        BY <1>9, <3>1, <4>1, <4>2
    <3> QED
      BY <2>10, <2>11, <2>12, <3>2, <3>3
  <2>13. ASSUME c \in conn, NEW e \in Replayed(c)' PROVE e \in ToSet(wire'[c]) \cup held
    BY <2>1, <2>2, <2>9, <2>11, <2>13 DEF TabOrder
  <2>14. ASSUME NEW e \in Events
         PROVE  /\ announced[c][e] <= 1
                /\ announced[c][e] > 0 =>
                      /\ published'[e] > 0
                      /\ e \in held \/ e \notin ToSet(recents') \cup ToSet(wire'[c])
    <3>1. /\ announced[c][e] <= 1
          /\ announced[c][e] > 0 =>
                      /\ published[e] > 0
                      /\ e \in held \/ e \notin ToSet(recents) \cup coming
      BY <2>1 DEF TabOrder
    <3>2. announced[c][e] > 0 => published'[e] > 0 /\ e \notin ToSet(events)
      BY <1>9, <3>1
    <3> QED
      BY <1>16, <2>10, <3>1, <3>2
  <2>15. c \notin conn => wire'[c] = <<>>
    BY <2>1, <2>4 DEF TabOrder
  <2>16. Len(items[c]) <= MaxItems
    BY <2>1 DEF TabOrder
  <2>17. \A e \in held \cup ToSet(wire'[c]) : published'[e] > 0
    BY <1>8, <2>6, <2>10
  <2> QED
    BY <2>4, <2>7, <2>9, <2>12, <2>13, <2>14, <2>15, <2>16, <2>17 DEF TabOrder
<1>20. Ordered(rank2, n2)'
  BY <1>18, <1>19 DEF Ordered
<1> HIDE DEF n2
<1> QED
  BY <1>5, <1>20

-----------------------------------------------------------------------------
(* An event reaches a tab *)

\* A rising list without its first member.
LEMMA TailIs ==
    ASSUME NEW s \in Seq(Events), s # <<>>
    PROVE  /\ Head(s) = s[1] /\ Head(s) \in Events /\ Head(s) \in ToSet(s)
           /\ Tail(s) \in Seq(Events)
           /\ \A rank : Rises(s, rank) => Rises(Tail(s), rank)
           /\ \A e : e \in ToSet(s) <=> e = Head(s) \/ e \in ToSet(Tail(s))
           /\ \A rank : Rises(s, rank) => \A e \in ToSet(Tail(s)) : rank[Head(s)] < rank[e]
<1> DEFINE t == Tail(s)
           m == Len(s)
<1>1. m \in Nat \ {0} /\ Head(s) = s[1]
  BY EmptySeq
<1>2. t \in Seq(Events) /\ Len(t) = m - 1 /\ \A i \in 1..(m - 1) : t[i] = s[i + 1]
  <2>1. t \in Seq(Events) /\ Len(t) = m - 1 /\ \A i \in 1..Len(t) : t[i] = s[i + 1]
    BY HeadTailProperties
  <2> HIDE DEF t
  <2> QED
    BY <2>1
<1> HIDE DEF t, m
<1>3. 1 \in 1..m /\ \A i \in 1..(m - 1) : i + 1 \in 1..m /\ i + 1 > 1
  BY <1>1
<1>4. \A i \in 1..m : i = 1 \/ (i - 1 \in 1..(m - 1) /\ (i - 1) + 1 = i)
  BY <1>1
<1>5. /\ \A e : e \in ToSet(s) <=> \E i \in 1..m : s[i] = e
      /\ \A e : e \in ToSet(t) <=> \E i \in 1..(m - 1) : t[i] = e
  BY <1>2, Members DEF m
<1>6. \A e : e \in ToSet(s) <=> e = Head(s) \/ e \in ToSet(t)
  <2>1. \A i \in 1..m : i = 1 \/ (i - 1 \in 1..(m - 1) /\ s[i] = t[i - 1])
    BY <1>2, <1>4
  <2> QED
    BY <1>1, <1>2, <1>3, <1>5, <2>1
<1>7. ASSUME NEW rank, Rises(s, rank) PROVE Rises(t, rank) /\ \A e \in ToSet(t) : rank[Head(s)] < rank[e]
  <2>1. \A i \in 1..m, j \in 1..m : i < j => rank[s[i]] < rank[s[j]]
    BY <1>7 DEF Rises, m
  <2>2. \A i \in 1..(m - 1), j \in 1..(m - 1) : i < j =>
            i + 1 \in 1..m /\ j + 1 \in 1..m /\ i + 1 < j + 1
    BY <1>1
  <2>3. \A i \in 1..(m - 1), j \in 1..(m - 1) : i < j => rank[t[i]] < rank[t[j]]
    BY <1>2, <2>1, <2>2
  <2>4. \A e \in ToSet(t) : rank[Head(s)] < rank[e]
    <3> TAKE e \in ToSet(t)
    <3>1. PICK i \in 1..(m - 1) : t[i] = e
      BY <1>5
    <3>2. e = s[i + 1] /\ i + 1 \in 1..m /\ 1 < i + 1 /\ 1 \in 1..m
      BY <1>2, <1>3, <3>1
    <3> QED
      BY <1>1, <2>1, <3>2
  <2> QED
    BY <1>2, <2>3, <2>4 DEF Rises
<1>8. Head(s) \in Events
  BY <1>1, <1>3, ElementOfSeq DEF m
<1> QED
  BY <1>1, <1>2, <1>6, <1>7, <1>8 DEF t

\* A list longer than the buffer is not all in it.
LEMMA TooManyForBuffer ==
    ASSUME NEW rank \in [Events -> Nat], recents \in Seq(Events), Len(recents) <= RecentLimit,
           NEW s \in Seq(Events), Falls(s, rank), Len(s) > RecentLimit
    PROVE  \E i \in 1..Len(s) : s[i] \notin ToSet(recents)
<1> SUFFICES ASSUME \A i \in 1..Len(s) : s[i] \in ToSet(recents) PROVE FALSE
  OBVIOUS
<1> DEFINE A == 1..Len(s)
           B == 1..Len(recents)
           f == [i \in A |-> CHOOSE j \in B : recents[j] = s[i]]
<1>1. Len(s) \in Nat /\ Len(recents) \in Nat /\ Len(recents) < Len(s)
  BY LenProperties, NotificationAssumption
<1>2. /\ IsFiniteSet(A) /\ IsFiniteSet(B) /\ Cardinality(A) = Len(s) /\ Cardinality(B) = Len(recents)
  <2>1. 1 \in Int /\ Len(s) \in Int /\ Len(recents) \in Int
    BY <1>1
  <2>2. /\ IsFiniteSet(A) /\ Cardinality(A) = IF 1 > Len(s) THEN 0 ELSE Len(s) - 1 + 1
        /\ IsFiniteSet(B) /\ Cardinality(B) = IF 1 > Len(recents) THEN 0 ELSE Len(recents) - 1 + 1
    BY <2>1, FS_Interval
  <2> HIDE DEF A, B
  <2> QED
    BY <1>1, <2>2
<1>3. \A i \in A : \E j \in B : recents[j] = s[i]
  BY Members
<1>4. f \in [A -> B] /\ \A i \in A : recents[f[i]] = s[i]
  <2> HIDE DEF A, B
  <2> QED
    BY <1>3
<1>5. PICK x \in A, y \in A : x # y /\ f[x] = f[y]
  <2> HIDE DEF f, A, B
  <2>1. Cardinality(B) < Cardinality(A)
    BY <1>1, <1>2
  <2>2. \E x, y \in A : x # y /\ f[x] = f[y]
    BY <1>2, <1>4, <2>1, FS_PigeonHole
  <2> QED
    BY <2>2
<1>6. s[x] = s[y]
  <2> HIDE DEF f
  <2> QED
    BY <1>4, <1>5
<1>7. rank[s[x]] \in Nat
  BY ElementOfSeq
<1>8. x < y \/ y < x
  BY <1>5
<1> QED
  BY <1>6, <1>7, <1>8 DEF Falls

\* What falls out of a tab's list is no longer in the buffer.
LEMMA AddedIs ==
    ASSUME NEW rank \in [Events -> Nat], NEW n \in Nat, HubOrder(rank, n),
           recents \in Seq(Events), published \in [Events -> Nat],
           NEW s \in Seq(Events), Falls(s, rank), Len(s) <= MaxItems,
           NEW e \in Events, published[e] > 0, \A x \in ToSet(s) : published[x] > 0 /\ rank[e] > rank[x]
    PROVE  /\ Added(s, e) \in Seq(Events) /\ Len(Added(s, e)) <= MaxItems
           /\ Falls(Added(s, e), rank)
           /\ e \in ToSet(Added(s, e))
           /\ \A x \in ToSet(Added(s, e)) : x = e \/ x \in ToSet(s)
           /\ \A x \in ToSet(s) : x \in ToSet(Added(s, e)) \/ x \notin ToSet(recents)
<1> DEFINE u == <<e>>
           a == u \o s
           t == Added(s, e)
<1>1. u \in Seq(Events) /\ Len(u) = 1 /\ u[1] = e
  OBVIOUS
<1> HIDE DEF u
<1>2. /\ a \in Seq(Events) /\ Len(a) = 1 + Len(s) /\ Len(s) \in Nat
      /\ \A i \in 1..Len(a) : \/ i \in 1..Len(u) /\ a[i] = u[i]
                              \/ i > Len(u) /\ i - Len(u) \in 1..Len(s) /\ a[i] = s[i - Len(u)]
      /\ \A i \in 1..Len(s) : i + Len(u) \in 1..Len(a) /\ a[i + Len(u)] = s[i]
  <2>1. /\ u \o s \in Seq(Events) /\ Len(s) \in Nat /\ Len(u \o s) = Len(u) + Len(s)
        /\ \A i \in 1..Len(u \o s) :
              \/ i \in 1..Len(u) /\ (u \o s)[i] = u[i]
              \/ i > Len(u) /\ i - Len(u) \in 1..Len(s) /\ (u \o s)[i] = s[i - Len(u)]
        /\ \A i \in 1..Len(s) : i + Len(u) \in 1..Len(u \o s) /\ (u \o s)[i + Len(u)] = s[i]
    BY <1>1, ConcatIs
  <2>2. a = u \o s
    OBVIOUS
  <2> HIDE DEF a
  <2>3. /\ a \in Seq(Events) /\ Len(s) \in Nat /\ Len(a) = Len(u) + Len(s)
        /\ \A i \in 1..Len(a) :
              \/ i \in 1..Len(u) /\ a[i] = u[i]
              \/ i > Len(u) /\ i - Len(u) \in 1..Len(s) /\ a[i] = s[i - Len(u)]
        /\ \A i \in 1..Len(s) : i + Len(u) \in 1..Len(a) /\ a[i + Len(u)] = s[i]
    BY <2>1, <2>2
  <2> QED
    BY <1>1, <2>3
<1>3. /\ \A i \in 1..Len(a) : (i = 1 /\ a[i] = e) \/ (i - 1 \in 1..Len(s) /\ a[i] = s[i - 1] /\ i > 1)
      /\ \A i \in 1..Len(s) : i + 1 \in 1..Len(a) /\ a[i + 1] = s[i]
  <2> HIDE DEF a
  <2> QED
    BY <1>1, <1>2
<1>4. t = Shortest(a, MaxItems) /\ MaxItems \in Nat \ {0}
  BY NotificationAssumption DEF Added, u
<1> HIDE DEF a, t
<1>5. /\ t \in Seq(Events) /\ Len(t) = IF Len(a) < MaxItems THEN Len(a) ELSE MaxItems
      /\ \A i \in 1..Len(t) : i \in 1..Len(a) /\ t[i] = a[i]
  BY <1>2, <1>4, ShortestIs
<1>6. Len(t) \in Nat /\ Len(t) <= MaxItems /\ Len(a) \in Nat /\ 1 \in 1..Len(t) /\ 1 \in 1..Len(a)
  BY <1>2, <1>4, <1>5, SMTT(40)
<1>7. /\ \A x : x \in ToSet(s) <=> \E i \in 1..Len(s) : s[i] = x
      /\ \A x : x \in ToSet(t) <=> \E i \in 1..Len(t) : t[i] = x
  BY <1>5, Members
<1>8. Falls(a, rank)
  <2> SUFFICES ASSUME NEW i \in 1..Len(a), NEW j \in 1..Len(a), i < j
               PROVE  rank[a[i]] > rank[a[j]]
    BY DEF Falls
  <2>1. j - 1 \in 1..Len(s) /\ a[j] = s[j - 1]
    BY <1>2, <1>3
  <2>2. CASE i = 1
    <3>1. a[i] = e /\ a[j] \in ToSet(s)
      <4>1. a[i] = e
        BY <1>3, <2>2
      <4> QED
        BY <1>7, <2>1, <4>1
    <3> QED
      BY <3>1
  <2>3. CASE i # 1
    <3>1. i - 1 \in 1..Len(s) /\ a[i] = s[i - 1] /\ i - 1 < j - 1
      BY <1>2, <1>3, <2>3
    <3>2. rank[s[i - 1]] > rank[s[j - 1]]
      BY <2>1, <3>1 DEF Falls
    <3> QED
      BY <2>1, <3>1, <3>2
  <2> QED
    BY <2>2, <2>3
<1>9. Falls(t, rank)
  BY <1>5, <1>8 DEF Falls
<1>10. e \in ToSet(t)
  <2>1. a[1] = e
    BY <1>3, <1>6
  <2> QED
    BY <1>5, <1>6, <1>7, <2>1
<1>11. \A x \in ToSet(t) : x = e \/ x \in ToSet(s)
  BY <1>3, <1>5, <1>7
<1>12. ASSUME NEW x \in ToSet(s), x \notin ToSet(t), x \in ToSet(recents) PROVE FALSE
  <2>1. PICK k \in 1..Len(s) : s[k] = x
    BY <1>7
  <2>2. a[k + 1] = x /\ k + 1 \in 1..Len(a)
    BY <1>3, <2>1
  <2>3. k + 1 \notin 1..Len(t)
    BY <1>5, <1>7, <1>12, <2>2
  <2>4. Len(a) = MaxItems + 1 /\ k + 1 = Len(a)
    <3>1. Len(s) \in Nat /\ Len(a) = 1 + Len(s) /\ Len(s) <= MaxItems /\ MaxItems \in Nat
      BY <1>2, <1>4
    <3>2. k \in Nat /\ k + 1 <= Len(a) /\ k + 1 > Len(t)
      BY <1>6, <2>1, <2>2, <2>3, <3>1
    <3>3. Len(t) = IF Len(a) < MaxItems THEN Len(a) ELSE MaxItems
      BY <1>5
    <3> QED
      BY SMTT(30), <1>6, <3>1, <3>2, <3>3
  <2>5. Len(a) > RecentLimit
    BY <1>6, <2>4, StoreAssumption, NotificationAssumption
  <2>6. ASSUME NEW i \in 1..Len(a) PROVE a[i] \in ToSet(recents)
    <3>1. CASE i = k + 1
      BY <1>12, <2>2, <3>1
    <3>2. CASE i # k + 1
      <4>1. i < k + 1
        BY <1>6, <2>4, <3>2
      <4>2. rank[a[i]] > rank[x]
        BY <1>8, <2>2, <4>1 DEF Falls
      <4>3. a[i] \in Events /\ published[a[i]] > 0
        <5>1. a[i] = e \/ a[i] \in ToSet(s)
          BY <1>3, <1>7
        <5> QED
          BY <1>2, <5>1, ElementOfSeq
      <4> QED
        BY <1>12, <4>2, <4>3 DEF HubOrder
    <3> QED
      BY <3>1, <3>2
  <2>7. \E i \in 1..Len(a) : a[i] \notin ToSet(recents)
    BY <1>2, <1>8, <2>5, TooManyForBuffer DEF HubOrder
  <2> QED
    BY <2>6, <2>7
<1> QED
  BY <1>5, <1>6, <1>9, <1>10, <1>11, <1>12 DEF t

-----------------------------------------------------------------------------
\* A tab that reads one event from its stream keeps the order.
LEMMA ReceiveKeeps ==
    ASSUME ListTypes, NEW rank \in [Events -> Nat], NEW n \in Nat, Ordered(rank, n),
           NEW c \in Clients, Receive(c)
    PROVE  Ordered(rank, n)'
<1> USE DEF ListTypes
<1> DEFINE e == Head(wire[c])
           rest == ToSet(Tail(wire[c]))
           held == ToSet(items[c])
           coming == ToSet(wire[c])
<1>1. /\ wire[c] # <<>> /\ wire' = [wire EXCEPT ![c] = Tail(wire[c])]
      /\ UNCHANGED <<conn, recents, published>>
  BY DEF Receive
<1>2. TabOrder(c, rank) /\ HubOrder(rank, n)
  BY DEF Ordered
<1>3. c \in conn
  BY <1>1, <1>2 DEF TabOrder
<1>4. wire[c] \in Seq(Events) /\ items[c] \in Seq(Events) /\ wire'[c] = Tail(wire[c])
      /\ \A d \in Clients : d # c => wire'[d] = wire[d]
  BY <1>1
<1>5. /\ e \in Events /\ Tail(wire[c]) \in Seq(Events) /\ Rises(Tail(wire[c]), rank)
      /\ e \in coming /\ \A d : d \in coming <=> d = e \/ d \in rest
      /\ \A d \in rest : rank[e] < rank[d]
  BY <1>1, <1>2, <1>4, TailIs DEF TabOrder
<1>6. rest \subseteq Events /\ held \subseteq Events
  BY <1>4, <1>5, Members
<1>7. HubOrder(rank, n)'
  BY <1>1, <1>2 DEF HubOrder
<1>8. Replayed(c)' = Replayed(c) /\ Replayed(c) \subseteq coming \cup held
  BY <1>1, <1>2, <1>3 DEF Replayed, TabOrder
<1>9. Replayed(c) \subseteq ToSet(recents)
  BY DEF Replayed
<1>10. ASSUME NEW d \in Clients, d # c, items'[d] = items[d], announced'[d] = announced[d]
       PROVE  TabOrder(d, rank)'
  <2>1. TabOrder(d, rank)
    BY DEF Ordered
  <2>2. Replayed(d)' = Replayed(d)
    BY <1>1 DEF Replayed
  <2> QED
    BY <1>1, <1>4, <1>10, <2>1, <2>2 DEF TabOrder
<1> HIDE DEF e, rest, held, coming
<1>11. CASE e \in held
  <2>1. items' = items /\ announced' = announced
    BY <1>11 DEF Receive, e, held
  <2>2. \A d \in (rest \cup Replayed(c)) \ held : \A x \in held : rank[d] > rank[x]
    BY <1>2, <1>5 DEF TabOrder, held, coming
  <2>3. \A d \in held \cup rest : published[d] > 0
    BY <1>2, <1>5 DEF TabOrder, held, coming
  <2>4. Replayed(c) \subseteq rest \cup held
    BY <1>5, <1>8, <1>11
  <2>5. \A d \in Events :
          /\ announced[c][d] <= 1
          /\ announced[c][d] > 0 =>
                /\ published[d] > 0
                /\ d \in held \/ d \notin ToSet(recents) \cup rest
    BY <1>2, <1>5 DEF TabOrder, held, coming
  <2>6. Falls(items[c], rank) /\ Len(items[c]) <= MaxItems
    BY <1>2 DEF TabOrder
  <2>7. TabOrder(c, rank)'
    BY <1>1, <1>3, <1>4, <1>5, <1>8, <2>1, <2>2, <2>3, <2>4, <2>5, <2>6 DEF TabOrder, held, rest
  <2> QED
    BY <1>7, <1>10, <2>1, <2>7 DEF Ordered
<1>12. CASE e \notin held
  <2> DEFINE held2 == ToSet(items'[c])
  <2>1. /\ items' = [items EXCEPT ![c] = Added(items[c], e)]
        /\ announced' = [announced EXCEPT ![c][e] = announced[c][e] + 1]
    BY <1>12 DEF Receive, e, held
  <2>2. /\ items'[c] = Added(items[c], e) /\ \A d \in Clients : d # c => items'[d] = items[d]
        /\ announced'[c] = [announced[c] EXCEPT ![e] = announced[c][e] + 1]
        /\ \A d \in Clients : d # c => announced'[d] = announced[d]
    BY <2>1
  <2>3. /\ Falls(items[c], rank) /\ Len(items[c]) <= MaxItems /\ published[e] > 0
        /\ \A x \in held : published[x] > 0 /\ rank[e] > rank[x]
        /\ \A x \in coming : published[x] > 0
    BY <1>2, <1>5, <1>12 DEF TabOrder, held, coming
  <2>4. /\ items'[c] \in Seq(Events) /\ Len(items'[c]) <= MaxItems /\ Falls(items'[c], rank)
        /\ e \in held2
        /\ \A x \in held2 : x = e \/ x \in held
        /\ \A x \in held : x \in held2 \/ x \notin ToSet(recents)
    <3> DEFINE s == items[c]
    <3>1. s \in Seq(Events) /\ Falls(s, rank) /\ Len(s) <= MaxItems
      BY <1>4, <2>3
    <3>2. \A x \in ToSet(s) : published[x] > 0 /\ rank[e] > rank[x]
      BY <2>3 DEF held
    <3>3. e \in Events /\ published[e] > 0 /\ items'[c] = Added(s, e)
      BY <1>5, <2>2, <2>3
    <3>4. ToSet(s) = held
      BY DEF held
    <3>5. recents \in Seq(Events) /\ published \in [Events -> Nat]
      OBVIOUS
    <3> HIDE DEF s, ListTypes
    <3>6. /\ Added(s, e) \in Seq(Events) /\ Len(Added(s, e)) <= MaxItems
          /\ Falls(Added(s, e), rank)
          /\ e \in ToSet(Added(s, e))
          /\ \A x \in ToSet(Added(s, e)) : x = e \/ x \in ToSet(s)
          /\ \A x \in ToSet(s) : x \in ToSet(Added(s, e)) \/ x \notin ToSet(recents)
      BY <1>2, <3>1, <3>2, <3>3, <3>5, AddedIs
    <3> QED
      BY <3>3, <3>4, <3>6
  <2> HIDE DEF held2
  <2>5. \A x \in held : x \notin rest
    <3> TAKE x \in held
    <3> SUFFICES ASSUME x \in rest PROVE FALSE
      OBVIOUS
    <3>1. rank[e] < rank[x] /\ rank[e] > rank[x] /\ rank[e] \in Nat /\ rank[x] \in Nat
      BY <1>5, <1>6, <2>3
    <3> QED
      BY <3>1
  <2>6. \A d \in Replayed(c) : d \in held2 \/ (d \in rest /\ d \notin held)
    BY <1>5, <1>8, <1>9, <2>4, <2>5
  <2>7. ASSUME NEW d \in (rest \cup Replayed(c)) \ held2, NEW x \in held2 PROVE rank[d] > rank[x]
    <3>1. d \in rest
      BY <2>6, <2>7
    <3>2. rank[d] > rank[e]
      BY <1>5, <3>1
    <3>3. rank[d] \in Nat /\ rank[e] \in Nat /\ rank[x] \in Nat
      BY <1>5, <1>6, <2>4, <2>7, <3>1
    <3>4. x = e \/ rank[e] > rank[x]
      BY <2>3, <2>4, <2>7
    <3> QED
      BY <3>2, <3>3, <3>4
  <2>8. \A d \in held2 \cup rest : published[d] > 0
    BY <1>5, <2>3, <2>4
  <2>9. ASSUME NEW d \in Events
        PROVE  /\ announced'[c][d] <= 1
               /\ announced'[c][d] > 0 =>
                     /\ published[d] > 0
                     /\ d \in held2 \/ d \notin ToSet(recents) \cup rest
    <3>1. /\ announced[c][d] <= 1 /\ announced[c][d] \in Nat
          /\ announced[c][d] > 0 =>
                /\ published[d] > 0
                /\ d \in held \/ d \notin ToSet(recents) \cup coming
      BY <1>2 DEF TabOrder, held, coming
    <3>2. CASE d = e
      <4>1. announced[c][d] = 0
        BY <1>5, <1>12, <3>1, <3>2
      <4>2. announced'[c][d] = 1
        <5>1. announced[c] \in [Events -> Nat]
          OBVIOUS
        <5> QED
          BY <1>5, <2>2, <3>2, <4>1, <5>1
      <4> QED
        BY <2>3, <2>4, <3>2, <4>2
    <3>3. CASE d # e
      <4>1. announced'[c][d] = announced[c][d]
        <5>1. announced[c] \in [Events -> Nat]
          OBVIOUS
        <5> QED
          BY <2>2, <3>3, <5>1
      <4> QED
        BY <1>5, <2>4, <2>5, <3>1, <4>1
    <3> QED
      BY <3>2, <3>3
  <2>10. TabOrder(c, rank)'
    BY <1>1, <1>3, <1>4, <1>5, <1>8, <2>4, <2>6, <2>7, <2>8, <2>9 DEF TabOrder, held2, rest
  <2> QED
    BY <1>7, <1>10, <2>2, <2>10 DEF Ordered
<1> QED
  BY <1>11, <1>12

-----------------------------------------------------------------------------
(* Streams come and go *)

\* A new stream brings what the buffer would replay, oldest first.
LEMMA ConnectKeeps ==
    ASSUME ListTypes, NEW rank \in [Events -> Nat], NEW n \in Nat, Ordered(rank, n),
           NEW c \in Clients, Connect(c)
    PROVE  ListTypes' /\ Ordered(rank, n)'
<1> USE DEF ListTypes
<1> DEFINE w == SeenBy(c, Reverse(recents))
<1>1. /\ conn' = conn \cup {c} /\ wire' = [wire EXCEPT ![c] = w]
      /\ UNCHANGED <<recents, published, items, announced>>
  BY DEF Connect, Replay
<1>2. HubOrder(rank, n) /\ TabOrder(c, rank)
  BY DEF Ordered
<1>3. /\ Reverse(recents) \in Seq(Events) /\ ToSet(Reverse(recents)) = ToSet(recents)
      /\ Rises(Reverse(recents), rank)
  BY <1>2, ReverseIs, ReverseRises DEF HubOrder
<1>4. w \in Seq(Events) /\ Rises(w, rank) /\ \A e : e \in ToSet(w) <=> e \in Replayed(c)
  BY <1>3, SeenIs DEF Replayed
<1> HIDE DEF w
<1>5. ListTypes'
  BY <1>1, <1>4
<1>6. HubOrder(rank, n)'
  BY <1>1, <1>2 DEF HubOrder
<1>7. \A d \in Clients : Replayed(d)' = Replayed(d)
  BY <1>1 DEF Replayed
<1>8. Replayed(c) \subseteq ToSet(recents) /\ \A e \in ToSet(recents) : published[e] > 0
  BY <1>2 DEF Replayed, HubOrder
<1>9. ASSUME NEW d \in Clients PROVE TabOrder(d, rank)'
  <2>1. CASE d = c
    <3>1. wire'[c] = w /\ items'[c] = items[c] /\ announced'[c] = announced[c]
      BY <1>1
    <3>2. \A e \in ToSet(items[c]) \cup ToSet(w) : published[e] > 0
      BY <1>2, <1>4, <1>8 DEF TabOrder
    <3>3. \A x \in (ToSet(w) \cup Replayed(c)) \ ToSet(items[c]) :
              \A e \in ToSet(items[c]) : rank[x] > rank[e]
      BY <1>2, <1>4 DEF TabOrder
    <3>4. Replayed(c) \subseteq ToSet(w) \cup ToSet(items[c])
      BY <1>4
    <3>5. \A e \in Events :
              /\ announced[c][e] <= 1
              /\ announced[c][e] > 0 =>
                    /\ published[e] > 0
                    /\ e \in ToSet(items[c]) \/ e \notin ToSet(recents) \cup ToSet(w)
      BY <1>2, <1>4, <1>8 DEF TabOrder
    <3>6. Falls(items[c], rank) /\ Len(items[c]) <= MaxItems
      BY <1>2 DEF TabOrder
    <3> QED
      BY <1>1, <1>4, <1>7, <2>1, <3>1, <3>2, <3>3, <3>4, <3>5, <3>6 DEF TabOrder
  <2>2. CASE d # c
    <3>1. TabOrder(d, rank) /\ wire'[d] = wire[d] /\ (d \in conn' <=> d \in conn)
      BY <1>1, <2>2 DEF Ordered
    <3> QED
      BY <1>1, <1>7, <3>1 DEF TabOrder
  <2> QED
    BY <2>1, <2>2
<1> QED
  BY <1>5, <1>6, <1>9 DEF Ordered

\* Nothing is in an empty stream.
LEMMA NothingComes ==
    /\ <<>> \in Seq(Events) /\ Len(<<>>) = 0 /\ ToSet(<<>>) = {}
    /\ \A rank : Rises(<<>>, rank) /\ Falls(<<>>, rank)
<1>1. <<>> \in Seq(Events) /\ Len(<<>>) = 0
  BY EmptySeq
<1>2. ASSUME NEW s \in Seq(Events), Len(s) = 0
      PROVE  ToSet(s) = {} /\ \A rank : Rises(s, rank) /\ Falls(s, rank)
  <2>1. 1..Len(s) = {}
    BY <1>2
  <2>2. \A e : e \notin ToSet(s)
    BY <2>1, Members
  <2> QED
    BY <2>1, <2>2 DEF Rises, Falls
<1> QED
  BY <1>1, <1>2

\* A lost stream takes what was on its way; what the tab announced is still held or gone.
LEMMA DisconnectKeeps ==
    ASSUME ListTypes, NEW rank \in [Events -> Nat], NEW n \in Nat, Ordered(rank, n),
           NEW c \in Clients, Disconnect(c)
    PROVE  ListTypes' /\ Ordered(rank, n)'
<1> USE DEF ListTypes
<1>1. /\ conn' = conn \ {c} /\ wire' = [wire EXCEPT ![c] = <<>>]
      /\ UNCHANGED <<recents, published, items, announced>>
  BY DEF Disconnect
<1>2. ListTypes'
  BY <1>1, NothingComes
<1>3. HubOrder(rank, n)'
  BY <1>1 DEF Ordered, HubOrder
<1>4. ASSUME NEW d \in Clients PROVE TabOrder(d, rank)'
  <2>1. TabOrder(d, rank) /\ Replayed(d)' = Replayed(d)
    BY <1>1 DEF Ordered, Replayed
  <2>2. CASE d = c
    <3>1. wire'[c] = <<>> /\ c \notin conn'
      BY <1>1
    <3> QED
      BY <1>1, <2>1, <2>2, <3>1, NothingComes DEF TabOrder
  <2>3. CASE d # c
    <3>1. wire'[d] = wire[d] /\ (d \in conn' <=> d \in conn)
      BY <1>1, <2>3
    <3> QED
      BY <1>1, <2>1, <3>1 DEF TabOrder
  <2> QED
    BY <2>2, <2>3
<1> QED
  BY <1>2, <1>3, <1>4 DEF Ordered

\* A restart of the web process empties the buffer and the streams.
LEMMA RestartKeeps ==
    ASSUME ListTypes, NEW rank \in [Events -> Nat], NEW n \in Nat, Ordered(rank, n), Restart
    PROVE  ListTypes' /\ Ordered(rank, n)'
<1> USE DEF ListTypes
<1>1. /\ conn' = {} /\ wire' = [c \in Clients |-> <<>>] /\ recents' = <<>>
      /\ UNCHANGED <<published, items, announced>>
  BY DEF Restart
<1>2. ListTypes'
  BY <1>1, NothingComes
<1>3. HubOrder(rank, n)'
  BY <1>1, NothingComes, NotificationAssumption DEF Ordered, HubOrder
<1>4. ASSUME NEW d \in Clients PROVE TabOrder(d, rank)'
  <2>1. TabOrder(d, rank) /\ Replayed(d)' = {} /\ wire'[d] = <<>>
    BY <1>1, NothingComes DEF Ordered, Replayed
  <2> QED
    BY <1>1, <2>1, NothingComes DEF TabOrder
<1> QED
  BY <1>2, <1>3, <1>4 DEF Ordered

\* A step of the worker, the query of a poll and a request that opens no stream bring
\* nothing to a tab.
LEMMA OthersKeep ==
    ASSUME ListTypes, Kept, UNCHANGED <<recents, wire, published, conn, items, announced>>
    PROVE  Kept'
<1>1. Once' = Once /\ \A rank, n : HubOrder(rank, n)' = HubOrder(rank, n)
  BY DEF Once, HubOrder
<1>2. \A c : Replayed(c)' = Replayed(c)
  BY DEF Replayed
<1>3. \A c, rank : TabOrder(c, rank)' = TabOrder(c, rank)
  BY <1>2 DEF TabOrder
<1> QED
  BY <1>1, <1>3 DEF Kept, Ordered, ListTypes

\* An emission keeps the types of the lists,
LEMMA EmitTypes ==
    ASSUME ListTypes, NEW events \in Seq(Events), Emit(events),
           UNCHANGED <<conn, items, announced>>
    PROVE  ListTypes'
<1> USE DEF ListTypes
<1> DEFINE all == Reverse(events) \o recents
<1>1. Reverse(events) \in Seq(Events)
  BY ReverseIs
<1>2. all \in Seq(Events)
  BY <1>1, ConcatProperties
<1>3. recents' = Shortest(all, RecentLimit) /\ RecentLimit \in Nat
  BY NotificationAssumption DEF Emit
<1> HIDE DEF all
<1>4. recents' \in Seq(Events)
  BY <1>2, <1>3, ShortestIs
<1>5. ASSUME NEW c \in Clients PROVE wire[c] \o SeenBy(c, events) \in Seq(Events)
  BY SeenIs, ConcatProperties
<1>6. wire' \in [Clients -> Seq(Events)]
  BY <1>5 DEF Emit
<1>7. published' \in [Events -> Nat]
  BY EmitOnce
<1> QED
  BY <1>4, <1>6, <1>7

\* and so does an event that reaches a tab.
LEMMA ReceiveTypes == ASSUME ListTypes, NEW c \in Clients, Receive(c) PROVE ListTypes'
<1> USE DEF ListTypes
<1> DEFINE e == Head(wire[c])
           list == <<e>> \o items[c]
<1>1. wire[c] \in Seq(Events) /\ wire[c] # <<>> /\ items[c] \in Seq(Events)
  BY DEF Receive
<1>2. e \in Events /\ Tail(wire[c]) \in Seq(Events)
  BY <1>1, TailIs
<1> HIDE DEF e
<1>3. list \in Seq(Events)
  BY <1>1, <1>2, ConcatProperties
<1>4. Added(items[c], e) \in Seq(Events)
  <2>1. Added(items[c], e) = Shortest(list, MaxItems) /\ MaxItems \in Nat
    BY NotificationAssumption DEF Added
  <2> HIDE DEF list
  <2> QED
    BY <1>3, <2>1, ShortestIs
<1>5. announced[c] \in [Events -> Nat]
  OBVIOUS
<1>6. \/ UNCHANGED <<items, announced>>
      \/ /\ items' = [items EXCEPT ![c] = Added(items[c], e)]
         /\ announced' = [announced EXCEPT ![c][e] = announced[c][e] + 1]
  BY DEF Receive, e
<1>7. items' \in [Clients -> Seq(Events)]
  BY <1>4, <1>6
<1>8. announced' \in [Clients -> [Events -> Nat]]
  <2>1. announced' = announced \/ announced' = [announced EXCEPT ![c] = [announced[c] EXCEPT ![e] = announced[c][e] + 1]]
    BY <1>6
  <2>2. [announced[c] EXCEPT ![e] = announced[c][e] + 1] \in [Events -> Nat]
    BY <1>2, <1>5
  <2> QED
    BY <2>1, <2>2
<1>9. wire' \in [Clients -> Seq(Events)] /\ UNCHANGED <<conn, recents, published>>
  BY <1>2 DEF Receive
<1> QED
  BY <1>7, <1>8, <1>9

\* An emission, of one event or of the rows of a poll.
LEMMA EmissionKeeps ==
    ASSUME Kept, NEW events \in Seq(Events), Emit(events), UNCHANGED <<conn, items, announced>>
    PROVE  Kept'
<1>1. ListTypes /\ ListTypes'
  BY EmitTypes DEF Kept
<1>2. ASSUME Once' PROVE Once
  <2>1. \A e \in Events : published'[e] >= published[e] /\ published'[e] \in Nat /\ published[e] \in Nat
    BY <1>1, EmitOnce DEF ListTypes
  <2> QED
    BY <1>2, <2>1 DEF Once
<1>3. ASSUME Once' PROVE \E rank \in [Events -> Nat] : \E n \in Nat : Ordered(rank, n)'
  <2>1. PICK rank \in [Events -> Nat], n \in Nat : Ordered(rank, n)
    BY <1>2, <1>3 DEF Kept
  <2> QED
    BY <1>1, <1>3, <2>1, EmitKeeps
<1> QED
  BY <1>1, <1>3 DEF Kept

\* The rows of a poll are a sequence of events.
LEMMA RowsAreEvents ==
    ASSUME NEW rows \in SUBSET Follows, NEW order \in ByTime(rows)
    PROVE  order \in Seq(Events)
<1>1. Cardinality(rows) \in Nat
  BY FS_Subset, FS_CardinalityType, NotificationAssumption
<1>2. order \in [1 .. Cardinality(rows) -> rows]
  BY DEF ByTime
<1>3. order \in [1 .. Cardinality(rows) -> Events]
  BY <1>2 DEF Events
<1> QED
  BY <1>1, <1>3

\* The invariant holds at the start,
LEMMA InitKept == Init => Kept
<1> SUFFICES ASSUME Init PROVE Kept
  OBVIOUS
<1>1. ListTypes
  BY NothingComes DEF Init, ListTypes
<1> DEFINE rank == [e \in Events |-> 0]
<1>2. rank \in [Events -> Nat] /\ 0 \in Nat
  OBVIOUS
<1> HIDE DEF rank
<1>3. HubOrder(rank, 0)
  BY NothingComes, NotificationAssumption DEF Init, HubOrder
<1>4. ASSUME NEW c \in Clients PROVE TabOrder(c, rank)
  <2>1. Replayed(c) = {} /\ wire[c] = <<>> /\ items[c] = <<>> /\ c \notin conn
    BY NothingComes DEF Init, Replayed
  <2>2. \A e \in Events : announced[c][e] = 0
    BY DEF Init
  <2> QED
    BY <2>1, <2>2, NothingComes, NotificationAssumption DEF TabOrder
<1>5. Ordered(rank, 0)
  BY <1>3, <1>4 DEF Ordered
<1> QED
  BY <1>1, <1>2, <1>5 DEF Kept

\* and every step keeps it.
LEMMA NextKept == Inv /\ Kept /\ [Next]_vars => Kept'
<1> SUFFICES ASSUME Inv, Kept, [Next]_vars PROVE Kept'
  OBVIOUS
<1>0. ListTypes
  BY DEF Kept
<1>1. ASSUME Broadcast PROVE Kept'
  <2>1. PICK e \in Broadcasts : Emit(<<e>>)
    BY <1>1 DEF Broadcast
  <2>2. <<e>> \in Seq(Events)
    BY DEF Events
  <2>3. UNCHANGED <<conn, items, announced>>
    BY <1>1 DEF Broadcast, tabVars
  <2> QED
    BY <2>1, <2>2, <2>3, EmissionKeeps
<1>2. ASSUME NEW k \in Checks, ApplyCheck(k) PROVE Kept'
  <2>1. PICK rows \in checks[k] : \E order \in ByTime(rows) : Emit(order)
    BY <1>2 DEF ApplyCheck
  <2>5. PICK order \in ByTime(rows) : Emit(order)
    BY <2>1
  <2>2. rows \in SUBSET Follows
    BY <2>1 DEF Inv, WatchTypes
  <2>3. order \in Seq(Events)
    BY <2>2, RowsAreEvents
  <2>4. UNCHANGED <<conn, items, announced>>
    BY <1>2 DEF ApplyCheck, tabVars
  <2> QED
    BY <2>5, <2>3, <2>4, EmissionKeeps
<1>3. ASSUME \/ Tick \/ Settle
             \/ \E k \in Checks : StartCheck(k) \/ FailCheck(k)
             \/ \E c \in Clients : Ask(c) \/ Refuse(c) \/ Reload(c)
             \/ UNCHANGED vars
      PROVE  Kept'
  <2>1. UNCHANGED <<recents, wire, published, conn, items, announced>>
    BY <1>3 DEF Tick, Settle, StartCheck, FailCheck, Ask, Refuse, Reload, vars, hubVars, tabVars
  <2> QED
    BY <1>0, <2>1, OthersKeep
<1>4. ASSUME NEW c \in Clients, Connect(c) \/ Disconnect(c) \/ Receive(c) PROVE Kept'
  <2>1. published' = published
    BY <1>4 DEF Connect, Disconnect, Receive
  <2>2. Once' = Once
    BY <2>1 DEF Once
  <2>3. ListTypes'
    <3>1. CASE Receive(c)
      BY <1>0, <3>1, ReceiveTypes
    <3>2. CASE Connect(c)
      <4>1. SeenBy(c, Reverse(recents)) \in Seq(Events)
        BY <1>0, ReverseIs, SeenIs DEF ListTypes
      <4> QED
        BY <1>0, <3>2, <4>1 DEF ListTypes, Connect, Replay
    <3>3. CASE Disconnect(c)
      BY <1>0, <3>3, NothingComes DEF ListTypes, Disconnect
    <3> QED
      BY <1>4, <3>1, <3>2, <3>3
  <2>4. ASSUME Once PROVE \E rank \in [Events -> Nat] : \E n \in Nat : Ordered(rank, n)'
    <3>1. PICK rank \in [Events -> Nat], n \in Nat : Ordered(rank, n)
      BY <2>4 DEF Kept
    <3>2. Ordered(rank, n)'
      BY <1>0, <1>4, <3>1, ConnectKeeps, DisconnectKeeps, ReceiveKeeps
    <3> QED
      BY <3>2
  <2> QED
    BY <2>2, <2>3, <2>4 DEF Kept
<1>5. ASSUME Restart PROVE Kept'
  <2>1. published' = published
    BY <1>5 DEF Restart
  <2>2. Once' = Once
    BY <2>1 DEF Once
  <2>3. ListTypes'
    BY <1>0, <1>5, NothingComes DEF ListTypes, Restart
  <2>4. ASSUME Once PROVE \E rank \in [Events -> Nat] : \E n \in Nat : Ordered(rank, n)'
    <3>1. PICK rank \in [Events -> Nat], n \in Nat : Ordered(rank, n)
      BY <2>4 DEF Kept
    <3>2. Ordered(rank, n)'
      BY <1>0, <1>5, <3>1, RestartKeeps
    <3> QED
      BY <3>2
  <2> QED
    BY <2>2, <2>3, <2>4 DEF Kept
<1> QED
  BY <1>1, <1>2, <1>3, <1>4, <1>5 DEF Next, CheckStep, Answer

-----------------------------------------------------------------------------
\* As long as nothing is emitted twice, no tab counts an event as unread twice, for
\* any number of tabs and events, however streams are dropped, replayed or lost in a
\* restart and however polls overlap: a tab forgets an event only when the hub's
\* buffer, which is never longer, has forgotten it too (emit,
\* subscribeToNotifications, add).
THEOREM NeverTwice == Spec => []AnnouncedOnce
<1>1. Kept => AnnouncedOnce
  BY DEF Kept, AnnouncedOnce, Once, Ordered, TabOrder
<1>2. Spec => []Inv
  BY InitInv, NextInv, PTL DEF Spec
<1>3. Spec => []Kept
  BY <1>2, InitKept, NextKept, PTL DEF Spec
<1> QED
  BY <1>1, <1>3, PTL

=============================================================================
