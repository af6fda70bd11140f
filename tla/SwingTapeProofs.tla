--------------------------- MODULE SwingTapeProofs ----------------------------
(***************************************************************************)
(* What the structure read says of swings, for every tape: legs alternate, *)
(* verdicts of strength are final, the dealing range holds, the legs kept  *)
(* bar by bar are those of a pass over the whole tape, what is said of     *)
(* completed swings, taken pools and sweeps stands, and the objectives of  *)
(* a trade are a path that passes no eligible swing over.                  *)
(***************************************************************************)
EXTENDS SwingTape, WellFoundedInduction, SequenceTheorems, FiniteSetTheorems, TLAPS

-----------------------------------------------------------------------------
(* Least and greatest indices *)

LEMMA LeastIndex ==
    ASSUME NEW T, T \subseteq Nat, T # {}
    PROVE  \E x \in T : \A y \in T : x <= y
  <1> DEFINE Less == {pair \in Nat \X Nat : pair[1] < pair[2]}
  <1>1. IsWellFoundedOn(Less, Nat)
    BY NatLessThanWellFounded DEF OpToRel
  <1>2. PICK x \in T : \A y \in T : ~(<<y, x>> \in Less)
    <2> HIDE DEF Less
    <2>1. QED
      BY <1>1, WFMin
  <1>3. ASSUME NEW y \in T
        PROVE  x <= y
    <2>1. x \in Nat /\ y \in Nat
      OBVIOUS
    <2>2. ~(y < x)
      BY <1>2, <2>1
    <2>3. QED
      BY <2>1, <2>2
  <1>4. QED
    BY <1>3

LEMMA FirstIndexIs ==
    ASSUME NEW S, S \subseteq Nat, S # {}
    PROVE  FirstIndex(S) \in S /\ \A j \in S : FirstIndex(S) <= j
  <1>1. \E i \in S : \A j \in S : i <= j
    BY LeastIndex
  <1>2. QED
    BY <1>1 DEF FirstIndex

LEMMA LastIndexIs ==
    ASSUME NEW n \in Nat, NEW S, S \subseteq 1..n, S # {}
    PROVE  LastIndex(S) \in S /\ \A j \in S : j <= LastIndex(S)
  <1>1. PICK d \in {n - i : i \in S} : \A e \in {n - i : i \in S} : d <= e
    <2>1. \A i \in S : n - i \in Nat
      OBVIOUS
    <2>2. {n - i : i \in S} \subseteq Nat
      BY <2>1
    <2>3. {n - i : i \in S} # {}
      OBVIOUS
    <2>4. QED
      BY <2>2, <2>3, LeastIndex
  <1>2. PICK i \in S : d = n - i
    OBVIOUS
  <1>3. \A j \in S : j <= i
    <2>1. \A j \in S : n - i <= n - j
      BY <1>1, <1>2
    <2>2. QED
      BY <2>1
  <1>4. QED
    BY <1>2, <1>3 DEF LastIndex

-----------------------------------------------------------------------------
(* Legs *)

Leg == [time : Nat, price : Int, kind : Kinds]

Alternates(ls) ==
    /\ ls \in Seq(Leg)
    /\ \A i \in 1..Len(ls) : \A j \in 1..Len(ls) : j = i + 1 => ls[i].kind # ls[j].kind

\* What one pivot does to the legs.
Extends(ls, ls2) ==
    \/ ls2 = ls
    \/ \E p \in Leg :
        /\ Len(ls) > 0 => ls[Len(ls)].kind # p.kind
        /\ ls2 = Append(ls, p)
    \/ \E p \in Leg :
        /\ Len(ls) > 0 /\ ls[Len(ls)].kind = p.kind
        /\ Beyond(p.kind, p.price, ls[Len(ls)].price)
        /\ ls2 = [ls EXCEPT ![Len(ls)] = p]

LEMMA AddPivotExtends ==
    ASSUME NEW ls \in Seq(Leg), NEW p \in Leg
    PROVE  Extends(ls, AddPivot(ls, p))
  <1>1. CASE Len(ls) = 0
    <2>1. ls = <<>> /\ AddPivot(ls, p) = <<p>>
      BY <1>1 DEF AddPivot
    <2>2. <<p>> = Append(ls, p)
      BY <2>1
    <2>3. QED
      BY <1>1, <2>1, <2>2 DEF Extends
  <1>2. CASE Len(ls) > 0 /\ ls[Len(ls)].kind # p.kind
    <2>1. AddPivot(ls, p) = Append(ls, p)
      BY <1>2 DEF AddPivot
    <2>2. QED
      BY <1>2, <2>1 DEF Extends
  <1>3. CASE /\ Len(ls) > 0 /\ ls[Len(ls)].kind = p.kind
             /\ Beyond(p.kind, p.price, ls[Len(ls)].price)
    <2>1. AddPivot(ls, p) = [ls EXCEPT ![Len(ls)] = p]
      BY <1>3 DEF AddPivot
    <2>2. QED
      BY <1>3, <2>1 DEF Extends
  <1>4. CASE /\ Len(ls) > 0 /\ ls[Len(ls)].kind = p.kind
             /\ ~Beyond(p.kind, p.price, ls[Len(ls)].price)
    <2>1. AddPivot(ls, p) = ls
      BY <1>4 DEF AddPivot
    <2>2. QED
      BY <2>1 DEF Extends
  <1>5. QED
    BY <1>1, <1>2, <1>3, <1>4

LEMMA ExtendsAlternates ==
    ASSUME NEW ls, Alternates(ls), NEW ls2, Extends(ls, ls2)
    PROVE  Alternates(ls2) /\ Len(ls) <= Len(ls2)
  <1>1. CASE ls2 = ls
    BY <1>1 DEF Alternates
  <1>2. ASSUME NEW p \in Leg, Len(ls) > 0 => ls[Len(ls)].kind # p.kind, ls2 = Append(ls, p)
        PROVE  Alternates(ls2) /\ Len(ls) <= Len(ls2)
    <2>1. ls2 \in Seq(Leg) /\ Len(ls2) = Len(ls) + 1 /\ Len(ls) \in Nat
      BY <1>2 DEF Alternates
    <2>2. \A i \in 1..Len(ls) : ls2[i] = ls[i]
      BY <1>2 DEF Alternates
    <2>3. ls2[Len(ls) + 1] = p
      BY <1>2 DEF Alternates
    <2>4. \A i \in 1..Len(ls2) : \A j \in 1..Len(ls2) : j = i + 1 => ls2[i].kind # ls2[j].kind
      BY <1>2, <2>1, <2>2, <2>3 DEF Alternates
    <2>5. QED
      BY <2>1, <2>4 DEF Alternates
  <1>3. ASSUME NEW p \in Leg, Len(ls) > 0, ls[Len(ls)].kind = p.kind,
               ls2 = [ls EXCEPT ![Len(ls)] = p]
        PROVE  Alternates(ls2) /\ Len(ls) <= Len(ls2)
    <2>1. ls2 \in Seq(Leg) /\ Len(ls2) = Len(ls) /\ Len(ls) \in Nat
      BY <1>3 DEF Alternates
    <2>2. \A i \in 1..Len(ls) : ls2[i].kind = ls[i].kind
      BY <1>3 DEF Alternates
    <2>3. QED
      BY <2>1, <2>2 DEF Alternates
  <1>4. QED
    BY <1>1, <1>2, <1>3 DEF Extends

LEMMA BeyondTransitive ==
    ASSUME NEW kind, NEW x \in Int, NEW y \in Int, NEW z \in Int,
           Beyond(kind, x, y), Beyond(kind, y, z)
    PROVE  Beyond(kind, x, z)
  BY DEF Beyond

\* A verdict once given stands when a pivot is added.
LEMMA StrengthStands ==
    ASSUME NEW ls, Alternates(ls), NEW ls2, Extends(ls, ls2),
           NEW i \in 1..Len(ls), Strength(ls, i) # "unresolved"
    PROVE  Strength(ls2, i) = Strength(ls, i)
  <1> USE DEF Alternates
  <1>1. i # 1 /\ i # Len(ls) /\ Len(ls) \in Nat
    BY DEF Strength
  <1>2. CASE ls2 = ls
    BY <1>2
  <1>3. ASSUME NEW p \in Leg, ls2 = Append(ls, p)
        PROVE  Strength(ls2, i) = Strength(ls, i)
    <2>1. Len(ls2) = Len(ls) + 1 /\ \A j \in 1..Len(ls) : ls2[j] = ls[j]
      BY <1>3
    <2>2. ls2[i + 1] = ls[i + 1] /\ ls2[i - 1] = ls[i - 1]
      BY <1>1, <2>1
    <2>3. QED
      BY <1>1, <2>1, <2>2 DEF Strength
  <1>4. ASSUME NEW p \in Leg, Len(ls) > 0, ls[Len(ls)].kind = p.kind,
               Beyond(p.kind, p.price, ls[Len(ls)].price),
               ls2 = [ls EXCEPT ![Len(ls)] = p]
        PROVE  Strength(ls2, i) = Strength(ls, i)
    <2>1. Len(ls2) = Len(ls) /\ \A j \in 1..(Len(ls) - 1) : ls2[j] = ls[j]
      BY <1>4
    <2>2. ls2[i - 1] = ls[i - 1]
      BY <1>1, <2>1
    <2>3. CASE i + 1 < Len(ls)
      <3>1. ls2[i + 1] = ls[i + 1]
        BY <1>1, <2>1, <2>3
      <3>2. QED
        BY <1>1, <2>1, <2>2, <3>1 DEF Strength
    <2>4. CASE i + 1 = Len(ls)
      <3>1. Beyond(ls[i + 1].kind, ls[i + 1].price, ls[i - 1].price)
        BY <1>1, <2>4 DEF Strength
      <3>2. ls2[i + 1] = p
        BY <1>4, <2>4
      <3>3. ls[i + 1] \in Leg /\ ls[i - 1] \in Leg
        BY <1>1
      <3>4. Beyond(p.kind, p.price, ls[i - 1].price)
        <4>1. ls[i + 1].price \in Int /\ ls[i - 1].price \in Int /\ p.price \in Int
          BY <3>3 DEF Leg
        <4>2. /\ Beyond(p.kind, ls[i + 1].price, ls[i - 1].price)
              /\ Beyond(p.kind, p.price, ls[i + 1].price)
          BY <1>4, <2>4, <3>1
        <4>3. QED
          BY <4>1, <4>2, BeyondTransitive
      <3>5. QED
        BY <1>1, <2>1, <2>2, <3>1, <3>2, <3>4 DEF Strength
    <2>5. QED
      BY <1>1, <2>3, <2>4
  <1>5. QED
    BY <1>2, <1>3, <1>4 DEF Extends

-----------------------------------------------------------------------------
(* The dealing range of alternating legs *)

LEMMA LegFields ==
    ASSUME NEW ls \in Seq(Leg)
    PROVE  Len(ls) \in Nat /\ \A i \in 1..Len(ls) :
                i \in Nat /\ ls[i] \in Leg /\ ls[i].price \in Int /\ ls[i].kind \in Kinds
  <1>1. \A i \in 1..Len(ls) : ls[i] \in Leg
    OBVIOUS
  <1>2. \A l \in Leg : l.price \in Int /\ l.kind \in Kinds
    BY DEF Leg
  <1>3. QED
    BY <1>1, <1>2

LEMMA NotBeyondFarther ==
    ASSUME NEW kind, NEW x \in Int, NEW y \in Int, NEW z \in Int,
           ~Beyond(kind, x, y), Beyond(kind, z, y)
    PROVE  ~Beyond(kind, x, z)
  BY DEF Beyond

LEMMA SomeFarthest ==
    ASSUME NEW ls \in Seq(Leg), NEW kind \in Kinds, NEW S \in SUBSET (1..Len(ls)), S # {}
    PROVE  \E f \in S : \A j \in S : ~Beyond(kind, ls[j].price, ls[f].price)
  <1> DEFINE Has(m) == \E f \in S : f <= m /\ \A j \in S : j <= m =>
                            ~Beyond(kind, ls[j].price, ls[f].price)
             Bad == {m \in 0..Len(ls) : (\E j \in S : j <= m) /\ ~Has(m)}
  <1>1. Len(ls) \in Nat /\ \A j \in S : ls[j].price \in Int /\ j \in Nat
    BY LegFields
  <1>2. Bad = {}
    <2>1. SUFFICES ASSUME Bad # {}
                   PROVE  FALSE
      OBVIOUS
    <2>2. PICK m \in Bad : \A y \in Bad : m <= y
      <3>1. Bad \subseteq Nat
        BY <1>1
      <3>2. QED
        <4> HIDE DEF Bad
        <4>1. QED
          BY <2>1, <3>1, LeastIndex
    <2>3. m \in Nat /\ m # 0 /\ m - 1 \in 0..Len(ls) /\ m - 1 \notin Bad
      <3>1. m \in 0..Len(ls) /\ \E j \in S : j <= m
        BY <2>2
      <3>2. m # 0
        BY <1>1, <3>1
      <3>3. m - 1 \notin Bad
        <4>1. ~(m <= m - 1)
          BY <1>1, <3>1
        <4> HIDE DEF Bad
        <4>2. QED
          BY <2>2, <4>1
      <3>4. QED
        BY <1>1, <3>1, <3>2, <3>3
    <2>4. CASE m \notin S
      <3>1. \A j \in S : j <= m => j <= m - 1
        BY <1>1, <2>3, <2>4
      <3>2. Has(m - 1)
        BY <2>2, <2>3, <3>1
      <3>3. PICK f \in S : f <= m - 1 /\ \A j \in S : j <= m - 1 =>
                            ~Beyond(kind, ls[j].price, ls[f].price)
        BY <3>2
      <3>4. f <= m
        BY <1>1, <2>3, <3>3
      <3>5. Has(m)
        BY <3>1, <3>3, <3>4
      <3>6. QED
        BY <2>2, <3>5
    <2>5. CASE m \in S /\ ~(\E j \in S : j <= m - 1)
      <3>1. \A j \in S : j <= m => j = m
        BY <1>1, <2>3, <2>5
      <3>2. ~Beyond(kind, ls[m].price, ls[m].price)
        BY <1>1, <2>5 DEF Beyond
      <3>3. Has(m)
        BY <2>3, <2>5, <3>1, <3>2
      <3>4. QED
        BY <2>2, <3>3
    <2>6. CASE m \in S /\ \E j \in S : j <= m - 1
      <3>1. Has(m - 1)
        BY <2>3, <2>6
      <3>2. PICK f \in S : f <= m - 1 /\ \A j \in S : j <= m - 1 =>
                            ~Beyond(kind, ls[j].price, ls[f].price)
        BY <3>1
      <3>3. \A j \in S : j <= m => j <= m - 1 \/ j = m
        BY <1>1, <2>3
      <3>4. CASE Beyond(kind, ls[m].price, ls[f].price)
        <4>1. \A j \in S : j <= m => ~Beyond(kind, ls[j].price, ls[m].price)
          <5>1. ASSUME NEW j \in S, j <= m - 1
                PROVE  ~Beyond(kind, ls[j].price, ls[m].price)
            <6>1. ~Beyond(kind, ls[j].price, ls[f].price)
              BY <3>2, <5>1
            <6>2. ls[j].price \in Int /\ ls[m].price \in Int /\ ls[f].price \in Int
              BY <1>1, <2>6
            <6>3. QED
              BY <3>4, <6>1, <6>2, NotBeyondFarther
          <5>2. ls[m].price \in Int
            BY <1>1, <2>6
          <5>3. ~Beyond(kind, ls[m].price, ls[m].price)
            BY <5>2 DEF Beyond
          <5>4. QED
            BY <3>3, <5>1, <5>3
        <4>2. Has(m)
          BY <2>3, <2>6, <4>1
        <4>3. QED
          BY <2>2, <4>2
      <3>5. CASE ~Beyond(kind, ls[m].price, ls[f].price)
        <4>1. \A j \in S : j <= m => ~Beyond(kind, ls[j].price, ls[f].price)
          BY <3>2, <3>3, <3>5
        <4>2. f <= m
          BY <1>1, <2>3, <3>2
        <4>3. QED
          BY <2>2, <4>1, <4>2
      <3>6. QED
        BY <3>4, <3>5
    <2>7. QED
      BY <2>4, <2>5, <2>6
  <1>3. Has(Len(ls))
    <2>1. Len(ls) \in 0..Len(ls) /\ \E j \in S : j <= Len(ls)
      BY <1>1
    <2>2. QED
      BY <1>2, <2>1
  <1>4. QED
    BY <1>1, <1>3

\* No swing after the last strong one goes beyond it: the first that did would
\* make the swing before it strong.
LEMMA AnchorHolds ==
    ASSUME NEW ls, Alternates(ls), StrongSwings(ls) # {},
           NEW i \in LastIndex(StrongSwings(ls))..Len(ls),
           ls[i].kind = ls[LastIndex(StrongSwings(ls))].kind
    PROVE  ~Beyond(ls[i].kind, ls[i].price, ls[LastIndex(StrongSwings(ls))].price)
  <1> DEFINE a == LastIndex(StrongSwings(ls))
             kind == ls[a].kind
             Over == {m \in a..Len(ls) : ls[m].kind = kind
                                          /\ Beyond(kind, ls[m].price, ls[a].price)}
  <1>1. Len(ls) \in Nat /\ \A m \in 1..Len(ls) : ls[m] \in Leg
    BY DEF Alternates
  <1>2. a \in 1..Len(ls) /\ a \in Nat /\ \A m \in StrongSwings(ls) : m <= a
    <2>1. StrongSwings(ls) \subseteq 1..Len(ls)
      BY DEF StrongSwings
    <2>2. QED
      BY <1>1, <2>1, LastIndexIs
  <1> HIDE DEF a
  <1>3. Over = {}
    <2>1. SUFFICES ASSUME Over # {}
                   PROVE  FALSE
      OBVIOUS
    <2>2. PICK m \in Over : \A y \in Over : m <= y
      <3>1. Over \subseteq Nat
        BY <1>1, <1>2
      <3>2. QED
        <4> HIDE DEF Over
        <4>1. QED
          BY <2>1, <3>1, LeastIndex
    <2>3. m \in Nat /\ m >= a /\ m <= Len(ls)
      BY <1>1, <1>2, <2>2
    <2>4. m # a
      BY <1>1, <1>2, <2>2 DEF Beyond, Leg
    <2>5. m # a + 1
      BY <1>1, <1>2, <2>2 DEF Alternates
    <2>6. m - 2 \in a..Len(ls) /\ m - 1 \in 1..Len(ls)
      BY <1>1, <1>2, <2>3, <2>4, <2>5
    <2>7. ls[m - 2].kind = kind
      <3>1. ls[m - 2].kind # ls[m - 1].kind /\ ls[m - 1].kind # ls[m].kind
        BY <1>1, <1>2, <2>3, <2>6 DEF Alternates
      <3>2. ls \in Seq(Leg) /\ m \in 1..Len(ls) /\ m - 1 \in 1..Len(ls) /\ m - 2 \in 1..Len(ls)
        BY <1>1, <1>2, <2>3, <2>6 DEF Alternates
      <3>3. ls[m].kind \in Kinds /\ ls[m - 1].kind \in Kinds /\ ls[m - 2].kind \in Kinds
        BY <3>2, LegFields
      <3>4. QED
        BY <2>2, <3>1, <3>3 DEF Kinds
    <2>8. ~Beyond(kind, ls[m - 2].price, ls[a].price)
      BY <2>2, <2>3, <2>6, <2>7
    <2>9. Beyond(kind, ls[m].price, ls[m - 2].price)
      <3>1. ls[m].price \in Int /\ ls[m - 2].price \in Int /\ ls[a].price \in Int
        <4>1. ls \in Seq(Leg)
          BY DEF Alternates
        <4>2. m \in 1..Len(ls) /\ m - 2 \in 1..Len(ls) /\ a \in 1..Len(ls)
          BY <1>1, <1>2, <2>3, <2>6
        <4>3. QED
          BY <4>1, <4>2, LegFields
      <3>2. Beyond(kind, ls[m].price, ls[a].price)
        BY <2>2
      <3>3. QED
        BY <2>8, <3>1, <3>2 DEF Beyond
    <2>10. Strength(ls, m - 1) = "strong"
      <3>1. m - 1 # 1 /\ m - 1 # Len(ls) /\ (m - 1) + 1 = m /\ (m - 1) - 1 = m - 2
        BY <1>1, <1>2, <2>3, <2>6
      <3>2. ls[m].kind = kind
        BY <2>2
      <3>3. QED
        BY <2>9, <3>1, <3>2 DEF Strength
    <2>11. QED
      BY <1>1, <1>2, <2>3, <2>4, <2>5, <2>6, <2>10 DEF StrongSwings
  <1>4. i \notin Over
    BY <1>3
  <1>5. QED
    BY <1>4 DEF a

LEMMA AlternatingRangeHolds ==
    ASSUME NEW ls, Alternates(ls), NEW range \in DealingRange(ls),
           NEW i \in range.anchor..Len(ls), NEW end \in {range.anchor, range.extreme},
           ls[i].kind = ls[end].kind
    PROVE  ~Beyond(ls[i].kind, ls[i].price, ls[end].price)
  <1> DEFINE a == LastIndex(StrongSwings(ls))
             opposite == {m \in (a + 1)..Len(ls) : ls[m].kind # ls[a].kind}
             farthest == {m \in opposite : \A j \in opposite :
                             ~Beyond(ls[m].kind, ls[j].price, ls[m].price)}
  <1>1. StrongSwings(ls) # {} /\ opposite # {}
        /\ range = [anchor |-> a, extreme |-> FirstIndex(farthest)]
    <2>1. StrongSwings(ls) # {}
      BY DEF DealingRange
    <2>2. opposite # {}
      BY <2>1 DEF DealingRange
    <2>3. QED
      BY <2>1, <2>2 DEF DealingRange
  <1>2. Len(ls) \in Nat /\ ls \in Seq(Leg) /\ \A m \in 1..Len(ls) : ls[m] \in Leg
    BY DEF Alternates
  <1>3. a \in 1..Len(ls) /\ a \in Nat
    <2>1. StrongSwings(ls) \subseteq 1..Len(ls)
      BY DEF StrongSwings
    <2>2. QED
      BY <1>1, <1>2, <2>1, LastIndexIs
  <1>4. CASE end = a
    BY <1>1, <1>4, AnchorHolds
  <1>5. CASE end = FirstIndex(farthest)
    <2> HIDE DEF a
    <2>1. opposite \in SUBSET (1..Len(ls))
      BY <1>2, <1>3
    <2>2. \A m, j \in opposite : ls[m].kind = ls[j].kind
      <3>1. \A m \in opposite : ls[m].kind \in Kinds /\ ls[m].kind # ls[a].kind
        BY <1>2, <2>1, LegFields
      <3>2. ls[a].kind \in Kinds
        BY <1>2, <1>3, LegFields
      <3>3. QED
        BY <3>1, <3>2 DEF Kinds
    <2>3. PICK o \in opposite : TRUE
      BY <1>1
    <2>4. ls[o].kind \in Kinds
      BY <1>2, <2>1, LegFields
    <2>5. PICK f \in opposite : \A j \in opposite : ~Beyond(ls[o].kind, ls[j].price, ls[f].price)
      <3> HIDE DEF opposite
      <3>1. QED
        BY <1>1, <1>2, <2>1, <2>4, SomeFarthest
    <2>6. f \in farthest
      BY <2>2, <2>5
    <2>7. farthest \subseteq Nat
      BY <1>2, <1>3
    <2>8. FirstIndex(farthest) \in farthest
      <3> HIDE DEF farthest
      <3>1. QED
        BY <2>6, <2>7, FirstIndexIs
    <2>9. end \in opposite /\ \A j \in opposite : ~Beyond(ls[end].kind, ls[j].price, ls[end].price)
      BY <1>5, <2>8
    <2>10. i \in opposite
      <3>1. range.anchor = a
        BY <1>1
      <3>2. ls[end].kind # ls[a].kind
        BY <2>9
      <3>3. QED
        BY <1>2, <1>3, <3>1, <3>2
    <2>11. QED
      BY <2>9, <2>10
  <1>6. QED
    BY <1>1, <1>4, <1>5

-----------------------------------------------------------------------------
(* The invariant: alternating legs, each a pivot of the tape, none later   *)
(* than the last bar that can be a confirmed pivot.                        *)

Dated(ls, bars, at) ==
    \A i \in 1..Len(ls) :
        /\ ls[i].time \in 1..Len(bars) /\ ls[i].time <= at
        /\ ls[i].price = Extreme(bars[ls[i].time], ls[i].kind)
        /\ \A j \in 1..Len(ls) : j = i + 1 => ls[i].time <= ls[j].time

PivotOf(p, bars, at) ==
    p \in Leg /\ p.time = at /\ p.price = Extreme(bars[at], p.kind)

TapeTyped ==
    /\ tape \in Seq(UNION {Bars[t] : t \in 1..MaxTime})
    /\ Len(tape) <= MaxTime /\ \A t \in 1..Len(tape) : tape[t] \in Bars[t]

Inv == TapeTyped /\ Alternates(legs) /\ Dated(legs, tape, Len(tape) - K)

LEMMA AddPivotDated ==
    ASSUME NEW ls, Alternates(ls), NEW bars, NEW at \in 1..Len(bars), Dated(ls, bars, at),
           NEW p, PivotOf(p, bars, at), Len(bars) \in Nat
    PROVE  Dated(AddPivot(ls, p), bars, at)
  <1> DEFINE ls2 == AddPivot(ls, p)
  <1>1. ls \in Seq(Leg) /\ p \in Leg /\ Len(ls) \in Nat
    BY LegFields DEF Alternates, PivotOf
  <1>2. \A i \in 1..Len(ls) : ls[i].time <= p.time
    BY DEF Dated, PivotOf
  <1>3. \/ ls2 = ls
        \/ ls2 = Append(ls, p)
        \/ Len(ls) > 0 /\ ls2 = [ls EXCEPT ![Len(ls)] = p]
    <2>1. Len(ls) = 0 => ls = <<>> /\ <<p>> = Append(ls, p)
      BY <1>1
    <2>2. QED
      BY <1>1, <2>1 DEF AddPivot
  <1>4. p.time \in 1..Len(bars) /\ p.time <= at /\ p.price = Extreme(bars[p.time], p.kind)
        /\ p.time \in Int
    BY DEF PivotOf
  <1> HIDE DEF ls2
  <1>5. CASE ls2 = ls
    BY <1>5 DEF ls2
  <1>6. CASE ls2 = Append(ls, p)
    <2>1. Len(ls2) = Len(ls) + 1 /\ ls2[Len(ls) + 1] = p /\ \A i \in 1..Len(ls) : ls2[i] = ls[i]
      BY <1>1, <1>6
    <2>2. ASSUME NEW i \in 1..Len(ls2)
          PROVE  /\ ls2[i].time \in 1..Len(bars) /\ ls2[i].time <= at
                 /\ ls2[i].price = Extreme(bars[ls2[i].time], ls2[i].kind)
                 /\ \A j \in 1..Len(ls2) : j = i + 1 => ls2[i].time <= ls2[j].time
      <3>1. CASE i = Len(ls) + 1
        BY <1>1, <1>4, <2>1, <3>1
      <3>2. CASE i \in 1..Len(ls)
        <4>1. ls2[i] = ls[i]
          BY <2>1, <3>2
        <4>2. \A j \in 1..Len(ls2) : j = i + 1 => (j \in 1..Len(ls) /\ ls2[j] = ls[j]) \/ ls2[j] = p
          BY <1>1, <2>1, <3>2
        <4>3. QED
          BY <1>2, <3>2, <4>1, <4>2 DEF Dated
      <3>3. QED
        BY <1>1, <2>1, <3>1, <3>2
    <2>3. QED
      BY <2>2 DEF Dated, ls2
  <1>7. CASE Len(ls) > 0 /\ ls2 = [ls EXCEPT ![Len(ls)] = p]
    <2>1. Len(ls2) = Len(ls) /\ ls2[Len(ls)] = p
          /\ \A i \in 1..Len(ls) : i # Len(ls) => ls2[i] = ls[i]
      BY <1>1, <1>7
    <2>2. ASSUME NEW i \in 1..Len(ls2)
          PROVE  /\ ls2[i].time \in 1..Len(bars) /\ ls2[i].time <= at
                 /\ ls2[i].price = Extreme(bars[ls2[i].time], ls2[i].kind)
                 /\ \A j \in 1..Len(ls2) : j = i + 1 => ls2[i].time <= ls2[j].time
      <3>1. CASE i = Len(ls)
        BY <1>1, <1>4, <2>1, <3>1
      <3>2. CASE i # Len(ls)
        <4>1. i \in 1..Len(ls) /\ ls2[i] = ls[i]
          BY <2>1, <3>2
        <4>2. \A j \in 1..Len(ls2) : j = i + 1 => j \in 1..Len(ls) /\ ls2[j] \in {ls[j], p}
          BY <2>1
        <4>3. QED
          BY <1>2, <4>1, <4>2 DEF Dated
      <3>3. QED
        BY <3>1, <3>2
    <2>3. QED
      BY <2>2 DEF Dated, ls2
  <1>8. QED
    BY <1>3, <1>5, <1>6, <1>7

\* The pivots a bar confirms are pivots of the bar K before it.
LEMMA ConfirmedPivots ==
    ASSUME NEW bars, Len(bars) \in Nat,
           \A t \in 1..Len(bars) : bars[t].low \in Int /\ bars[t].high \in Int
    PROVE  \/ Confirmed(bars) = <<>>
           \/ /\ Len(bars) - K \in 1..Len(bars)
              /\ \E p : /\ PivotOf(p, bars, Len(bars) - K)
                        /\ \/ Confirmed(bars) = <<p>>
                           \/ \E q : PivotOf(q, bars, Len(bars) - K) /\ Confirmed(bars) = <<p, q>>
  <1> DEFINE at == Len(bars) - K
  <1>1. SUFFICES ASSUME Len(bars) >= 2 * K + 1
                 PROVE  /\ at \in 1..Len(bars)
                        /\ \/ Confirmed(bars) = <<>>
                           \/ \E p : /\ PivotOf(p, bars, at)
                                    /\ \/ Confirmed(bars) = <<p>>
                                       \/ \E q : PivotOf(q, bars, at) /\ Confirmed(bars) = <<p, q>>
    BY TapeAssumption DEF Confirmed
  <1>2. at \in 1..Len(bars) /\ at \in Nat
    BY <1>1, TapeAssumption
  <1>3. Confirmed(bars) = PivotsAt(bars, at, K)
    BY <1>1, TapeAssumption DEF Confirmed
  <1>4. \A kind \in Kinds : PivotOf(Pivot(bars, at, kind), bars, at)
    BY <1>2 DEF PivotOf, Pivot, Leg, Extreme, Kinds
  <1> DEFINE low == Pivot(bars, at, "low")
             high == Pivot(bars, at, "high")
  <1>5. Confirmed(bars) \in {<<>>, <<low>>, <<high>>, <<low, high>>}
    <2> HIDE DEF low, high
    <2>1. /\ <<>> \o <<>> = <<>> /\ <<>> \o <<high>> = <<high>>
          /\ <<low>> \o <<>> = <<low>> /\ <<low>> \o <<high>> = <<low, high>>
      <3>1. low \in Leg /\ high \in Leg
        BY <1>4 DEF PivotOf, low, high, Kinds
      <3>2. <<low>> \in Seq(Leg) /\ <<high>> \in Seq(Leg) /\ <<>> \in Seq(Leg)
        BY <3>1
      <3>3. /\ <<low>> \o <<>> = <<low>> /\ <<>> \o <<high>> = <<high>> /\ <<>> \o <<>> = <<>>
        BY <3>2
      <3>4. <<low>> \o <<high>> = Append(<<low>>, high)
        BY <3>2, <3>1
      <3>5. Append(<<low>>, high) = <<low, high>>
        <4>1. <<low, high>> \in Seq(Leg) /\ Append(<<low>>, high) \in Seq(Leg)
          BY <3>1
        <4>2. Len(<<low, high>>) = 2 /\ <<low, high>>[1] = low /\ <<low, high>>[2] = high
          OBVIOUS
        <4>3. /\ Len(Append(<<low>>, high)) = 2
              /\ Append(<<low>>, high)[1] = low /\ Append(<<low>>, high)[2] = high
          BY <3>1, <3>2
        <4>4. \A i \in 1..Len(Append(<<low>>, high)) : Append(<<low>>, high)[i] = <<low, high>>[i]
          <5>1. \A i \in 1..2 : i = 1 \/ i = 2
            OBVIOUS
          <5>2. QED
            BY <4>2, <4>3, <5>1
        <4> HIDE DEF low, high
        <4>5. QED
          BY <4>1, <4>2, <4>3, <4>4, SeqEqual
      <3>6. QED
        BY <3>3, <3>4, <3>5
    <2>2. PivotsAt(bars, at, K) =
              (IF IsPivotAt(bars, at, K, "low") THEN <<low>> ELSE <<>>)
              \o (IF IsPivotAt(bars, at, K, "high") THEN <<high>> ELSE <<>>)
      BY DEF PivotsAt, low, high
    <2>3. QED
      BY <1>3, <2>1, <2>2
  <1> HIDE DEF at, low, high
  <1>6. PivotOf(low, bars, at) /\ PivotOf(high, bars, at)
    BY <1>4 DEF low, high, Kinds
  <1>7. QED
    BY <1>2, <1>5, <1>6

LEMMA AddPivotKeeps ==
    ASSUME NEW ls, Alternates(ls), NEW p \in Leg
    PROVE  /\ Alternates(AddPivot(ls, p)) /\ Len(ls) <= Len(AddPivot(ls, p))
           /\ \A i \in 1..Len(ls) : Strength(ls, i) # "unresolved" =>
                    Strength(AddPivot(ls, p), i) = Strength(ls, i)
  <1>1. Extends(ls, AddPivot(ls, p))
    BY AddPivotExtends DEF Alternates
  <1>2. QED
    BY <1>1, ExtendsAlternates, StrengthStands

\* Whatever one bar confirms keeps the legs alternating and dated, and the verdicts.
LEMMA AddPivotsKeeps ==
    ASSUME NEW ls, Alternates(ls), NEW bars, Len(bars) \in Nat,
           \A t \in 1..Len(bars) : bars[t].low \in Int /\ bars[t].high \in Int,
           Dated(ls, bars, Len(bars) - K)
    PROVE  LET ls2 == AddPivots(ls, Confirmed(bars))
           IN  /\ Alternates(ls2) /\ Dated(ls2, bars, Len(bars) - K)
               /\ Len(ls) <= Len(ls2)
               /\ \A i \in 1..Len(ls) : Strength(ls, i) # "unresolved" =>
                        Strength(ls2, i) = Strength(ls, i)
  <1> DEFINE ls2 == AddPivots(ls, Confirmed(bars))
             at == Len(bars) - K
  <1>0. Len(ls) \in Nat
    BY LegFields DEF Alternates
  <1>1. CASE Confirmed(bars) = <<>>
    <2>1. ls2 = ls
      BY <1>1 DEF AddPivots
    <2>2. QED
      BY <1>0, <2>1
  <1>2. ASSUME at \in 1..Len(bars), NEW p, PivotOf(p, bars, at), Confirmed(bars) = <<p>>
        PROVE  /\ Alternates(ls2) /\ Dated(ls2, bars, at)
               /\ Len(ls) <= Len(ls2)
               /\ \A i \in 1..Len(ls) : Strength(ls, i) # "unresolved" =>
                        Strength(ls2, i) = Strength(ls, i)
    <2>1. ls2 = AddPivot(ls, p) /\ p \in Leg
      BY <1>2 DEF AddPivots, PivotOf
    <2>2. Dated(AddPivot(ls, p), bars, at)
      BY <1>2, AddPivotDated
    <2> HIDE DEF ls2
    <2>3. QED
      BY <2>1, <2>2, AddPivotKeeps
  <1>3. ASSUME at \in 1..Len(bars), NEW p, PivotOf(p, bars, at),
               NEW q, PivotOf(q, bars, at), Confirmed(bars) = <<p, q>>
        PROVE  /\ Alternates(ls2) /\ Dated(ls2, bars, at)
               /\ Len(ls) <= Len(ls2)
               /\ \A i \in 1..Len(ls) : Strength(ls, i) # "unresolved" =>
                        Strength(ls2, i) = Strength(ls, i)
    <2> DEFINE ls1 == AddPivot(ls, p)
    <2>1. ls2 = AddPivot(ls1, q) /\ p \in Leg /\ q \in Leg
      BY <1>3 DEF AddPivots, PivotOf
    <2>2. /\ Alternates(ls1) /\ Len(ls) <= Len(ls1)
          /\ \A i \in 1..Len(ls) : Strength(ls, i) # "unresolved" => Strength(ls1, i) = Strength(ls, i)
      BY <2>1, AddPivotKeeps
    <2>3. Dated(ls1, bars, at)
      BY <1>3, AddPivotDated
    <2> HIDE DEF ls1, ls2
    <2>4. /\ Alternates(ls2) /\ Len(ls1) <= Len(ls2)
          /\ \A i \in 1..Len(ls1) : Strength(ls1, i) # "unresolved" => Strength(ls2, i) = Strength(ls1, i)
      BY <2>1, <2>2, AddPivotKeeps
    <2>5. Dated(ls2, bars, at)
      BY <1>3, <2>1, <2>2, <2>3, AddPivotDated
    <2>6. Len(ls1) \in Nat /\ Len(ls2) \in Nat
      BY <2>2, <2>4, LegFields DEF Alternates
    <2>7. QED
      BY <1>0, <2>2, <2>4, <2>5, <2>6
  <1>4. QED
    BY <1>1, <1>2, <1>3, ConfirmedPivots

\* One closed bar.
LEMMA CloseBarKeeps ==
    ASSUME Inv, CloseBar
    PROVE  /\ Inv'
           /\ \A i \in 1..Len(legs) : Strength(legs, i) # "unresolved" =>
                    Strength(legs', i) = Strength(legs, i)
  <1>1. PICK bar \in Bars[Len(tape) + 1] : tape' = Append(tape, bar)
    BY DEF CloseBar
  <1>2. Len(tape) \in Nat /\ Len(tape) + 1 \in 1..MaxTime /\ MaxTime \in Nat
    BY TapeAssumption DEF Inv, TapeTyped, CloseBar
  <1>3. TapeTyped'
    <2>1. bar \in UNION {Bars[t] : t \in 1..MaxTime}
      BY <1>2
    <2>2. QED
      BY <1>1, <1>2, <2>1 DEF Inv, TapeTyped
  <1>4. /\ Len(tape') = Len(tape) + 1 /\ \A t \in 1..Len(tape) : tape'[t] = tape[t]
    BY <1>1 DEF Inv, TapeTyped
  <1>5. \A t \in 1..Len(tape') : tape'[t].low \in Int /\ tape'[t].high \in Int
    <2>1. \A t \in 1..Len(tape') : tape'[t] \in Bars[t] /\ t \in 1..MaxTime
      BY <1>2, <1>3, <1>4 DEF TapeTyped
    <2>2. QED
      BY <2>1, TapeAssumption
  <1>6. Dated(legs, tape', Len(tape') - K)
    <2>1. \A i \in 1..Len(legs) : legs[i].time \in 1..Len(tape) /\ legs[i].time <= Len(tape) - K
      BY DEF Inv, Dated
    <2>2. \A i \in 1..Len(legs) : legs[i].time \in 1..Len(tape') /\ legs[i].time <= Len(tape') - K
                                    /\ tape'[legs[i].time] = tape[legs[i].time]
      BY <1>2, <1>4, <2>1, TapeAssumption
    <2>3. QED
      BY <2>2 DEF Inv, Dated
  <1>7. Len(tape') \in Nat
    BY <1>2, <1>4
  <1>8. Alternates(legs) /\ legs' = AddPivots(legs, Confirmed(tape'))
    BY DEF CloseBar, Inv
  <1>9. /\ Alternates(legs') /\ Dated(legs', tape', Len(tape') - K)
        /\ \A i \in 1..Len(legs) : Strength(legs, i) # "unresolved" =>
                    Strength(legs', i) = Strength(legs, i)
    BY <1>5, <1>6, <1>7, <1>8, AddPivotsKeeps
  <1>10. QED
    BY <1>3, <1>9 DEF Inv

LEMMA Invariant == Spec => []Inv
  <1>1. Init => Inv
    BY TapeAssumption DEF Init, Inv, TapeTyped, Alternates, Dated
  <1>2. Inv /\ [Next]_vars => Inv'
    <2>1. ASSUME Inv, UNCHANGED vars
          PROVE  Inv'
      BY <2>1 DEF Inv, TapeTyped, vars
    <2>2. QED
      BY <2>1, CloseBarKeeps DEF Next
  <1>3. QED
    BY <1>1, <1>2, PTL DEF Spec

-----------------------------------------------------------------------------
(* Theorems *)

\* The legs are alternating pivots of the tape in time order, for every tape.
THEOREM SwingsTyped == Spec => []TypeOK
  <1>1. Inv => TypeOK
    BY LegFields DEF Inv, TapeTyped, Alternates, Dated, TypeOK
  <1>2. QED
    BY <1>1, Invariant, PTL

\* A verdict of strength, strong or weak, is never revised (strength.ts).
THEOREM VerdictsAreFinal == Spec => StrengthFinal
  <1>1. Inv /\ [Next]_vars =>
            [\A i \in 1..Len(legs) : Strength(legs, i) # "unresolved" =>
                 Strength(legs', i) = Strength(legs, i)]_vars
    BY CloseBarKeeps DEF Next
  <1>2. QED
    BY <1>1, Invariant, PTL DEF Spec, StrengthFinal

\* No swing after the anchor leaves the dealing range on its own side
\* (equilibrium.ts).
THEOREM DealingRangeHolds == Spec => []RangeHolds
  <1>1. Inv => RangeHolds
    BY AlternatingRangeHolds DEF Inv, RangeHolds
  <1>2. QED
    BY <1>1, Invariant, PTL

-----------------------------------------------------------------------------
(* Recursions along a sequence *)

\* Induction over the indices 0..n, for a set of them: the least index outside the
\* set would follow one inside it.
LEMMA Induction ==
    ASSUME NEW n \in Nat, NEW T, 0 \in T, \A i \in 0..(n - 1) : i \in T => i + 1 \in T
    PROVE  \A i \in 0..n : i \in T
<1> DEFINE Bad == (0..n) \ T
<1>1. SUFFICES ASSUME Bad # {} PROVE FALSE
  OBVIOUS
<1>2. PICK m \in Bad : \A y \in Bad : m <= y
  <2>1. Bad \subseteq Nat
    OBVIOUS
  <2> HIDE DEF Bad
  <2> QED
    BY <1>1, <2>1, LeastIndex
<1>3. m \in 1..n /\ m \notin T
  BY <1>2
<1>4. m - 1 \in 0..(n - 1) /\ m - 1 \notin Bad
  BY <1>2, <1>3
<1>5. m - 1 \in T /\ (m - 1) + 1 = m
  BY <1>3, <1>4
<1> QED
  BY <1>3, <1>4, <1>5

\* A recursion along 0..n, each step from the value before, has a solution.
FoldsTo(f, n, S, first, step) ==
    f \in [0..n -> S] /\ f[0] = first /\ \A i \in 1..n : f[i] = step[i][f[i - 1]]

\* Such a recursion has a solution: by induction on its length.
LEMMA FoldExists ==
    ASSUME NEW n \in Nat, NEW S, NEW first \in S, NEW step \in [1..n -> [S -> S]]
    PROVE  \E f : FoldsTo(f, n, S, first, step)
<1> DEFINE Solves(f, m) ==
        f \in [0..m -> S] /\ f[0] = first /\ \A i \in 1..m : f[i] = step[i][f[i - 1]]
           T == {m \in 0..n : \E f : Solves(f, m)}
<1>1. 0 \in T
  <2>1. Solves([i \in 0..0 |-> first], 0)
    OBVIOUS
  <2> HIDE DEF Solves
  <2> QED
    BY <2>1
<1>2. ASSUME NEW m \in 0..(n - 1), m \in T PROVE m + 1 \in T
  <2>1. PICK f : Solves(f, m)
    BY <1>2
  <2> DEFINE g == [i \in 0..(m + 1) |-> IF i <= m THEN f[i] ELSE step[m + 1][f[m]]]
  <2>2. step[m + 1][f[m]] \in S
    BY <1>2, <2>1
  <2>3. Solves(g, m + 1)
    BY <1>2, <2>1, <2>2
  <2> HIDE DEF Solves, g
  <2> QED
    BY <1>2, <2>3
<1>3. \A m \in 0..n : m \in T
  <2> HIDE DEF T
  <2> QED
    BY <1>1, <1>2, Induction
<1>4. n \in 0..n
  OBVIOUS
<1> QED
  BY <1>3, <1>4 DEF FoldsTo

-----------------------------------------------------------------------------
\* Adding a pivot to swings gives swings.
LEMMA AddPivotType ==
    ASSUME NEW ls \in Seq(Leg), NEW p \in Leg PROVE AddPivot(ls, p) \in Seq(Leg)
<1>1. \/ AddPivot(ls, p) \in {ls, <<p>>, Append(ls, p)}
      \/ Len(ls) # 0 /\ AddPivot(ls, p) = [ls EXCEPT ![Len(ls)] = p]
  BY DEF AddPivot
<1>2. <<p>> \in Seq(Leg) /\ Append(ls, p) \in Seq(Leg)
  OBVIOUS
<1>3. CASE Len(ls) # 0 /\ AddPivot(ls, p) = [ls EXCEPT ![Len(ls)] = p]
  <2>1. Len(ls) \in 1..Len(ls)
    BY <1>3
  <2> QED
    BY <1>3, <2>1, ExceptSeq
<1> QED
  BY <1>1, <1>2, <1>3

\* f does what ToAlternatingSwings does with the first pivots.
SwingsOf(f, ps) ==
    /\ f \in [0..Len(ps) -> Seq(Leg)]
    /\ f[0] = <<>>
    /\ \A i \in 1..Len(ps) : f[i] = AddPivot(f[i - 1], ps[i])

\* toAlternatingSwings is the last value of that recursion.
LEMMA SwingsFold ==
    ASSUME NEW ps \in Seq(Leg)
    PROVE  \E f : SwingsOf(f, ps) /\ ToAlternatingSwings(ps) = f[Len(ps)]
<1> DEFINE P(f) == f = [i \in 0..Len(ps) |->
                          IF i = 0 THEN <<>> ELSE AddPivot(f[i - 1], ps[i])]
           step == [i \in 1..Len(ps) |-> [ls \in Seq(Leg) |-> AddPivot(ls, ps[i])]]
<1>1. step \in [1..Len(ps) -> [Seq(Leg) -> Seq(Leg)]]
  <2>1. \A i \in 1..Len(ps) : ps[i] \in Leg
    OBVIOUS
  <2>2. \A i \in 1..Len(ps) : [ls \in Seq(Leg) |-> AddPivot(ls, ps[i])] \in [Seq(Leg) -> Seq(Leg)]
    BY <2>1, AddPivotType
  <2> QED
    BY <2>2
<1>2. PICK f \in [0..Len(ps) -> Seq(Leg)] :
          f[0] = <<>> /\ \A i \in 1..Len(ps) : f[i] = step[i][f[i - 1]]
  <2>1. <<>> \in Seq(Leg)
    BY EmptySeq
  <2>2. Len(ps) \in Nat
    OBVIOUS
  <2> DEFINE S == Seq(Leg)
             n == Len(ps)
             first == <<>>
  <2>3. step \in [1..n -> [S -> S]] /\ n \in Nat /\ first \in S
    BY <1>1, <2>1, <2>2
  <2> HIDE DEF step, S, n, first
  <2>4. \E f : FoldsTo(f, n, S, first, step)
    BY <2>3, FoldExists
  <2> QED
    BY <2>4 DEF FoldsTo, S, n, first
<1>3. \A i \in 1..Len(ps) : i - 1 \in 0..Len(ps)
  OBVIOUS
<1>4. SwingsOf(f, ps)
  BY <1>2, <1>3 DEF SwingsOf
<1>5. P(f)
  BY <1>4 DEF SwingsOf
<1>6. ToAlternatingSwings(ps) = (CHOOSE g : P(g))[Len(ps)]
  BY DEF ToAlternatingSwings
<1>7. P(CHOOSE g : P(g))
  <2> HIDE DEF P
  <2> QED
    BY <1>5
<1> DEFINE h == CHOOSE g : P(g)
<1>8. h = [i \in 0..Len(ps) |-> IF i = 0 THEN <<>> ELSE AddPivot(h[i - 1], ps[i])]
  BY <1>7
<1> HIDE DEF h
<1>9. \A i \in 0..Len(ps) : h[i] = f[i]
  <2> DEFINE T == {i \in 0..Len(ps) : h[i] = f[i]}
  <2>1. 0 \in T
    BY <1>4, <1>8 DEF SwingsOf
  <2>2. ASSUME NEW i \in 0..(Len(ps) - 1), i \in T PROVE i + 1 \in T
    <3>1. i + 1 \in 1..Len(ps) /\ i + 1 # 0 /\ (i + 1) - 1 = i /\ i + 1 \in 0..Len(ps)
      BY <2>2
    <3>2. h[i + 1] = AddPivot(h[i], ps[i + 1])
      BY <1>8, <3>1
    <3>3. f[i + 1] = AddPivot(f[i], ps[i + 1])
      BY <1>4, <3>1 DEF SwingsOf
    <3> QED
      BY <2>2, <3>1, <3>2, <3>3
  <2>3. Len(ps) \in Nat
    OBVIOUS
  <2> HIDE DEF T
  <2>4. \A i \in 0..Len(ps) : i \in T
    BY <2>1, <2>2, <2>3, Induction
  <2> QED
    BY <2>4 DEF T
<1>10. Len(ps) \in 0..Len(ps)
  OBVIOUS
<1> QED
  BY <1>4, <1>6, <1>9, <1>10 DEF h

\* One pivot more is one AddPivot more.
LEMMA SwingsAppend ==
    ASSUME NEW ps \in Seq(Leg), NEW p \in Leg
    PROVE  ToAlternatingSwings(Append(ps, p)) = AddPivot(ToAlternatingSwings(ps), p)
<1> DEFINE qs == Append(ps, p)
<1>1. /\ qs \in Seq(Leg) /\ Len(qs) = Len(ps) + 1 /\ Len(ps) \in Nat
      /\ qs[Len(qs)] = p /\ \A i \in 1..Len(ps) : qs[i] = ps[i]
  OBVIOUS
<1> HIDE DEF qs
<1>2. PICK f : SwingsOf(f, ps) /\ ToAlternatingSwings(ps) = f[Len(ps)]
  BY SwingsFold
<1>3. PICK g : SwingsOf(g, qs) /\ ToAlternatingSwings(qs) = g[Len(qs)]
  BY <1>1, SwingsFold
<1>4. \A i \in 0..Len(ps) : g[i] = f[i]
  <2> DEFINE T == {i \in 0..Len(ps) : g[i] = f[i]}
  <2>1. 0 \in T
    BY <1>1, <1>2, <1>3 DEF SwingsOf
  <2>2. ASSUME NEW i \in 0..(Len(ps) - 1), i \in T PROVE i + 1 \in T
    <3>1. i + 1 \in 1..Len(ps) /\ (i + 1) - 1 = i /\ i + 1 \in 1..Len(qs) /\ qs[i + 1] = ps[i + 1]
      BY <1>1, <2>2
    <3>2. f[i + 1] = AddPivot(f[i], ps[i + 1]) /\ g[i + 1] = AddPivot(g[i], ps[i + 1])
      BY <1>2, <1>3, <3>1 DEF SwingsOf
    <3> QED
      BY <2>2, <3>1, <3>2
  <2> HIDE DEF T
  <2>3. \A i \in 0..Len(ps) : i \in T
    BY <1>1, <2>1, <2>2, Induction
  <2> QED
    BY <2>3 DEF T
<1>5. g[Len(qs)] = AddPivot(g[Len(ps)], p)
  <2>1. Len(qs) \in 1..Len(qs) /\ Len(qs) - 1 = Len(ps)
    BY <1>1
  <2> QED
    BY <1>1, <1>3, <2>1 DEF SwingsOf
<1> QED
  BY <1>1, <1>2, <1>3, <1>4, <1>5 DEF qs

-----------------------------------------------------------------------------
(* The pivots of a tape *)

\* A tape of the bars the program can be given.
IsTape(bars) ==
    /\ Len(bars) \in Nat
    /\ \A t \in 1..Len(bars) : bars[t].low \in Int /\ bars[t].high \in Int

\* The pivots of a bar are legs, and at most one of each kind.
LEMMA PivotsAtType ==
    ASSUME NEW bars, IsTape(bars), NEW i \in 1..Len(bars), NEW k
    PROVE  PivotsAt(bars, i, k) \in Seq(Leg)
<1>1. i \in Nat
  BY DEF IsTape
<1>2. Pivot(bars, i, "low") \in Leg /\ Pivot(bars, i, "high") \in Leg
  BY <1>1 DEF Pivot, Leg, Extreme, Kinds, IsTape
<1> DEFINE low == Pivot(bars, i, "low")
           high == Pivot(bars, i, "high")
<1>3. <<>> \in Seq(Leg) /\ <<low>> \in Seq(Leg) /\ <<high>> \in Seq(Leg)
  <2> HIDE DEF low, high
  <2>1. low \in Leg /\ high \in Leg
    BY <1>2 DEF low, high
  <2>2. <<low>> \in Seq(Leg) /\ <<high>> \in Seq(Leg)
    BY <2>1
  <2> QED
    BY <2>2, EmptySeq
<1> HIDE DEF low, high
<1>4. PivotsAt(bars, i, k) =
        (IF IsPivotAt(bars, i, k, "low") THEN <<low>> ELSE <<>>)
        \o (IF IsPivotAt(bars, i, k, "high") THEN <<high>> ELSE <<>>)
  BY DEF PivotsAt, low, high
<1> QED
  BY <1>3, <1>4, ConcatProperties

\* f does what computePivots does with the first bars.
PivotsOf(f, bars) ==
    /\ f \in [K..Len(bars) -> Seq(Leg)]
    /\ f[K] = <<>>
    /\ \A i \in (K + 1)..Len(bars) : f[i] = f[i - 1] \o PivotsAt(bars, i, K)

\* computePivots is the last value of that recursion.
LEMMA PivotsFold ==
    ASSUME NEW bars, IsTape(bars), Len(bars) >= 2 * K + 1
    PROVE  \E f : PivotsOf(f, bars) /\ ComputePivots(bars, K) = f[Len(bars) - K]
<1> DEFINE P(f) == f = [i \in K..Len(bars) |->
                          IF i = K THEN <<>> ELSE f[i - 1] \o PivotsAt(bars, i, K)]
           n == Len(bars) - K
           S == Seq(Leg)
           first == <<>>
           step == [i \in 1..n |-> [ls \in S |-> ls \o PivotsAt(bars, i + K, K)]]
<1>1. Len(bars) \in Nat /\ K \in Nat /\ n \in Nat
  BY TapeAssumption DEF IsTape
<1>2. \A i \in 1..n : i + K \in 1..Len(bars)
  BY <1>1
<1>3. step \in [1..n -> [S -> S]]
  <2>1. \A i \in 1..n : \A ls \in S : ls \o PivotsAt(bars, i + K, K) \in S
    BY <1>2, PivotsAtType, ConcatProperties
  <2> QED
    BY <2>1
<1>4. first \in S
  BY EmptySeq
<1>5. PICK g : FoldsTo(g, n, S, first, step)
  <2> HIDE DEF step, S, n, first
  <2> QED
    BY <1>1, <1>3, <1>4, FoldExists
<1> DEFINE f == [i \in K..Len(bars) |-> g[i - K]]
<1>6. PivotsOf(f, bars)
  <2>1. g \in [0..n -> S] /\ g[0] = <<>>
    BY <1>5 DEF FoldsTo
  <2>2. \A i \in K..Len(bars) : i - K \in 0..n
    BY <1>1
  <2>3. f \in [K..Len(bars) -> S] /\ K \in K..Len(bars) /\ K - K = 0
    BY <1>1, <2>1, <2>2
  <2>4. ASSUME NEW i \in (K + 1)..Len(bars)
        PROVE  f[i] = f[i - 1] \o PivotsAt(bars, i, K)
    <3>1. /\ i - K \in 1..n /\ (i - K) + K = i /\ (i - 1) - K = (i - K) - 1
          /\ i - 1 \in K..Len(bars) /\ i \in K..Len(bars) /\ (i - K) - 1 \in 0..n
      BY <1>1
    <3>2. g[i - K] = step[i - K][g[(i - K) - 1]] /\ g[(i - K) - 1] \in S
      BY <1>5, <3>1 DEF FoldsTo
    <3>3. step[i - K][g[(i - K) - 1]] = g[(i - K) - 1] \o PivotsAt(bars, (i - K) + K, K)
      BY <3>1, <3>2
    <3> QED
      BY <3>1, <3>2, <3>3
  <2>5. f[K] = <<>>
    BY <2>1, <2>3
  <2> HIDE DEF f
  <2> QED
    BY <2>3, <2>4, <2>5 DEF PivotsOf
<1> HIDE DEF f
<1>7. P(f)
  <2>1. f \in [K..Len(bars) -> S]
    BY <1>6 DEF PivotsOf
  <2>2. \A i \in K..Len(bars) : i # K => i \in (K + 1)..Len(bars)
    BY <1>1
  <2>3. \A i \in K..Len(bars) : f[i] = IF i = K THEN <<>> ELSE f[i - 1] \o PivotsAt(bars, i, K)
    BY <1>6, <2>2 DEF PivotsOf
  <2> QED
    BY <2>1, <2>3
<1>8. P(CHOOSE h : P(h))
  <2> HIDE DEF P
  <2> QED
    BY <1>7
<1>9. ComputePivots(bars, K) = (CHOOSE h : P(h))[Len(bars) - K]
  <2>1. ~(Len(bars) < 2 * K + 1)
    BY <1>1
  <2> QED
    BY <2>1 DEF ComputePivots
<1> DEFINE h == CHOOSE h : P(h)
<1>10. h = [i \in K..Len(bars) |-> IF i = K THEN <<>> ELSE h[i - 1] \o PivotsAt(bars, i, K)]
  BY <1>8
<1> HIDE DEF h
<1>11. \A i \in 0..n : h[i + K] = f[i + K]
  <2> DEFINE T == {i \in 0..n : h[i + K] = f[i + K]}
  <2>1. 0 \in T
    BY <1>1, <1>6, <1>10 DEF PivotsOf
  <2>2. ASSUME NEW i \in 0..(n - 1), i \in T PROVE i + 1 \in T
    <3>1. /\ (i + 1) + K \in (K + 1)..Len(bars) /\ (i + 1) + K # K /\ ((i + 1) + K) - 1 = i + K
          /\ (i + 1) + K \in K..Len(bars) /\ i + 1 \in 0..n
      BY <1>1, <2>2
    <3>2. h[(i + 1) + K] = h[((i + 1) + K) - 1] \o PivotsAt(bars, (i + 1) + K, K)
      BY <1>10, <3>1
    <3>3. f[(i + 1) + K] = f[((i + 1) + K) - 1] \o PivotsAt(bars, (i + 1) + K, K)
      BY <1>6, <3>1 DEF PivotsOf
    <3> QED
      BY <2>2, <3>1, <3>2, <3>3
  <2> HIDE DEF T, n
  <2>4. \A i \in 0..n : i \in T
    BY <1>1, <2>1, <2>2, Induction
  <2> QED
    BY <2>4 DEF T
<1>12. n - K \in 0..n /\ (n - K) + K = Len(bars) - K
  BY <1>1
<1> QED
  BY <1>6, <1>9, <1>11, <1>12 DEF h

-----------------------------------------------------------------------------
(* The legs kept bar by bar are those of the whole pass *)

\* A tape that goes on: the pivots of a bar K bars from the end are what they were.
GoesOn(bars, bars2) ==
    /\ IsTape(bars) /\ IsTape(bars2) /\ Len(bars2) = Len(bars) + 1
    /\ \A t \in 1..Len(bars) : bars2[t] = bars[t]

\* Whether a bar is a pivot does not change once K bars follow it.
LEMMA PivotStands ==
    ASSUME NEW bars, NEW bars2, GoesOn(bars, bars2), NEW i \in (K + 1)..(Len(bars) - K), NEW kind
    PROVE  IsPivotAt(bars2, i, K, kind) <=> IsPivotAt(bars, i, K, kind)
<1>1. \A j \in (i - K)..(i + K) : j \in 1..Len(bars) /\ bars2[j] = bars[j]
  BY TapeAssumption DEF GoesOn, IsTape
<1>2. i \in 1..Len(bars) /\ bars2[i] = bars[i]
  BY TapeAssumption DEF GoesOn, IsTape
<1>3. \A j \in (i - K)..(i + K) : Extreme(bars2[j], kind) = Extreme(bars[j], kind)
  BY <1>1
<1>4. Extreme(bars2[i], kind) = Extreme(bars[i], kind)
  BY <1>2
<1> QED
  BY <1>3, <1>4 DEF IsPivotAt

\* So the pivots of such a bar do not change either.
LEMMA PivotsStand ==
    ASSUME NEW bars, NEW bars2, GoesOn(bars, bars2), NEW i \in (K + 1)..(Len(bars) - K)
    PROVE  PivotsAt(bars2, i, K) = PivotsAt(bars, i, K)
<1>1. bars2[i] = bars[i]
  BY TapeAssumption DEF GoesOn, IsTape
<1>2. \A kind : Pivot(bars2, i, kind) = Pivot(bars, i, kind)
  BY <1>1 DEF Pivot
<1> QED
  BY <1>2, PivotStands DEF PivotsAt

\* The pivots of the longer tape are those of the shorter and the newly confirmed.
LEMMA PivotsAppend ==
    ASSUME NEW bars, NEW bars2, GoesOn(bars, bars2)
    PROVE  /\ ComputePivots(bars, K) \in Seq(Leg)
           /\ Confirmed(bars2) \in Seq(Leg)
           /\ ComputePivots(bars2, K) = ComputePivots(bars, K) \o Confirmed(bars2)
<1>1. Len(bars) \in Nat /\ Len(bars2) = Len(bars) + 1 /\ K \in Nat \ {0}
  BY TapeAssumption DEF GoesOn, IsTape
<1>2. IsTape(bars) /\ IsTape(bars2)
  BY DEF GoesOn
<1>3. CASE Len(bars2) < 2 * K + 1
  <2>1. ComputePivots(bars2, K) = <<>> /\ ComputePivots(bars, K) = <<>> /\ Confirmed(bars2) = <<>>
    BY <1>1, <1>3 DEF ComputePivots, Confirmed
  <2>2. <<>> \in Seq(Leg)
    BY EmptySeq
  <2> QED
    BY <2>1, <2>2, ConcatEmptySeq
<1>4. CASE Len(bars2) >= 2 * K + 1
  <2>1. PICK g : PivotsOf(g, bars2) /\ ComputePivots(bars2, K) = g[Len(bars2) - K]
    BY <1>2, <1>4, PivotsFold
  <2>2. /\ Len(bars2) - K \in (K + 1)..Len(bars2) /\ (Len(bars2) - K) - 1 = Len(bars) - K
        /\ Len(bars2) - K \in 1..Len(bars2) /\ Len(bars) - K \in K..Len(bars2)
    BY <1>1, <1>4
  <2>3. Confirmed(bars2) = PivotsAt(bars2, Len(bars2) - K, K)
    BY <1>1, <1>4 DEF Confirmed
  <2>4. Confirmed(bars2) \in Seq(Leg)
    BY <1>2, <2>2, <2>3, PivotsAtType
  <2>5. g[Len(bars2) - K] = g[Len(bars) - K] \o Confirmed(bars2)
    BY <2>1, <2>2, <2>3 DEF PivotsOf
  <2>6. g[Len(bars) - K] \in Seq(Leg)
    BY <2>1, <2>2 DEF PivotsOf
  <2>7. ComputePivots(bars, K) = g[Len(bars) - K]
    <3>1. CASE Len(bars) < 2 * K + 1
      <4>1. Len(bars) - K = K
        BY <1>1, <1>4, <3>1
      <4>2. ComputePivots(bars, K) = <<>>
        BY <3>1 DEF ComputePivots
      <4> QED
        BY <2>1, <4>1, <4>2 DEF PivotsOf
    <3>2. CASE Len(bars) >= 2 * K + 1
      <4>1. PICK f : PivotsOf(f, bars) /\ ComputePivots(bars, K) = f[Len(bars) - K]
        BY <1>2, <3>2, PivotsFold
      <4> DEFINE n == Len(bars) - 2 * K
                 T == {i \in 0..n : g[i + K] = f[i + K]}
      <4>2. n \in Nat /\ n + K = Len(bars) - K /\ n \in 0..n /\ 0 + K = K
        BY <1>1, <3>2
      <4>3. 0 \in T
        BY <2>1, <4>1, <4>2 DEF PivotsOf
      <4>4. ASSUME NEW i \in 0..(n - 1), i \in T PROVE i + 1 \in T
        <5>1. /\ (i + 1) + K \in (K + 1)..Len(bars2) /\ (i + 1) + K \in (K + 1)..Len(bars)
              /\ (i + 1) + K \in (K + 1)..(Len(bars) - K) /\ ((i + 1) + K) - 1 = i + K
              /\ i + 1 \in 0..n
          BY <1>1, <3>2, <4>4
        <5>2. g[(i + 1) + K] = g[((i + 1) + K) - 1] \o PivotsAt(bars2, (i + 1) + K, K)
          BY <2>1, <5>1 DEF PivotsOf
        <5>3. f[(i + 1) + K] = f[((i + 1) + K) - 1] \o PivotsAt(bars, (i + 1) + K, K)
          BY <4>1, <5>1 DEF PivotsOf
        <5>4. PivotsAt(bars2, (i + 1) + K, K) = PivotsAt(bars, (i + 1) + K, K)
          BY <5>1, PivotsStand
        <5> QED
          BY <4>4, <5>1, <5>2, <5>3, <5>4
      <4>5. \A i \in 0..n : i \in T
        <5> HIDE DEF T, n
        <5> QED
          BY <4>2, <4>3, <4>4, Induction
      <4> HIDE DEF n
      <4> QED
        BY <4>1, <4>2, <4>5
    <3> QED
      BY <1>1, <3>1, <3>2
  <2> QED
    BY <2>1, <2>4, <2>5, <2>6, <2>7
<1> QED
  BY <1>1, <1>3, <1>4

\* AddPivots does with a bar's pivots what the whole pass does.
LEMMA AddPivotsFolds ==
    ASSUME NEW ps \in Seq(Leg), NEW pivots \in Seq(Leg), Len(pivots) <= 2
    PROVE  ToAlternatingSwings(ps \o pivots) = AddPivots(ToAlternatingSwings(ps), pivots)
<1>0. Len(ps) \in Nat /\ Len(pivots) \in Nat
  BY LenProperties
<1>1. CASE Len(pivots) = 0
  <2>1. pivots = <<>>
    BY <1>1
  <2>2. ps \o pivots = ps
    BY <2>1, ConcatEmptySeq
  <2> QED
    BY <2>1, <2>2 DEF AddPivots
<1>2. CASE Len(pivots) = 1
  <2>1. pivots # <<>> /\ pivots[1] \in Leg
    <3>1. 1 \in 1..Len(pivots)
      BY <1>2
    <3> QED
      BY <1>2, <3>1, ElementOfSeq, EmptySeq
  <2>2. ps \o pivots = Append(ps, pivots[1])
    <3>1. ps \o pivots \in Seq(Leg) /\ Append(ps, pivots[1]) \in Seq(Leg)
      BY <2>1
    <3>2. \A i \in 1..Len(ps \o pivots) : (ps \o pivots)[i] = Append(ps, pivots[1])[i]
      BY <1>2, <2>1, ConcatProperties
    <3>3. Len(ps \o pivots) = Len(Append(ps, pivots[1]))
      BY <1>2, <2>1, ConcatProperties, AppendProperties
    <3> QED
      BY <3>1, <3>2, <3>3, SeqEqual
  <2> QED
    BY <1>2, <2>1, <2>2, SwingsAppend DEF AddPivots
<1>3. CASE Len(pivots) = 2
  <2>1. pivots # <<>> /\ pivots[1] \in Leg /\ pivots[2] \in Leg /\ Len(pivots) # 1
    <3>1. 1 \in 1..Len(pivots) /\ 2 \in 1..Len(pivots)
      BY <1>3
    <3> QED
      BY <1>3, <3>1, ElementOfSeq, EmptySeq, SMTT(40)
  <2> DEFINE qs == Append(ps, pivots[1])
             rs == Append(qs, pivots[2])
  <2>2. /\ qs \in Seq(Leg) /\ Len(qs) = Len(ps) + 1 /\ qs[Len(ps) + 1] = pivots[1]
        /\ \A i \in 1..Len(ps) : qs[i] = ps[i]
    BY <2>1, AppendProperties
  <2>3. /\ rs \in Seq(Leg) /\ Len(rs) = Len(qs) + 1 /\ rs[Len(qs) + 1] = pivots[2]
        /\ \A i \in 1..Len(qs) : rs[i] = qs[i]
    <3> HIDE DEF qs
    <3> QED
      BY <2>1, <2>2, AppendProperties
  <2>4. ps \o pivots = rs
    <3>1. /\ ps \o pivots \in Seq(Leg) /\ Len(ps \o pivots) = Len(ps) + 2
          /\ \A i \in 1..(Len(ps) + 2) : (ps \o pivots)[i] =
                 IF i <= Len(ps) THEN ps[i] ELSE pivots[i - Len(ps)]
      <4>1. Len(ps) + Len(pivots) = Len(ps) + 2
        BY <1>3
      <4> QED
        BY <4>1, ConcatProperties
    <3> HIDE DEF rs, qs
    <3>2. Len(ps) \in Nat /\ Len(rs) = Len(ps) + 2
      BY <2>2, <2>3
    <3>3. \A i \in 1..(Len(ps) + 2) : (ps \o pivots)[i] = rs[i]
      <4>1. ASSUME NEW i \in 1..(Len(ps) + 2) PROVE (ps \o pivots)[i] = rs[i]
        <5>1. CASE i \in 1..Len(ps)
          <6>1. (ps \o pivots)[i] = ps[i]
            BY <3>1, <3>2, <5>1
          <6>2. rs[i] = qs[i] /\ qs[i] = ps[i]
            BY <2>2, <2>3, <3>2, <5>1
          <6> QED
            BY <6>1, <6>2
        <5>2. CASE i = Len(ps) + 1
          <6>1. (ps \o pivots)[i] = pivots[1]
            <7>1. ~(i <= Len(ps)) /\ i - Len(ps) = 1
              BY <3>2, <5>2
            <7> QED
              BY <3>1, <7>1
          <6>2. rs[i] = pivots[1]
            BY <2>2, <2>3, <3>2, <5>2
          <6> QED
            BY <6>1, <6>2
        <5>3. CASE i = Len(ps) + 2
          <6>1. (ps \o pivots)[i] = pivots[2]
            <7>1. ~(i <= Len(ps)) /\ i - Len(ps) = 2
              BY <3>2, <5>3
            <7> QED
              BY <3>1, <7>1
          <6>2. rs[i] = pivots[2]
            BY <2>2, <2>3, <3>2, <5>3
          <6> QED
            BY <6>1, <6>2
        <5>4. i \in 1..Len(ps) \/ i = Len(ps) + 1 \/ i = Len(ps) + 2
          BY <1>0
        <5> QED
          BY <5>1, <5>2, <5>3, <5>4
      <4> QED
        BY <4>1
    <3> QED
      BY <2>3, <3>1, <3>2, <3>3, SeqEqual
  <2> HIDE DEF qs
  <2>5. ToAlternatingSwings(rs) = AddPivot(ToAlternatingSwings(qs), pivots[2])
    BY <2>1, <2>2, SwingsAppend
  <2>6. ToAlternatingSwings(qs) = AddPivot(ToAlternatingSwings(ps), pivots[1])
    BY <2>1, SwingsAppend DEF qs
  <2> QED
    BY <2>1, <2>4, <2>5, <2>6 DEF AddPivots
<1>4. Len(pivots) = 0 \/ Len(pivots) = 1 \/ Len(pivots) = 2
  <2>1. \A m \in Nat : m <= 2 => m = 0 \/ m = 1 \/ m = 2
    OBVIOUS
  <2> QED
    BY <1>0, <2>1
<1> QED
  BY <1>1, <1>2, <1>3, <1>4

\* A closing bar confirms a low and a high at most.
LEMMA ConfirmedShort ==
    ASSUME NEW bars, IsTape(bars) PROVE Confirmed(bars) \in Seq(Leg) /\ Len(Confirmed(bars)) <= 2
<1>1. CASE Confirmed(bars) = <<>>
  BY <1>1, EmptySeq
<1>2. ASSUME NEW p, NEW at, PivotOf(p, bars, at), Confirmed(bars) = <<p>>
      PROVE  Confirmed(bars) \in Seq(Leg) /\ Len(Confirmed(bars)) <= 2
  BY <1>2 DEF PivotOf
<1>3. ASSUME NEW p, NEW q, NEW at, PivotOf(p, bars, at), PivotOf(q, bars, at),
             Confirmed(bars) = <<p, q>>
      PROVE  Confirmed(bars) \in Seq(Leg) /\ Len(Confirmed(bars)) <= 2
  BY <1>3 DEF PivotOf
<1> QED
  BY <1>1, <1>2, <1>3, ConfirmedPivots DEF IsTape

\* The tape of the model is one.
LEMMA TapeIsTape == ASSUME Inv PROVE IsTape(tape)
<1>1. Len(tape) \in Nat /\ \A t \in 1..Len(tape) : tape[t] \in Bars[t] /\ t \in 1..MaxTime
  BY TapeAssumption DEF Inv, TapeTyped
<1> QED
  BY <1>1, TapeAssumption DEF IsTape

\* A closing bar makes it go on.
LEMMA TapeGoesOn == ASSUME Inv, Inv', CloseBar PROVE GoesOn(tape, tape')
<1>1. PICK bar \in Bars[Len(tape) + 1] : tape' = Append(tape, bar)
  BY DEF CloseBar
<1>2. Len(tape') = Len(tape) + 1 /\ \A t \in 1..Len(tape) : tape'[t] = tape[t]
  BY <1>1 DEF Inv, TapeTyped
<1>3. IsTape(tape')
  <2>1. /\ Len(tape') \in Nat
        /\ \A t \in 1..Len(tape') : tape'[t] \in Bars[t] /\ t \in 1..MaxTime
    BY TapeAssumption DEF Inv, TapeTyped
  <2> QED
    BY <2>1, TapeAssumption DEF IsTape
<1> QED
  BY <1>2, <1>3, TapeIsTape DEF GoesOn

\* The legs kept bar by bar stay those of the whole pass.
LEMMA ReplayStep == ASSUME Inv, Inv', LegsReplayed, [Next]_vars PROVE LegsReplayed'
<1>1. CASE UNCHANGED vars
  BY <1>1 DEF vars, LegsReplayed
<1>2. CASE CloseBar
  <2>1. GoesOn(tape, tape')
    BY <1>2, TapeGoesOn
  <2>2. /\ ComputePivots(tape, K) \in Seq(Leg)
        /\ ComputePivots(tape', K) = ComputePivots(tape, K) \o Confirmed(tape')
    BY <2>1, PivotsAppend
  <2>3. Confirmed(tape') \in Seq(Leg) /\ Len(Confirmed(tape')) <= 2
    BY <2>1, ConfirmedShort DEF GoesOn
  <2>4. legs' = AddPivots(legs, Confirmed(tape'))
    BY <1>2 DEF CloseBar
  <2> QED
    BY <2>2, <2>3, <2>4, AddPivotsFolds DEF LegsReplayed
<1> QED
  BY <1>1, <1>2 DEF Next

\* They are at the start: no bar, no pivot, no leg.
LEMMA ReplayStart == Init => LegsReplayed
<1> SUFFICES ASSUME Init PROVE LegsReplayed
  OBVIOUS
<1>1. ComputePivots(tape, K) = <<>>
  BY TapeAssumption DEF Init, ComputePivots
<1>2. PICK f : SwingsOf(f, <<>>) /\ ToAlternatingSwings(<<>>) = f[Len(<<>>)]
  BY EmptySeq, SwingsFold
<1>3. ToAlternatingSwings(<<>>) = <<>>
  BY <1>2 DEF SwingsOf
<1> QED
  BY <1>1, <1>3 DEF Init, LegsReplayed

\* The swings kept as bars close are those toAlternatingSwings makes of all pivots of
\* the tape at once, for every tape: what a caller reads does not depend on how many
\* bars it had when it asked first (computePivots, toAlternatingSwings).
THEOREM ReplayAgrees == Spec => []LegsReplayed
<1>1. Inv /\ Inv' /\ LegsReplayed /\ [Next]_vars => LegsReplayed'
  BY ReplayStep
<1> QED
  BY <1>1, ReplayStart, Invariant, PTL DEF Spec

-----------------------------------------------------------------------------
(* The legs of a longer tape *)

\* The legs of a longer tape: all but the last are what they were, and the last
\* is unless a more extreme one of its kind replaced it.
Grows(ls, ls2) ==
    /\ Len(ls) <= Len(ls2)
    /\ \A i \in 1..(Len(ls) - 1) : ls2[i] = ls[i]
    /\ Len(ls) > 0 =>
        \/ ls2[Len(ls)] = ls[Len(ls)]
        \/ /\ ls2[Len(ls)].kind = ls[Len(ls)].kind
           /\ Beyond(ls[Len(ls)].kind, ls2[Len(ls)].price, ls[Len(ls)].price)

\* One pivot added makes the legs grow in this sense.
LEMMA ExtendsGrows ==
    ASSUME NEW ls \in Seq(Leg), NEW ls2, Extends(ls, ls2) PROVE Grows(ls, ls2)
<1>0. Len(ls) \in Nat
  OBVIOUS
<1>1. CASE ls2 = ls
  BY <1>0, <1>1 DEF Grows
<1>2. ASSUME NEW p \in Leg, ls2 = Append(ls, p) PROVE Grows(ls, ls2)
  <2>1. Len(ls2) = Len(ls) + 1 /\ \A i \in 1..Len(ls) : ls2[i] = ls[i]
    BY <1>2, AppendProperties
  <2>2. Len(ls) > 0 => Len(ls) \in 1..Len(ls)
    BY <1>0
  <2> QED
    BY <1>0, <2>1, <2>2 DEF Grows
<1>3. ASSUME NEW p \in Leg, Len(ls) > 0, ls[Len(ls)].kind = p.kind,
             Beyond(p.kind, p.price, ls[Len(ls)].price), ls2 = [ls EXCEPT ![Len(ls)] = p]
      PROVE  Grows(ls, ls2)
  <2>1. Len(ls) \in 1..Len(ls)
    BY <1>0, <1>3
  <2>2. Len(ls2) = Len(ls) /\ ls2[Len(ls)] = p /\ \A i \in 1..(Len(ls) - 1) : ls2[i] = ls[i]
    BY <1>0, <1>3, <2>1, ExceptSeq
  <2> QED
    BY <1>0, <1>3, <2>2 DEF Grows
<1> QED
  BY <1>1, <1>2, <1>3 DEF Extends

\* Growing twice is growing.
LEMMA GrowsTwice ==
    ASSUME NEW ls \in Seq(Leg), NEW ls1 \in Seq(Leg), NEW ls2 \in Seq(Leg),
           Grows(ls, ls1), Grows(ls1, ls2)
    PROVE  Grows(ls, ls2)
<1>1. /\ Len(ls) \in Nat /\ Len(ls1) \in Nat /\ Len(ls2) \in Nat
      /\ Len(ls) <= Len(ls1) /\ Len(ls1) <= Len(ls2)
  BY DEF Grows
<1>2. ASSUME NEW i \in 1..(Len(ls) - 1) PROVE ls2[i] = ls[i]
  <2>1. i \in 1..(Len(ls1) - 1)
    BY <1>1
  <2> QED
    BY <2>1 DEF Grows
<1>3. CASE Len(ls) > 0
  <2> DEFINE n == Len(ls)
  <2>0. n \in 1..Len(ls) /\ n \in 1..Len(ls1) /\ n \in 1..Len(ls2)
    BY <1>1, <1>3
  <2>1. ls[n].price \in Int /\ ls1[n].price \in Int /\ ls2[n].price \in Int
    BY <2>0, LegFields
  <2>2. \/ ls1[n] = ls[n]
        \/ ls1[n].kind = ls[n].kind /\ Beyond(ls[n].kind, ls1[n].price, ls[n].price)
    BY <1>3 DEF Grows
  <2>3. \/ ls2[n] = ls1[n]
        \/ ls2[n].kind = ls1[n].kind /\ Beyond(ls1[n].kind, ls2[n].price, ls1[n].price)
    <3>1. CASE Len(ls1) = n
      BY <1>3, <3>1 DEF Grows
    <3>2. CASE Len(ls1) # n
      <4>1. n \in 1..(Len(ls1) - 1)
        BY <1>1, <2>0, <3>2
      <4> QED
        BY <4>1 DEF Grows
    <3> QED
      BY <3>1, <3>2
  <2>4. \/ ls2[n] = ls[n]
        \/ ls2[n].kind = ls[n].kind /\ Beyond(ls[n].kind, ls2[n].price, ls[n].price)
    <3> HIDE DEF n
    <3>1. ASSUME ls1[n].kind = ls[n].kind, Beyond(ls[n].kind, ls1[n].price, ls[n].price),
                 ls2[n].kind = ls1[n].kind, Beyond(ls1[n].kind, ls2[n].price, ls1[n].price)
          PROVE  Beyond(ls[n].kind, ls2[n].price, ls[n].price)
      BY <2>1, <3>1, BeyondTransitive
    <3> QED
      BY <2>2, <2>3, <3>1
  <2> QED
    BY <1>1, <1>2, <2>4 DEF Grows
<1>4. CASE ~(Len(ls) > 0)
  BY <1>1, <1>2, <1>4 DEF Grows
<1> QED
  BY <1>3, <1>4

\* So do the two pivots of a bar.
LEMMA AddPivotsGrow ==
    ASSUME NEW ls \in Seq(Leg), NEW pivots \in Seq(Leg), Len(pivots) <= 2
    PROVE  Grows(ls, AddPivots(ls, pivots)) /\ AddPivots(ls, pivots) \in Seq(Leg)
<1>0. Len(pivots) \in Nat /\ Len(ls) \in Nat
  OBVIOUS
<1>1. CASE pivots = <<>>
  BY <1>0, <1>1 DEF AddPivots, Grows
<1>2. CASE pivots # <<>> /\ Len(pivots) = 1
  <2>1. 1 \in 1..Len(pivots)
    BY <1>2
  <2>2. pivots[1] \in Leg
    BY <2>1, ElementOfSeq
  <2> QED
    BY <1>2, <2>2, AddPivotExtends, AddPivotType, ExtendsGrows DEF AddPivots
<1>3. CASE pivots # <<>> /\ Len(pivots) # 1
  <2>1. Len(pivots) # 0
    BY <1>3, EmptySeq
  <2>2. \A m \in Nat : m <= 2 /\ m # 0 /\ m # 1 => m = 2
    OBVIOUS
  <2>3. Len(pivots) = 2
    BY <1>0, <1>3, <2>1, <2>2
  <2>4. 1 \in 1..Len(pivots) /\ 2 \in 1..Len(pivots)
    BY <2>3
  <2>5. pivots[1] \in Leg /\ pivots[2] \in Leg
    BY <2>4, ElementOfSeq
  <2> DEFINE ls1 == AddPivot(ls, pivots[1])
  <2>6. ls1 \in Seq(Leg) /\ Grows(ls, ls1)
    BY <2>5, AddPivotExtends, AddPivotType, ExtendsGrows
  <2> HIDE DEF ls1
  <2>7. AddPivot(ls1, pivots[2]) \in Seq(Leg) /\ Grows(ls1, AddPivot(ls1, pivots[2]))
    BY <2>5, <2>6, AddPivotExtends, AddPivotType, ExtendsGrows
  <2> QED
    BY <1>3, <2>6, <2>7, GrowsTwice DEF AddPivots, ls1
<1> QED
  BY <1>1, <1>2, <1>3

\* One closed bar.
LEMMA LegsGrow ==
    ASSUME Inv, Inv', [Next]_vars
    PROVE  legs \in Seq(Leg) /\ legs' \in Seq(Leg) /\ Grows(legs, legs')
<1>1. legs \in Seq(Leg) /\ legs' \in Seq(Leg)
  BY DEF Inv, Alternates
<1>2. CASE UNCHANGED vars
  <2>1. legs' = legs
    BY <1>2 DEF vars
  <2> QED
    BY <1>1, <2>1 DEF Grows
<1>3. CASE CloseBar
  <2>1. Confirmed(tape') \in Seq(Leg) /\ Len(Confirmed(tape')) <= 2
    BY <1>3, TapeGoesOn, ConfirmedShort DEF GoesOn
  <2>2. legs' = AddPivots(legs, Confirmed(tape'))
    BY <1>3 DEF CloseBar
  <2> QED
    BY <1>1, <2>1, <2>2, AddPivotsGrow
<1> QED
  BY <1>2, <1>3 DEF Next

-----------------------------------------------------------------------------
(* What a swing says depends on the swings up to it. *)

\* The first n swings are the same.
SamePrefix(ls, ls2, n) == \A i \in 1..n : ls2[i] = ls[i]

\* The label of a swing depends on the swings up to it only.
LEMMA LabelStands ==
    ASSUME NEW ls, NEW ls2, NEW n \in Nat, SamePrefix(ls, ls2, n), NEW i \in 0..n
    PROVE  Label(ls2, i) = Label(ls, i)
<1>1. CASE i <= 2
  BY <1>1 DEF Label
<1>2. CASE ~(i <= 2)
  <2>1. i \in 1..n /\ i - 2 \in 1..n
    BY <1>2
  <2> QED
    BY <1>2, <2>1 DEF Label, SamePrefix
<1> QED
  BY <1>1, <1>2

\* So does the trend after it,
LEMMA TrendStands ==
    ASSUME NEW ls, NEW ls2, NEW n \in Nat, SamePrefix(ls, ls2, n), NEW i \in 0..n
    PROVE  TrendAfter(ls2, i) = TrendAfter(ls, i)
<1>1. Label(ls2, i) = Label(ls, i)
  BY LabelStands
<1>2. i >= 2 => Label(ls2, i - 1) = Label(ls, i - 1)
  <2>1. i >= 2 => i - 1 \in 0..n
    OBVIOUS
  <2> QED
    BY <2>1, LabelStands
<1>3. i >= 1 => ls2[i] = ls[i]
  BY DEF SamePrefix
<1> QED
  BY <1>1, <1>2, <1>3 DEF TrendAfter

\* and the event it makes.
LEMMA EventStands ==
    ASSUME NEW ls, NEW ls2, NEW n \in Nat, SamePrefix(ls, ls2, n), NEW i \in 1..n
    PROVE  Event(ls2, i) = Event(ls, i)
<1>1. Label(ls2, i) = Label(ls, i)
  BY LabelStands
<1>2. TrendAfter(ls2, i - 1) = TrendAfter(ls, i - 1)
  <2>1. i - 1 \in 0..n
    OBVIOUS
  <2> QED
    BY <2>1, TrendStands
<1> QED
  BY <1>1, <1>2 DEF Event

\* f does what the search for the anchor does with the first swings.
AnchorsOf(f, ls, n, num, den) ==
    f = [i \in 1..n |->
            IF i > 2 /\ Abs(ls[i].price - ls[f[i - 2]].price) * den <= ls[f[i - 2]].price * num
            THEN f[i - 2]
            ELSE i]

\* That recursion has a solution.
LEMMA AnchorsExist ==
    ASSUME NEW ls, NEW n \in Nat, NEW num, NEW den
    PROVE  \E f : AnchorsOf(f, ls, n, num, den)
<1> DEFINE T == {m \in 0..n : \E f : AnchorsOf(f, ls, m, num, den)}
           e(f, i) == IF i > 2 /\ Abs(ls[i].price - ls[f[i - 2]].price) * den
                                        <= ls[f[i - 2]].price * num
                      THEN f[i - 2]
                      ELSE i
<1>1. 0 \in T
  <2> DEFINE g == [i \in 1..0 |-> i]
  <2>1. AnchorsOf(g, ls, 0, num, den)
    BY DEF AnchorsOf
  <2> HIDE DEF g
  <2> QED
    BY <2>1
<1>2. ASSUME NEW m \in 0..(n - 1), m \in T PROVE m + 1 \in T
  <2>1. PICK f : AnchorsOf(f, ls, m, num, den)
    BY <1>2
  <2>2. f = [i \in 1..m |-> e(f, i)]
    BY <2>1 DEF AnchorsOf
  <2> HIDE DEF e
  <2> DEFINE g == [i \in 1..(m + 1) |-> IF i <= m THEN f[i] ELSE e(f, i)]
  <2>3. \A i \in 1..(m + 1) : i > 2 => i - 2 \in 1..m /\ g[i - 2] = f[i - 2]
    <3>1. \A i \in 1..(m + 1) : i > 2 => i - 2 \in 1..m /\ i - 2 \in 1..(m + 1) /\ i - 2 <= m
      OBVIOUS
    <3> QED
      BY <3>1
  <2>4. \A i \in 1..(m + 1) : g[i] = e(f, i)
    BY <2>2
  <2>5. \A i \in 1..(m + 1) : e(g, i) = e(f, i)
    <3> HIDE DEF g
    <3> QED
      BY <2>3 DEF e
  <2>6. g = [i \in 1..(m + 1) |-> e(g, i)]
    <3>1. g = [i \in 1..(m + 1) |-> g[i]]
      OBVIOUS
    <3> HIDE DEF g
    <3> QED
      BY <2>4, <2>5, <3>1
  <2> HIDE DEF g
  <2>7. AnchorsOf(g, ls, m + 1, num, den)
    BY <2>6 DEF AnchorsOf, e
  <2> QED
    BY <1>2, <2>7
<1>3. \A m \in 0..n : m \in T
  <2> HIDE DEF T
  <2> QED
    BY <1>1, <1>2, Induction
<1>4. n \in 0..n
  OBVIOUS
<1> QED
  BY <1>3, <1>4

\* The anchor is its last value.
LEMMA AnchorsAre ==
    ASSUME NEW ls \in Seq(Leg), NEW num, NEW den
    PROVE  AnchorsOf(Anchors(ls, num, den), ls, Len(ls), num, den)
<1> DEFINE P(f) == AnchorsOf(f, ls, Len(ls), num, den)
<1>1. Anchors(ls, num, den) = CHOOSE f : P(f)
  BY DEF Anchors, AnchorsOf
<1>2. \E f : P(f)
  <2>1. Len(ls) \in Nat
    OBVIOUS
  <2> QED
    BY <2>1, AnchorsExist
<1> HIDE DEF P
<1>3. P(CHOOSE f : P(f))
  BY <1>2
<1> QED
  BY <1>1, <1>3 DEF P

-----------------------------------------------------------------------------
(* What is said of a swing stands *)

\* The anchor of a swing depends on the swings before it only.
LEMMA AnchorStands ==
    ASSUME NEW ls \in Seq(Leg), NEW ls2 \in Seq(Leg), NEW n \in Nat, n <= Len(ls), n <= Len(ls2),
           SamePrefix(ls, ls2, n), NEW num, NEW den
    PROVE  \A i \in 1..n : Anchors(ls2, num, den)[i] = Anchors(ls, num, den)[i]
<1> DEFINE f == Anchors(ls, num, den)
           g == Anchors(ls2, num, den)
           T == {m \in 0..n : \A i \in 1..m : g[i] = f[i] /\ f[i] \in 1..n}
<1>1. AnchorsOf(f, ls, Len(ls), num, den) /\ AnchorsOf(g, ls2, Len(ls2), num, den)
  BY AnchorsAre
<1>2. Len(ls) \in Nat /\ Len(ls2) \in Nat
  OBVIOUS
<1> HIDE DEF f, g
<1>3. \A i \in 1..n :
        /\ f[i] = IF i > 2 /\ Abs(ls[i].price - ls[f[i - 2]].price) * den
                                <= ls[f[i - 2]].price * num
                  THEN f[i - 2] ELSE i
        /\ g[i] = IF i > 2 /\ Abs(ls2[i].price - ls2[g[i - 2]].price) * den
                                <= ls2[g[i - 2]].price * num
                  THEN g[i - 2] ELSE i
  <2>1. \A i \in 1..n : i \in 1..Len(ls) /\ i \in 1..Len(ls2)
    BY <1>2
  <2> QED
    BY <1>1, <2>1 DEF AnchorsOf
<1>4. 0 \in T
  OBVIOUS
<1>5. ASSUME NEW m \in 0..(n - 1), m \in T PROVE m + 1 \in T
  <2>1. \A i \in 1..m : g[i] = f[i] /\ f[i] \in 1..n
    BY <1>5
  <2>2. m + 1 \in 1..n /\ m + 1 \in 0..n /\ ls2[m + 1] = ls[m + 1]
    BY DEF SamePrefix
  <2>3. CASE m + 1 > 2
    <3>1. (m + 1) - 2 \in 1..m
      BY <2>3
    <3>2. g[(m + 1) - 2] = f[(m + 1) - 2] /\ f[(m + 1) - 2] \in 1..n
      BY <2>1, <3>1
    <3>3. ls2[f[(m + 1) - 2]] = ls[f[(m + 1) - 2]]
      BY <3>2 DEF SamePrefix
    <3>4. g[m + 1] = f[m + 1] /\ f[m + 1] \in {f[(m + 1) - 2], m + 1}
      BY <1>3, <2>2, <3>2, <3>3, ZenonT(40)
    <3>5. f[m + 1] \in 1..n
      BY <2>2, <3>2, <3>4
    <3>6. \A i \in 1..(m + 1) : i \in 1..m \/ i = m + 1
      OBVIOUS
    <3> QED
      BY <2>1, <2>2, <3>4, <3>5, <3>6
  <2>4. CASE ~(m + 1 > 2)
    <3>1. g[m + 1] = m + 1 /\ f[m + 1] = m + 1
      BY <1>3, <2>2, <2>4
    <3>2. \A i \in 1..(m + 1) : i \in 1..m \/ i = m + 1
      OBVIOUS
    <3> QED
      BY <2>1, <2>2, <3>1, <3>2
  <2> QED
    BY <2>3, <2>4
<1>6. \A m \in 0..n : m \in T
  <2> HIDE DEF T
  <2> QED
    BY <1>4, <1>5, Induction
<1>7. n \in 0..n /\ n \in T
  BY <1>6
<1> QED
  BY <1>7 DEF f, g

\* The point of a swing stands: its label, its strength and its event.
LEMMA PointStands ==
    ASSUME NEW ls \in Seq(Leg), NEW ls2 \in Seq(Leg), NEW n \in Nat, n <= Len(ls), n <= Len(ls2),
           SamePrefix(ls, ls2, n), NEW i \in 1..n
    PROVE  SwingPoints(ls2)[i] = SwingPoints(ls)[i]
<1>1. i \in 1..Len(ls) /\ i \in 1..Len(ls2)
  OBVIOUS
<1>2. ls2[i] = ls[i]
  BY DEF SamePrefix
<1>3. Label(ls2, i) = Label(ls, i)
  <2>1. i \in 0..n
    OBVIOUS
  <2> QED
    BY <2>1, LabelStands
<1>4. Event(ls2, i) = Event(ls, i)
  BY EventStands
<1>5. Anchors(ls2, TolNum, TolDen)[i] = Anchors(ls, TolNum, TolDen)[i]
  BY AnchorStands
<1> QED
  BY <1>1, <1>2, <1>3, <1>4, <1>5 DEF SwingPoints

-----------------------------------------------------------------------------
(* The records of the transitions: a confirmed one is never touched again. *)

\* The values the fold over the swings goes through.
Trends == {"uptrend", "downtrend", "range"}
Phases == {"choch-hint", "confirmed"}
Turn == [from : Trends, to : Trends, phase : Phases, choch : Nat, confirm : Nat]

\* What the fold holds: only a hint may be pending.
Reading == [out : Seq(Turn), pending : Nat]
HintPending(st) == st.pending # 0 => /\ st.pending \in 1..Len(st.out)
                                     /\ st.out[st.pending].phase = "choch-hint"

\* From one state of the fold to the next at swing i.
TurnsKept(out, out2, i) ==
    /\ Len(out) <= Len(out2)
    /\ \A n \in 1..Len(out) : out[n].phase = "confirmed" => out2[n] = out[n]
    /\ \A n \in 1..Len(out2) : out2[n].phase = "confirmed" =>
            \/ n \in 1..Len(out) /\ out2[n] = out[n]
            \/ out2[n].confirm = i

\* The trend after a swing is one of three.
LEMMA TrendAfterType ==
    ASSUME NEW ls, NEW i PROVE TrendAfter(ls, i) \in Trends
  BY DEF TrendAfter, TrendFrom, Trends

\* One step of the fold keeps every turn but a hint it confirms.
LEMMA TransitionKeeps ==
    ASSUME NEW ls, NEW i \in Nat, NEW st \in Reading, HintPending(st)
    PROVE  /\ NextTransition(ls, i, st) \in Reading
           /\ HintPending(NextTransition(ls, i, st))
           /\ TurnsKept(st.out, NextTransition(ls, i, st).out, i)
<1> DEFINE out == st.out
           label == Label(ls, i)
           before == TrendAfter(ls, i - 1)
           after == TrendAfter(ls, i)
           killed == st.pending # 0 /\ <<out[st.pending].to, label>> \in {<<"uptrend", "LL">>, <<"downtrend", "HH">>}
           hints == Event(ls, i) = "choch"
           hint == [from |-> before, to |-> IF label = "HH" THEN "uptrend" ELSE "downtrend",
                    phase |-> "choch-hint", choch |-> i, confirm |-> 0]
           hinted == IF hints THEN Append(out, hint) ELSE out
           pending == IF hints THEN Len(hinted) ELSE IF killed THEN 0 ELSE st.pending
           fresh == [from |-> before, to |-> after, phase |-> "confirmed",
                     choch |-> 0, confirm |-> i]
           upgraded == [hinted EXCEPT ![pending].phase = "confirmed", ![pending].confirm = i]
           next == NextTransition(ls, i, st)
<1>1. next = IF after = before \/ after = "range" THEN [out |-> hinted, pending |-> pending]
             ELSE [pending |-> 0,
                   out |-> IF pending # 0 /\ hinted[pending].to = after
                           THEN upgraded ELSE Append(hinted, fresh)]
  BY DEF NextTransition
<1>2. out \in Seq(Turn) /\ st.pending \in Nat /\ Len(out) \in Nat
  <2>1. out \in Seq(Turn) /\ st.pending \in Nat
    BY DEF Reading
  <2> HIDE DEF out
  <2> QED
    BY <2>1
<1>3. before \in Trends /\ after \in Trends
  BY TrendAfterType
<1>4. hint \in Turn /\ fresh \in Turn /\ hint.phase = "choch-hint"
      /\ fresh.phase = "confirmed" /\ fresh.confirm = i
  <2> HIDE DEF before, after, label
  <2> QED
    BY <1>3 DEF Turn, Trends, Phases
<1> HIDE DEF out, label, before, after, hint, fresh, hints, next
<1>5. /\ hinted \in Seq(Turn) /\ Len(hinted) \in Nat /\ Len(out) <= Len(hinted)
      /\ \A n \in 1..Len(out) : hinted[n] = out[n]
      /\ \A n \in 1..Len(hinted) : n \in 1..Len(out) \/ hinted[n] = hint
  <2>1. CASE hints
    <3>1. /\ hinted \in Seq(Turn) /\ Len(hinted) = Len(out) + 1 /\ hinted[Len(out) + 1] = hint
          /\ \A n \in 1..Len(out) : hinted[n] = out[n]
      BY <1>2, <1>4, <2>1, AppendProperties
    <3> HIDE DEF hinted
    <3>2. \A n \in 1..Len(hinted) : n \in 1..Len(out) \/ n = Len(out) + 1
      BY <1>2, <3>1
    <3> QED
      BY <1>2, <3>1, <3>2
  <2>2. CASE ~hints
    BY <1>2, <2>2
  <2> QED
    BY <2>1, <2>2
<1>6. pending \in Nat
      /\ (pending # 0 => pending \in 1..Len(hinted) /\ hinted[pending].phase = "choch-hint")
  <2>1. CASE hints
    <3>1. hinted = Append(out, hint) /\ pending = Len(hinted)
      BY <2>1
    <3>2. Len(Append(out, hint)) = Len(out) + 1 /\ Append(out, hint)[Len(out) + 1] = hint
      BY <1>2, <1>4, AppendProperties
    <3> HIDE DEF hinted, pending
    <3> QED
      BY <1>2, <1>4, <3>1, <3>2
  <2>2. CASE ~hints
    <3>1. hinted = out /\ pending \in {0, st.pending}
      BY <2>2
    <3>2. st.pending # 0 => st.pending \in 1..Len(out) /\ out[st.pending].phase = "choch-hint"
      BY DEF HintPending, out
    <3> HIDE DEF hinted, pending
    <3> QED
      BY <1>2, <3>1, <3>2
  <2> QED
    BY <2>1, <2>2
<1> HIDE DEF hinted, pending
<1>7. TurnsKept(out, hinted, i)
  BY <1>4, <1>5 DEF TurnsKept
<1>8. CASE after = before \/ after = "range"
  <2>1. next = [out |-> hinted, pending |-> pending]
    BY <1>1, <1>8
  <2> QED
    BY <1>5, <1>6, <1>7, <2>1 DEF Reading, HintPending, next, out
<1>9. CASE ~(after = before \/ after = "range") /\ pending # 0 /\ hinted[pending].to = after
  <2>1. next = [pending |-> 0, out |-> upgraded]
    BY <1>1, <1>9
  <2> DEFINE rec == [hinted[pending] EXCEPT !.phase = "confirmed", !.confirm = i]
  <2>2. hinted[pending] \in Turn
    BY <1>5, <1>6, <1>9, ElementOfSeq
  <2>3. rec \in Turn /\ rec.phase = "confirmed" /\ rec.confirm = i
    BY <2>2 DEF Turn, Phases
  <2>4. upgraded = [hinted EXCEPT ![pending] = rec]
    BY <1>5, <1>6, <1>9
  <2> HIDE DEF rec, upgraded
  <2>5. /\ upgraded \in Seq(Turn) /\ Len(upgraded) = Len(hinted) /\ upgraded[pending] = rec
        /\ \A n \in 1..Len(hinted) : n # pending => upgraded[n] = hinted[n]
    BY <1>5, <1>6, <1>9, <2>3, <2>4, ExceptSeq
  <2>6. \A n \in 1..Len(out) : out[n].phase = "confirmed" => upgraded[n] = out[n]
    <3>1. \A n \in 1..Len(out) : n \in 1..Len(hinted) /\ hinted[n] = out[n]
      BY <1>2, <1>5
    <3> QED
      BY <1>6, <1>9, <2>5, <3>1
  <2>7. \A n \in 1..Len(upgraded) : upgraded[n].phase = "confirmed" =>
            (n \in 1..Len(out) /\ upgraded[n] = out[n]) \/ upgraded[n].confirm = i
    BY <1>4, <1>5, <2>3, <2>5
  <2>8. TurnsKept(out, upgraded, i)
    BY <1>5, <2>5, <2>6, <2>7 DEF TurnsKept
  <2> QED
    BY <2>1, <2>5, <2>8 DEF Reading, HintPending, next, out
<1>10. CASE ~(after = before \/ after = "range") /\ ~(pending # 0 /\ hinted[pending].to = after)
  <2> DEFINE added == Append(hinted, fresh)
  <2>1. next = [pending |-> 0, out |-> added]
    BY <1>1, <1>10
  <2>2. /\ added \in Seq(Turn) /\ Len(added) = Len(hinted) + 1 /\ added[Len(hinted) + 1] = fresh
        /\ \A n \in 1..Len(hinted) : added[n] = hinted[n]
    BY <1>4, <1>5, AppendProperties
  <2> HIDE DEF added
  <2>3. \A n \in 1..Len(added) : n \in 1..Len(hinted) \/ n = Len(hinted) + 1
    BY <1>5, <2>2
  <2>4. \A n \in 1..Len(out) : n \in 1..Len(hinted)
    BY <1>2, <1>5
  <2>5. Len(out) <= Len(added)
    BY <1>2, <1>5, <2>2
  <2>6. \A n \in 1..Len(out) : out[n].phase = "confirmed" => added[n] = out[n]
    BY <1>5, <2>2, <2>4
  <2>7. \A n \in 1..Len(added) : added[n].phase = "confirmed" =>
            (n \in 1..Len(out) /\ added[n] = out[n]) \/ added[n].confirm = i
    BY <1>4, <1>5, <2>2, <2>3
  <2>8. TurnsKept(out, added, i)
    BY <2>5, <2>6, <2>7 DEF TurnsKept
  <2> QED
    BY <2>1, <2>2, <2>8 DEF Reading, HintPending, next, out
<1> QED
  BY <1>8, <1>9, <1>10 DEF next, out

-----------------------------------------------------------------------------
(* The transitions *)

\* f does what Transitions does with the first swings.
TurnsOf(f, ls) ==
    /\ \A i \in 0..Len(ls) : f[i] \in Reading /\ HintPending(f[i])
    /\ f[0] = [out |-> <<>>, pending |-> 0]
    /\ \A i \in 1..Len(ls) : f[i] = NextTransition(ls, i, f[i - 1])

\* The transitions are the last value of that recursion.
LEMMA TurnsFold ==
    ASSUME NEW ls \in Seq(Leg)
    PROVE  \E f : TurnsOf(f, ls) /\ Transitions(ls) = f[Len(ls)].out
<1> DEFINE n == Len(ls)
           first == [out |-> <<>>, pending |-> 0]
           P(f) == f = [i \in 0..n |-> IF i = 0 THEN first ELSE NextTransition(ls, i, f[i - 1])]
           S == {st \in Reading : HintPending(st)}
           step == [i \in 1..n |-> [st \in S |-> NextTransition(ls, i, st)]]
<1>1. n \in Nat
  OBVIOUS
<1>2. first \in S
  <2>1. <<>> \in Seq(Turn)
    BY EmptySeq
  <2> QED
    BY <2>1 DEF Reading, HintPending
<1>3. step \in [1..n -> [S -> S]]
  <2>1. \A i \in 1..n : \A st \in S : NextTransition(ls, i, st) \in S
    <3>1. \A i \in 1..n : i \in Nat
      BY <1>1
    <3> QED
      BY <3>1, TransitionKeeps
  <2> HIDE DEF S, n
  <2> QED
    BY <2>1
<1>4. PICK f : FoldsTo(f, n, S, first, step)
  <2> HIDE DEF step, S, n, first
  <2> QED
    BY <1>1, <1>2, <1>3, FoldExists
<1>5. \A i \in 1..n : i - 1 \in 0..n /\ i \in 0..n
  BY <1>1
<1>6. \A i \in 0..n : f[i] \in S
  BY <1>4 DEF FoldsTo
<1>7. f = [i \in 0..n |-> f[i]] /\ f[0] = first
  BY <1>4 DEF FoldsTo
<1>8. \A i \in 1..n : f[i] = NextTransition(ls, i, f[i - 1])
  <2> HIDE DEF S, n
  <2> QED
    BY <1>4, <1>5, <1>6 DEF FoldsTo
<1>9. P(f)
  <2>1. \A i \in 0..n : f[i] = IF i = 0 THEN first ELSE NextTransition(ls, i, f[i - 1])
    <3>1. \A i \in 0..n : i # 0 => i \in 1..n
      BY <1>1
    <3> HIDE DEF first, n
    <3> QED
      BY <1>7, <1>8, <3>1
  <2> HIDE DEF first, n
  <2> QED
    BY <1>7, <2>1
<1>10. Transitions(ls) = (CHOOSE g : P(g))[n].out
  BY DEF Transitions
<1> DEFINE h == CHOOSE g : P(g)
<1>11. P(h)
  <2> HIDE DEF P
  <2> QED
    BY <1>9
<1> HIDE DEF h
<1>12. h[0] = first /\ \A i \in 1..n : h[i] = NextTransition(ls, i, h[i - 1])
  <2>1. 0 \in 0..n /\ \A i \in 1..n : i \in 0..n /\ i # 0
    BY <1>1
  <2>2. \A i \in 0..n : h[i] = IF i = 0 THEN first ELSE NextTransition(ls, i, h[i - 1])
    <3> HIDE DEF n, first
    <3> QED
      BY <1>11
  <2> HIDE DEF n, first
  <2> QED
    BY <2>1, <2>2
<1>13. \A i \in 0..n : h[i] = f[i]
  <2> DEFINE T == {i \in 0..n : h[i] = f[i]}
  <2>1. 0 \in T
    BY <1>1, <1>7, <1>12
  <2>2. ASSUME NEW i \in 0..(n - 1), i \in T PROVE i + 1 \in T
    <3>1. i + 1 \in 1..n /\ i + 1 \in 0..n /\ (i + 1) - 1 = i
      BY <1>1
    <3> HIDE DEF n
    <3> QED
      BY <1>8, <1>12, <2>2, <3>1
  <2> HIDE DEF T, n
  <2>3. \A i \in 0..n : i \in T
    BY <1>1, <2>1, <2>2, Induction
  <2> QED
    BY <2>3 DEF T
<1>14. Transitions(ls) = f[n].out
  <2>1. n \in 0..n
    BY <1>1
  <2> QED
    BY <1>10, <1>13, <2>1 DEF h
<1>15. TurnsOf(f, ls)
  BY <1>6, <1>7, <1>8 DEF TurnsOf
<1> QED
  BY <1>14, <1>15

\* A step of the fold depends on the swings up to its own only.
LEMMA TransitionStands ==
    ASSUME NEW ls, NEW ls2, NEW n \in Nat, SamePrefix(ls, ls2, n), NEW i \in 1..n, NEW st
    PROVE  NextTransition(ls2, i, st) = NextTransition(ls, i, st)
<1>1. i - 1 \in 0..n /\ i \in 0..n
  OBVIOUS
<1>2. /\ Label(ls2, i) = Label(ls, i) /\ Event(ls2, i) = Event(ls, i)
      /\ TrendAfter(ls2, i - 1) = TrendAfter(ls, i - 1) /\ TrendAfter(ls2, i) = TrendAfter(ls, i)
  BY <1>1, LabelStands, EventStands, TrendStands
\* A step reads the swings through these four values only.
<1> DEFINE Folded(label, event, before, after) ==
             LET out == st.out
                 killed == st.pending # 0 /\ <<out[st.pending].to, label>> \in {<<"uptrend", "LL">>, <<"downtrend", "HH">>}
                 hints == event = "choch"
                 hinted == IF hints
                           THEN Append(out, [from |-> before,
                                             to |-> IF label = "HH" THEN "uptrend" ELSE "downtrend",
                                             phase |-> "choch-hint", choch |-> i, confirm |-> 0])
                           ELSE out
                 pending == IF hints THEN Len(hinted) ELSE IF killed THEN 0 ELSE st.pending
             IN  IF after = before \/ after = "range" THEN [out |-> hinted, pending |-> pending]
                 ELSE [pending |-> 0,
                       out |-> IF pending # 0 /\ hinted[pending].to = after
                               THEN [hinted EXCEPT ![pending].phase = "confirmed",
                                                   ![pending].confirm = i]
                               ELSE Append(hinted, [from |-> before, to |-> after,
                                                    phase |-> "confirmed", choch |-> 0,
                                                    confirm |-> i])]
<1>3. \A l : NextTransition(l, i, st) =
              Folded(Label(l, i), Event(l, i), TrendAfter(l, i - 1), TrendAfter(l, i))
  BY Zenon DEF NextTransition
<1> HIDE DEF Folded
<1> QED
  BY <1>2, <1>3

\* A confirmed transition whose confirming swing is completed stands.
LEMMA TurnStands ==
    ASSUME NEW ls \in Seq(Leg), NEW ls2 \in Seq(Leg), Grows(ls, ls2),
           NEW n \in 1..Len(Transitions(ls)),
           Transitions(ls)[n].phase = "confirmed",
           Transitions(ls)[n].confirm \in Completed(ls)
    PROVE  n <= Len(Transitions(ls2)) /\ Transitions(ls2)[n] = Transitions(ls)[n]
<1> DEFINE N == Len(ls)
           M == Len(ls2)
<1>1. N \in Nat /\ M \in Nat /\ N <= M /\ N \in Nat \ {0}
  BY DEF Grows, Completed
<1>2. PICK f : TurnsOf(f, ls) /\ Transitions(ls) = f[N].out
  BY TurnsFold
<1>3. PICK g : TurnsOf(g, ls2) /\ Transitions(ls2) = g[M].out
  BY TurnsFold
<1>4. SamePrefix(ls, ls2, N - 1) /\ N - 1 \in Nat
  BY <1>1 DEF SamePrefix, Grows
<1> HIDE DEF N, M
<1>5. \A i \in 0..(N - 1) : g[i] = f[i]
  <2> DEFINE m == N - 1
             T == {i \in 0..m : g[i] = f[i]}
  <2>1. 0 \in T
    BY <1>2, <1>3, <1>4 DEF TurnsOf
  <2>2. ASSUME NEW i \in 0..(m - 1), i \in T PROVE i + 1 \in T
    <3>1. /\ i + 1 \in 1..m /\ i + 1 \in 0..m /\ (i + 1) - 1 = i
          /\ i + 1 \in 1..N /\ i + 1 \in 1..M
      BY <1>1, <1>4
    <3>2. f[i + 1] = NextTransition(ls, i + 1, f[i]) /\ g[i + 1] = NextTransition(ls2, i + 1, g[i])
      <4>1. f[i + 1] = NextTransition(ls, i + 1, f[(i + 1) - 1])
            /\ g[i + 1] = NextTransition(ls2, i + 1, g[(i + 1) - 1])
        <5> HIDE DEF m
        <5> QED
          BY <1>2, <1>3, <3>1 DEF TurnsOf, N, M
      <4> QED
        BY <3>1, <4>1
    <3>3. NextTransition(ls2, i + 1, g[i]) = NextTransition(ls, i + 1, g[i])
      <4> HIDE DEF m
      <4> QED
        BY <1>4, <3>1, TransitionStands DEF m
    <3> HIDE DEF m
    <3> QED
      BY <2>2, <3>1, <3>2, <3>3
  <2> HIDE DEF T, m
  <2>3. \A i \in 0..m : i \in T
    BY <1>4, <2>1, <2>2, Induction DEF m
  <2> QED
    BY <2>3 DEF T, m
<1>6. \A i \in 1..M : /\ g[i - 1] \in Reading
                      /\ TurnsKept(g[i - 1].out, g[i].out, i)
  <2> TAKE i \in 1..M
  <2>1. i - 1 \in 0..M /\ i \in Nat
    BY <1>1
  <2>2. g[i - 1] \in Reading /\ HintPending(g[i - 1]) /\ g[i] = NextTransition(ls2, i, g[i - 1])
    BY <1>3, <2>1 DEF TurnsOf, M
  <2> QED
    BY <2>1, <2>2, TransitionKeeps
<1>7. TurnsKept(f[N - 1].out, f[N].out, N) /\ f[N].out \in Seq(Turn) /\ f[N - 1].out \in Seq(Turn)
  <2>1. N - 1 \in 0..N /\ N \in Nat /\ N \in 1..N /\ N \in 0..N
    BY <1>1
  <2>2. f[N - 1] \in Reading /\ HintPending(f[N - 1]) /\ f[N] = NextTransition(ls, N, f[N - 1])
        /\ f[N] \in Reading
    BY <1>2, <2>1 DEF TurnsOf, N
  <2>3. TurnsKept(f[N - 1].out, f[N].out, N)
    BY <2>1, <2>2, TransitionKeeps
  <2> QED
    BY <2>2, <2>3 DEF Reading
<1> DEFINE turn == Transitions(ls)[n]
<1>8. n \in 1..Len(f[N - 1].out) /\ f[N - 1].out[n] = turn
  <2>1. turn.confirm # N
    BY <1>1 DEF Completed, N
  <2>2. n \in 1..Len(f[N].out) /\ f[N].out[n] = turn
    BY <1>2
  <2>3. \/ n \in 1..Len(f[N - 1].out) /\ f[N].out[n] = f[N - 1].out[n]
        \/ f[N].out[n].confirm = N
    BY <1>7, <2>2 DEF TurnsKept
  <2> QED
    BY <2>1, <2>2, <2>3
<1> HIDE DEF turn
<1>9. \A k \in 0..(M - (N - 1)) : n \in 1..Len(g[(N - 1) + k].out) /\ g[(N - 1) + k].out[n] = turn
  <2> DEFINE m == M - (N - 1)
             T == {k \in 0..m : n \in 1..Len(g[(N - 1) + k].out) /\ g[(N - 1) + k].out[n] = turn}
  <2>0. m \in Nat
    BY <1>1
  <2>1. 0 \in T
    <3>1. (N - 1) + 0 = N - 1 /\ N - 1 \in 0..(N - 1)
      BY <1>1
    <3> QED
      BY <1>5, <1>8, <2>0, <3>1
  <2>2. ASSUME NEW k \in 0..(m - 1), k \in T PROVE k + 1 \in T
    <3>1. /\ (N - 1) + (k + 1) \in 1..M /\ ((N - 1) + (k + 1)) - 1 = (N - 1) + k
          /\ k + 1 \in 0..m
      BY <1>1
    <3> DEFINE a == g[(N - 1) + k].out
               b == g[(N - 1) + (k + 1)].out
    <3>2. TurnsKept(a, b, (N - 1) + (k + 1)) /\ n \in 1..Len(a) /\ a[n] = turn
      BY <1>6, <2>2, <3>1
    <3>3. b \in Seq(Turn)
      <4>1. (N - 1) + (k + 1) \in 0..M
        BY <3>1
      <4> QED
        BY <1>3, <4>1 DEF TurnsOf, Reading, M
    <3>4. a \in Seq(Turn)
      BY <1>6, <3>1 DEF Reading
    <3> HIDE DEF a, b
    <3>5. Len(a) \in Nat /\ Len(b) \in Nat
      BY <3>3, <3>4
    <3>6. n \in 1..Len(b) /\ b[n] = turn
      <4>1. turn.phase = "confirmed"
        BY DEF turn
      <4> QED
        BY <3>2, <3>5, <4>1 DEF TurnsKept
    <3> QED
      BY <3>1, <3>6 DEF b
  <2> HIDE DEF T, m
  <2>3. \A k \in 0..m : k \in T
    BY <2>0, <2>1, <2>2, Induction
  <2> QED
    BY <2>3 DEF T, m
<1>10. M - (N - 1) \in 0..(M - (N - 1)) /\ (N - 1) + (M - (N - 1)) = M
  BY <1>1
<1>11. n \in 1..Len(g[M].out) /\ g[M].out[n] = turn
  BY <1>9, <1>10
<1>12. g[M].out \in Seq(Turn)
  <2>1. M \in 0..M
    BY <1>1
  <2> QED
    BY <1>3, <2>1 DEF TurnsOf, Reading, M
<1>13. n <= Len(g[M].out)
  BY <1>11, <1>12, LenProperties
<1> QED
  BY <1>3, <1>11, <1>13 DEF turn

\* What is completed is history, for every tape: no later bar changes the price, the
\* label or the break of a completed swing, nor the place, the phase and the swings
\* of a transition that a completed swing confirmed (structure.ts,
\* trend-transition.ts).
THEOREM HistoryStands == Spec => CompletedStands
<1>1. ASSUME Inv, Inv', [Next]_vars
      PROVE  /\ \A i \in Completed(legs) : SwingPoints(legs)[i] = SwingPoints(legs')[i]
             /\ \A n \in 1..Len(Transitions(legs)) :
                  Transitions(legs)[n].phase = "confirmed"
                  /\ Transitions(legs)[n].confirm \in Completed(legs)
                  => n <= Len(Transitions(legs')) /\ Transitions(legs')[n] = Transitions(legs)[n]
  <2>1. legs \in Seq(Leg) /\ legs' \in Seq(Leg) /\ Grows(legs, legs')
    BY <1>1, LegsGrow
  <2>2. ASSUME NEW i \in Completed(legs) PROVE SwingPoints(legs)[i] = SwingPoints(legs')[i]
    <3> DEFINE n == Len(legs) - 1
    <3>1. /\ n \in Nat /\ i \in 1..n /\ n <= Len(legs) /\ n <= Len(legs')
          /\ SamePrefix(legs, legs', n)
      <4>1. Len(legs) \in Nat /\ Len(legs') \in Nat /\ i \in 1..(Len(legs) - 1)
        BY <2>1, <2>2 DEF Completed
      <4> QED
        BY <2>1, <4>1 DEF Grows, SamePrefix
    <3> HIDE DEF n
    <3> QED
      BY <2>1, <3>1, PointStands
  <2> QED
    BY <2>1, <2>2, TurnStands
<1>2. Inv /\ Inv' /\ [Next]_vars =>
        [/\ \A i \in Completed(legs) : SwingPoints(legs)[i] = SwingPoints(legs')[i]
         /\ \A n \in 1..Len(Transitions(legs)) :
                Transitions(legs)[n].phase = "confirmed"
                /\ Transitions(legs)[n].confirm \in Completed(legs)
                => n <= Len(Transitions(legs')) /\ Transitions(legs')[n] = Transitions(legs)[n]]_vars
  BY <1>1
<1> QED
  BY <1>2, Invariant, PTL DEF Spec, CompletedStands

-----------------------------------------------------------------------------
(* The legs are the farthest pivots *)

\* Whatever a bar confirms, the low before the high.
ConfirmedLegs(ls, bars) ==
    LET at == Len(bars) - K
        ls1 == IF IsPivotAt(bars, at, K, "low") THEN AddPivot(ls, Pivot(bars, at, "low")) ELSE ls
    IN  IF IsPivotAt(bars, at, K, "high") THEN AddPivot(ls1, Pivot(bars, at, "high")) ELSE ls1

\* A pivot is a leg at its bar's extreme.
LEMMA PivotTyped ==
    ASSUME NEW bars, IsTape(bars), NEW at \in 1..Len(bars), NEW kind \in Kinds
    PROVE  PivotOf(Pivot(bars, at, kind), bars, at) /\ Pivot(bars, at, kind) \in Leg
           /\ Pivot(bars, at, kind).kind = kind
<1>1. at \in Nat /\ bars[at].low \in Int /\ bars[at].high \in Int
  BY DEF IsTape
<1> QED
  BY <1>1 DEF PivotOf, Pivot, Leg, Extreme, Kinds

\* AddPivots adds what a bar confirms one after the other.
LEMMA ConfirmedAdds ==
    ASSUME NEW bars, IsTape(bars), NEW ls \in Seq(Leg), Len(bars) >= 2 * K + 1
    PROVE  AddPivots(ls, Confirmed(bars)) = ConfirmedLegs(ls, bars)
<1> DEFINE at == Len(bars) - K
           low == Pivot(bars, at, "low")
           high == Pivot(bars, at, "high")
<1>1. at \in 1..Len(bars)
  BY TapeAssumption DEF IsTape
<1>2. low \in Leg /\ high \in Leg
  <2> HIDE DEF at
  <2> QED
    BY <1>1, PivotTyped DEF Kinds
<1>3. Confirmed(bars) = PivotsAt(bars, at, K)
  BY TapeAssumption DEF Confirmed, IsTape
<1>4. PivotsAt(bars, at, K) =
          (IF IsPivotAt(bars, at, K, "low") THEN <<low>> ELSE <<>>)
          \o (IF IsPivotAt(bars, at, K, "high") THEN <<high>> ELSE <<>>)
  BY DEF PivotsAt
<1> HIDE DEF at, low, high
<1>5. /\ <<>> \o <<>> = <<>> /\ <<>> \o <<high>> = <<high>>
      /\ <<low>> \o <<>> = <<low>> /\ <<low>> \o <<high>> = <<low, high>>
  <2>1. <<low>> \in Seq(Leg) /\ <<high>> \in Seq(Leg) /\ <<>> \in Seq(Leg)
    BY <1>2
  <2>2. <<>> \o <<high>> = <<high>> /\ <<low>> \o <<>> = <<low>> /\ <<>> \o <<>> = <<>>
    BY <2>1, ConcatEmptySeq
  <2>3. <<low>> \o <<high>> = <<low, high>>
    <3>1. <<low>> \o <<high>> \in Seq(Leg) /\ <<low, high>> \in Seq(Leg)
      BY <1>2, <2>1
    <3>2. /\ Len(<<low>> \o <<high>>) = 2 /\ Len(<<low, high>>) = 2
          /\ (<<low>> \o <<high>>)[1] = low /\ (<<low>> \o <<high>>)[2] = high
          /\ <<low, high>>[1] = low /\ <<low, high>>[2] = high
      BY <2>1, ConcatProperties
    <3>3. \A i \in 1..2 : i = 1 \/ i = 2
      OBVIOUS
    <3>4. \A i \in 1..2 : (<<low>> \o <<high>>)[i] = <<low, high>>[i]
      BY <3>2, <3>3
    <3> QED
      BY <3>1, <3>2, <3>4, SeqEqual
  <2> QED
    BY <2>2, <2>3
<1>6. /\ <<low>> # <<>> /\ Len(<<low>>) = 1 /\ <<low>>[1] = low
      /\ <<high>> # <<>> /\ Len(<<high>>) = 1 /\ <<high>>[1] = high
      /\ <<low, high>> # <<>> /\ Len(<<low, high>>) = 2
      /\ <<low, high>>[1] = low /\ <<low, high>>[2] = high
  OBVIOUS
<1>7. ConfirmedLegs(ls, bars) =
        LET ls1 == IF IsPivotAt(bars, at, K, "low") THEN AddPivot(ls, low) ELSE ls
        IN  IF IsPivotAt(bars, at, K, "high") THEN AddPivot(ls1, high) ELSE ls1
  BY DEF ConfirmedLegs, at, low, high
<1>8. CASE IsPivotAt(bars, at, K, "low") /\ IsPivotAt(bars, at, K, "high")
  <2>1. Confirmed(bars) = <<low, high>>
    BY <1>3, <1>4, <1>5, <1>8
  <2>2. AddPivots(ls, <<low, high>>) = AddPivot(AddPivot(ls, low), high)
    BY <1>6 DEF AddPivots
  <2> QED
    BY <1>7, <1>8, <2>1, <2>2
<1>9. CASE IsPivotAt(bars, at, K, "low") /\ ~IsPivotAt(bars, at, K, "high")
  <2>1. Confirmed(bars) = <<low>>
    BY <1>3, <1>4, <1>5, <1>9
  <2>2. AddPivots(ls, <<low>>) = AddPivot(ls, low)
    BY <1>6 DEF AddPivots
  <2> QED
    BY <1>7, <1>9, <2>1, <2>2
<1>10. CASE ~IsPivotAt(bars, at, K, "low") /\ IsPivotAt(bars, at, K, "high")
  <2>1. Confirmed(bars) = <<high>>
    BY <1>3, <1>4, <1>5, <1>10
  <2>2. AddPivots(ls, <<high>>) = AddPivot(ls, high)
    BY <1>6 DEF AddPivots
  <2> QED
    BY <1>7, <1>10, <2>1, <2>2
<1>11. CASE ~IsPivotAt(bars, at, K, "low") /\ ~IsPivotAt(bars, at, K, "high")
  <2>1. Confirmed(bars) = <<>>
    BY <1>3, <1>4, <1>5, <1>11
  <2>2. AddPivots(ls, <<>>) = ls
    BY DEF AddPivots
  <2> QED
    BY <1>7, <1>11, <2>1, <2>2
<1> QED
  BY <1>8, <1>9, <1>10, <1>11

-----------------------------------------------------------------------------
(* The last leg is the most extreme of its kind since its time: each leg is *)
(* a pivot, and no pivot seen since the last leg's time is beyond it.       *)

\* Every leg is a pivot that was seen.
PivotLegs(ls, bars, at) ==
    \A i \in 1..Len(ls) : /\ ls[i].time \in (K + 1)..at
                          /\ IsPivotAt(bars, ls[i].time, K, ls[i].kind)

\* No pivot seen since the last leg's time is beyond it.
LastHolds(ls, bars, seen) ==
    Len(ls) > 0 => \A m \in Nat : (<<m, ls[Len(ls)].kind>> \in seen /\ m > ls[Len(ls)].time) =>
        ~Beyond(ls[Len(ls)].kind, Extreme(bars[m], ls[Len(ls)].kind), ls[Len(ls)].price)

\* The pivots seen when K bars follow the bar at.
PivotsSeen(bars, at) == {x \in ((K + 1)..at) \X Kinds : IsPivotAt(bars, x[1], K, x[2])}

\* What one pivot does to the last leg, and to the legs before it.
LEMMA AddPivotEnds ==
    ASSUME NEW ls \in Seq(Leg), NEW p \in Leg
    PROVE  LET ls2 == AddPivot(ls, p)
           IN  /\ ls2 \in Seq(Leg) /\ Len(ls2) > 0
               /\ \A i \in 1..Len(ls2) : (i \in 1..Len(ls) /\ ls2[i] = ls[i]) \/ ls2[i] = p
               /\ \/ ls2[Len(ls2)] = p
                  \/ /\ ls2 = ls /\ ls[Len(ls)].kind = p.kind
                     /\ ~Beyond(p.kind, p.price, ls[Len(ls)].price)
<1> DEFINE ls2 == AddPivot(ls, p)
<1>0. Len(ls) \in Nat
  OBVIOUS
<1>1. ls2 \in Seq(Leg)
  BY AddPivotType
<1>2. CASE Len(ls) = 0
  <2>1. ls2 = <<p>>
    BY <1>2 DEF AddPivot
  <2>2. Len(<<p>>) = 1 /\ <<p>>[1] = p /\ \A i \in 1..1 : i = 1
    OBVIOUS
  <2> HIDE DEF ls2
  <2> QED
    BY <1>1, <2>1, <2>2 DEF ls2
<1>3. CASE Len(ls) # 0 /\ ls[Len(ls)].kind # p.kind
  <2>1. ls2 = Append(ls, p)
    BY <1>3 DEF AddPivot
  <2>2. /\ Len(ls2) = Len(ls) + 1 /\ ls2[Len(ls) + 1] = p /\ \A i \in 1..Len(ls) : ls2[i] = ls[i]
    BY <2>1, AppendProperties
  <2> HIDE DEF ls2
  <2>3. \A i \in 1..Len(ls2) : i \in 1..Len(ls) \/ i = Len(ls) + 1
    BY <1>0, <2>2
  <2> QED
    BY <1>0, <1>1, <2>2, <2>3 DEF ls2
<1>4. CASE Len(ls) # 0 /\ ls[Len(ls)].kind = p.kind /\ Beyond(p.kind, p.price, ls[Len(ls)].price)
  <2>1. ls2 = [ls EXCEPT ![Len(ls)] = p]
    BY <1>4 DEF AddPivot
  <2>2. Len(ls) \in 1..Len(ls)
    BY <1>0, <1>4
  <2>3. /\ Len(ls2) = Len(ls) /\ ls2[Len(ls)] = p
        /\ \A i \in 1..Len(ls) : i # Len(ls) => ls2[i] = ls[i]
    BY <2>1, <2>2, ExceptSeq
  <2> HIDE DEF ls2
  <2> QED
    BY <1>0, <1>1, <1>4, <2>3 DEF ls2
<1>5. CASE Len(ls) # 0 /\ ls[Len(ls)].kind = p.kind /\ ~Beyond(p.kind, p.price, ls[Len(ls)].price)
  <2>1. ls2 = ls
    BY <1>5 DEF AddPivot
  <2>2. Len(ls) > 0
    BY <1>0, <1>5
  <2> HIDE DEF ls2
  <2> QED
    BY <1>1, <1>5, <2>1, <2>2 DEF ls2
<1> QED
  BY <1>2, <1>3, <1>4, <1>5

\* Adding a pivot keeps the last leg the farthest seen.
LEMMA AddPivotHolds ==
    ASSUME NEW ls \in Seq(Leg), NEW bars, NEW at \in Nat, NEW seen,
           \A m \in Nat : \A kind : <<m, kind>> \in seen => m <= at,
           LastHolds(ls, bars, seen), NEW p \in Leg, p.time = at,
           p.price = Extreme(bars[at], p.kind)
    PROVE  LastHolds(AddPivot(ls, p), bars, seen \cup {<<at, p.kind>>})
<1> DEFINE ls2 == AddPivot(ls, p)
           last == ls2[Len(ls2)]
<1>1. \/ last = p
      \/ ls2 = ls /\ ls[Len(ls)].kind = p.kind /\ ~Beyond(p.kind, p.price, ls[Len(ls)].price)
  BY AddPivotEnds
<1> HIDE DEF ls2
<1>2. CASE last = p
  <2>1. ASSUME NEW m \in Nat, <<m, last.kind>> \in seen \cup {<<at, p.kind>>} PROVE ~(m > last.time)
    <3>1. m <= at
      BY <2>1
    <3> QED
      BY <1>2, <3>1
  <2> QED
    BY <2>1 DEF LastHolds, ls2
<1>3. CASE ls2 = ls /\ ls[Len(ls)].kind = p.kind /\ ~Beyond(p.kind, p.price, ls[Len(ls)].price)
  <2>1. ASSUME Len(ls2) > 0, NEW m \in Nat, <<m, last.kind>> \in seen \cup {<<at, p.kind>>},
               m > last.time
        PROVE  ~Beyond(last.kind, Extreme(bars[m], last.kind), last.price)
    <3>1. CASE <<m, last.kind>> \in seen
      BY <1>3, <2>1, <3>1 DEF LastHolds
    <3>2. CASE <<m, last.kind>> = <<at, p.kind>>
      BY <1>3, <3>2
    <3> QED
      BY <2>1, <3>1, <3>2
  <2> QED
    BY <2>1 DEF LastHolds, ls2
<1> QED
  BY <1>1, <1>2, <1>3

\* So does adding whatever a bar confirms.
LEMMA ConfirmedHold ==
    ASSUME NEW bars, NEW bars2, GoesOn(bars, bars2), NEW ls \in Seq(Leg),
           PivotLegs(ls, bars, Len(bars) - K), LastHolds(ls, bars, PivotsSeen(bars, Len(bars) - K)),
           Dated(ls, bars, Len(bars) - K)
    PROVE  LET ls2 == AddPivots(ls, Confirmed(bars2))
               at == Len(bars2) - K
           IN  /\ PivotLegs(ls2, bars2, at)
               /\ LastHolds(ls2, bars2, PivotsSeen(bars2, at))
               /\ \A i \in 1..Len(ls) : i \in 1..Len(ls2) => (ls2[i] = ls[i] \/ ls2[i].time = at)
<1> DEFINE at == Len(bars2) - K
           ls2 == AddPivots(ls, Confirmed(bars2))
<1>1. Len(bars) \in Nat /\ Len(bars2) \in Nat /\ Len(bars2) = Len(bars) + 1 /\ K \in Nat \ {0} /\ at - 1 = Len(bars) - K
      /\ at \in Int /\ IsTape(bars2)
  BY TapeAssumption DEF GoesOn, IsTape
<1>2. \A m \in (K + 1)..(at - 1) : \A kind : IsPivotAt(bars2, m, K, kind) <=> IsPivotAt(bars, m, K, kind)
  BY <1>1, PivotStands
<1>3. \A m \in (K + 1)..(at - 1) : m \in 1..Len(bars) /\ bars2[m] = bars[m]
  BY <1>1 DEF GoesOn
<1> HIDE DEF at
<1> DEFINE seen == PivotsSeen(bars2, at - 1)
<1>4. PivotLegs(ls, bars2, at - 1)
  BY <1>1, <1>2 DEF PivotLegs
<1>5. seen = PivotsSeen(bars, at - 1)
  BY <1>2 DEF PivotsSeen
<1>6. LastHolds(ls, bars2, seen)
  <2>1. ASSUME Len(ls) > 0, NEW m \in Nat, <<m, ls[Len(ls)].kind>> \in seen, m > ls[Len(ls)].time
        PROVE  ~Beyond(ls[Len(ls)].kind, Extreme(bars2[m], ls[Len(ls)].kind), ls[Len(ls)].price)
    <3>1. m \in (K + 1)..(at - 1)
      BY <2>1 DEF PivotsSeen
    <3>2. bars2[m] = bars[m]
      BY <1>3, <3>1
    <3>3. <<m, ls[Len(ls)].kind>> \in PivotsSeen(bars, Len(bars) - K)
      BY <1>1, <1>5, <2>1
    <3> QED
      BY <2>1, <3>2, <3>3 DEF LastHolds
  <2> HIDE DEF seen
  <2> QED
    BY <2>1 DEF LastHolds
<1>7. CASE Len(bars2) < 2 * K + 1
  <2>1. Confirmed(bars2) = <<>>
    BY <1>7 DEF Confirmed
  <2>2. ls2 = ls
    BY <2>1 DEF AddPivots
  <2>3. (K + 1)..at = {} /\ (K + 1)..(at - 1) = {}
    BY <1>1, <1>7 DEF at
  <2>4. PivotsSeen(bars2, at) = {}
    BY <2>3 DEF PivotsSeen
  <2>5. Len(ls) = 0
    <3>1. \A i \in 1..Len(ls) : FALSE
      BY <1>4, <2>3 DEF PivotLegs
    <3> QED
      BY <3>1, LenProperties
  <2> QED
    BY <2>2, <2>4, <2>5 DEF PivotLegs, LastHolds, at
<1>8. CASE Len(bars2) >= 2 * K + 1
  <2> DEFINE low == Pivot(bars2, at, "low")
             high == Pivot(bars2, at, "high")
             isLow == IsPivotAt(bars2, at, K, "low")
             isHigh == IsPivotAt(bars2, at, K, "high")
             ls1 == IF isLow THEN AddPivot(ls, low) ELSE ls
             seen1 == IF isLow THEN seen \cup {<<at, "low">>} ELSE seen
             ls3 == IF isHigh THEN AddPivot(ls1, high) ELSE ls1
             seen3 == IF isHigh THEN seen1 \cup {<<at, "high">>} ELSE seen1
  <2>1. at \in 1..Len(bars2) /\ at \in (K + 1)..at /\ at \in Nat
    BY <1>1, <1>8 DEF at
  <2>2. ls2 = ls3
    BY <1>1, <1>8, ConfirmedAdds DEF ConfirmedLegs, at
  <2>3. /\ low \in Leg /\ low.time = at /\ low.kind = "low" /\ low.price = Extreme(bars2[at], "low")
        /\ high \in Leg /\ high.time = at /\ high.kind = "high"
        /\ high.price = Extreme(bars2[at], "high")
    BY <1>1, <2>1, PivotTyped DEF Kinds, Pivot
  <2>4. \A m \in Nat : \A kind : <<m, kind>> \in seen => m <= at
    BY <2>1 DEF PivotsSeen
  <2> HIDE DEF low, high, ls2, isLow, isHigh, seen
  <2>5. /\ ls1 \in Seq(Leg) /\ LastHolds(ls1, bars2, seen1)
        /\ \A i \in 1..Len(ls1) : (i \in 1..Len(ls) /\ ls1[i] = ls[i]) \/ (isLow /\ ls1[i] = low)
    <3>1. CASE isLow
      <4>1. LastHolds(AddPivot(ls, low), bars2, seen \cup {<<at, low.kind>>})
        BY <1>6, <2>1, <2>3, <2>4, AddPivotHolds
      <4> QED
        BY <2>3, <3>1, <4>1, AddPivotEnds
    <3>2. CASE ~isLow
      BY <1>6, <3>2
    <3> QED
      BY <3>1, <3>2
  <2>6. \A m \in Nat : \A kind : <<m, kind>> \in seen1 => m <= at
    BY <2>1, <2>4
  <2> HIDE DEF ls1, seen1
  <2>7. /\ LastHolds(ls3, bars2, seen3)
        /\ \A i \in 1..Len(ls3) : \/ i \in 1..Len(ls1) /\ ls3[i] = ls1[i]
                                  \/ isHigh /\ ls3[i] = high
    <3>1. CASE isHigh
      <4>1. LastHolds(AddPivot(ls1, high), bars2, seen1 \cup {<<at, high.kind>>})
        BY <2>1, <2>3, <2>5, <2>6, AddPivotHolds
      <4> QED
        BY <2>3, <2>5, <3>1, <4>1, AddPivotEnds
    <3>2. CASE ~isHigh
      BY <2>5, <3>2
    <3> QED
      BY <3>1, <3>2
  <2>8. PivotsSeen(bars2, at) = seen3
    <3>1. (K + 1)..at = ((K + 1)..(at - 1)) \cup {at}
      BY <1>1, <2>1
    <3>2. PivotsSeen(bars2, at) =
              seen \cup {<<at, kind>> : kind \in {k \in Kinds : IsPivotAt(bars2, at, K, k)}}
      BY <3>1 DEF PivotsSeen, seen
    <3> QED
      BY <3>2 DEF seen1, isLow, isHigh, Kinds
  <2> HIDE DEF ls3, seen3
  <2>9. \A i \in 1..Len(ls3) : \/ i \in 1..Len(ls) /\ ls3[i] = ls[i]
                               \/ isLow /\ ls3[i] = low
                               \/ isHigh /\ ls3[i] = high
    BY <2>5, <2>7
  <2>10. PivotLegs(ls3, bars2, at)
    <3>1. \A i \in 1..Len(ls) : /\ ls[i].time \in (K + 1)..at
                                /\ IsPivotAt(bars2, ls[i].time, K, ls[i].kind)
      BY <1>1, <1>4, <2>1 DEF PivotLegs
    <3> QED
      BY <2>1, <2>3, <2>9, <3>1 DEF PivotLegs, isLow, isHigh
  <2>11. \A i \in 1..Len(ls) : i \in 1..Len(ls3) => (ls3[i] = ls[i] \/ ls3[i].time = at)
    BY <2>3, <2>9
  <2> QED
    BY <2>2, <2>7, <2>8, <2>10, <2>11 DEF ls2, at
<1> QED
  BY <1>1, <1>7, <1>8

\* The invariant of the legs and the tape.
Held == /\ PivotLegs(legs, tape, Len(tape) - K)
        /\ LastHolds(legs, tape, PivotsSeen(tape, Len(tape) - K))

\* Every leg is a pivot of the tape, and no pivot since the last leg's time is beyond
\* it, for every tape (toAlternatingSwings).
THEOREM LegsHold == Spec => []Held
<1>1. Init => Held
  BY DEF Init, Held, PivotLegs, LastHolds
<1>2. ASSUME Inv, Inv', Held, [Next]_vars PROVE Held'
  <2>1. CASE UNCHANGED vars
    BY <1>2, <2>1 DEF vars, Held
  <2>2. CASE CloseBar
    <3>1. GoesOn(tape, tape') /\ legs \in Seq(Leg) /\ Dated(legs, tape, Len(tape) - K)
      BY <1>2, <2>2, TapeGoesOn DEF Inv, Alternates
    <3>2. legs' = AddPivots(legs, Confirmed(tape'))
      BY <2>2 DEF CloseBar
    <3> QED
      BY <1>2, <3>1, <3>2, ConfirmedHold DEF Held
  <2> QED
    BY <1>2, <2>1, <2>2 DEF Next
<1> QED
  BY <1>1, <1>2, Invariant, PTL DEF Spec

-----------------------------------------------------------------------------
(* Pools, what was taken and what was run *)

\* The line of a pool is the price of one of its swings, and none is beyond it.
LEMMA PoolPriceIs ==
    ASSUME NEW ls \in Seq(Leg), NEW run \in SUBSET (1..Len(ls)), run # {}
    PROVE  /\ LastIndex(run) \in run /\ \A i \in run : i <= LastIndex(run)
           /\ PoolPrice(ls, run) \in Int
           /\ \A i \in run : ~Beyond(ls[LastIndex(run)].kind, ls[i].price, PoolPrice(ls, run))
<1> DEFINE kind == ls[LastIndex(run)].kind
           prices == {ls[i].price : i \in run}
<1>1. Len(ls) \in Nat
  OBVIOUS
<1>2. LastIndex(run) \in run /\ \A i \in run : i <= LastIndex(run)
  BY <1>1, LastIndexIs
<1>3. kind \in Kinds /\ \A i \in run : ls[i].price \in Int
  BY <1>2, LegFields
<1> HIDE DEF kind
<1>4. PICK f \in run : \A j \in run : ~Beyond(kind, ls[j].price, ls[f].price)
  BY <1>3, SomeFarthest
<1>5. \E p \in prices : \A q \in prices : ~Beyond(kind, q, p)
  BY <1>4
<1>6. PoolPrice(ls, run) = CHOOSE p \in prices : \A q \in prices : ~Beyond(kind, q, p)
  BY DEF PoolPrice, kind
<1> HIDE DEF prices
<1>7. PoolPrice(ls, run) \in prices /\ \A q \in prices : ~Beyond(kind, q, PoolPrice(ls, run))
  BY <1>5, <1>6
<1> QED
  BY <1>2, <1>3, <1>7 DEF prices, kind

\* A pool of the read has a swing, and its swings are of one kind.
LEMMA RunOfLevels ==
    ASSUME NEW ls \in Seq(Leg), NEW run \in EqualLevels(ls)
    PROVE  run \in SUBSET (1..Len(ls)) /\ run # {}
<1>1. run \in SUBSET (1..Len(ls)) /\ Cardinality(run) >= 2
  BY DEF EqualLevels
<1>2. Cardinality({}) = 0
  BY FS_EmptySet
<1>3. ~(0 >= 2)
  OBVIOUS
<1> QED
  BY <1>1, <1>2, <1>3

\* A swing that was taken stays taken.
LEMMA TakenStands ==
    ASSUME NEW ls \in Seq(Leg), NEW ls2 \in Seq(Leg), Grows(ls, ls2),
           NEW i \in 1..Len(ls), Taken(ls, i)
    PROVE  Taken(ls2, i)
<1>1. PICK j \in (i + 1)..Len(ls) :
          ls[j].kind = ls[i].kind /\ Beyond(ls[i].kind, ls[j].price, ls[i].price)
  BY DEF Taken
<1>2. /\ Len(ls) \in Nat /\ Len(ls2) \in Nat /\ Len(ls) <= Len(ls2)
      /\ i \in 1..(Len(ls) - 1) /\ j \in 1..Len(ls) /\ j \in (i + 1)..Len(ls2)
      /\ j \in 1..Len(ls2)
  BY DEF Grows
<1>3. ls2[i] = ls[i]
  BY <1>2 DEF Grows
<1>4. ls[i].price \in Int /\ ls[j].price \in Int /\ ls2[j].price \in Int
  BY <1>2, LegFields
<1>5. \/ ls2[j] = ls[j]
      \/ ls2[j].kind = ls[j].kind /\ Beyond(ls[j].kind, ls2[j].price, ls[j].price)
  <2>1. j \in 1..(Len(ls) - 1) \/ j = Len(ls)
    BY <1>2
  <2> QED
    BY <1>2, <2>1 DEF Grows
<1>6. ls2[j].kind = ls[i].kind /\ Beyond(ls[i].kind, ls2[j].price, ls[i].price)
  <2>1. ASSUME ls2[j].kind = ls[j].kind, Beyond(ls[j].kind, ls2[j].price, ls[j].price)
        PROVE  Beyond(ls[i].kind, ls2[j].price, ls[i].price)
    <3>1. Beyond(ls[i].kind, ls2[j].price, ls[j].price)
      BY <1>1, <2>1
    <3> QED
      BY <1>1, <1>4, <3>1, BeyondTransitive
  <2> QED
    BY <1>1, <1>5, <2>1
<1> QED
  BY <1>2, <1>3, <1>6 DEF Taken

\* A pool that was run stays run: a pool with a swing beyond it is completed.
LEMMA RunStands ==
    ASSUME NEW ls \in Seq(Leg), NEW ls2 \in Seq(Leg), Grows(ls, ls2),
           NEW run \in EqualLevels(ls), ~Intact(ls, run)
    PROVE  ~Intact(ls2, run)
<1> DEFINE last == LastIndex(run)
           price == PoolPrice(ls, run)
<1>1. run \in SUBSET (1..Len(ls)) /\ run # {}
  BY RunOfLevels
<1>2. last \in run /\ (\A i \in run : i <= last) /\ price \in Int
  BY <1>1, PoolPriceIs
<1> HIDE DEF last, price
<1>3. PICK j \in (last + 1)..Len(ls) :
          ls[j].kind = ls[last].kind /\ Beyond(ls[j].kind, ls[j].price, price)
  BY DEF Intact, last, price
<1>4. /\ Len(ls) \in Nat /\ Len(ls2) \in Nat /\ Len(ls) <= Len(ls2)
      /\ last \in 1..(Len(ls) - 1) /\ j \in 1..Len(ls) /\ j \in (last + 1)..Len(ls2)
      /\ j \in 1..Len(ls2)
  BY <1>1, <1>2 DEF Grows
<1>5. \A i \in run : ls2[i] = ls[i]
  <2>1. \A i \in run : i \in 1..(Len(ls) - 1)
    BY <1>1, <1>2, <1>4
  <2> QED
    BY <2>1 DEF Grows
<1>6. PoolPrice(ls2, run) = price
  <2>1. {ls2[i].price : i \in run} = {ls[i].price : i \in run} /\ ls2[last].kind = ls[last].kind
    BY <1>2, <1>5
  <2> QED
    BY <2>1 DEF PoolPrice, price, last
<1>7. ls[j].price \in Int /\ ls2[j].price \in Int
  BY <1>4, LegFields
<1>8. \/ ls2[j] = ls[j]
      \/ ls2[j].kind = ls[j].kind /\ Beyond(ls[j].kind, ls2[j].price, ls[j].price)
  <2>1. j \in 1..(Len(ls) - 1) \/ j = Len(ls)
    BY <1>4
  <2> QED
    BY <1>4, <2>1 DEF Grows
<1>9. ls2[j].kind = ls2[last].kind /\ Beyond(ls2[j].kind, ls2[j].price, price)
  <2>1. ASSUME ls2[j].kind = ls[j].kind, Beyond(ls[j].kind, ls2[j].price, ls[j].price)
        PROVE  Beyond(ls2[j].kind, ls2[j].price, price)
    BY <1>2, <1>3, <1>7, <2>1, BeyondTransitive
  <2> QED
    BY <1>2, <1>3, <1>5, <1>8, <2>1
<1> QED
  BY <1>4, <1>6, <1>9 DEF Intact, last

-----------------------------------------------------------------------------
(* Between two pivots of a kind, a bar beyond a line neither is beyond means *)
(* a pivot beyond that line: the first of the farthest bars between them.    *)

\* Of some bars there is a farthest, and a first of the farthest.
LEMMA FarthestBar ==
    ASSUME NEW bars, IsTape(bars), NEW kind \in Kinds, NEW S \in SUBSET (1..Len(bars)), S # {}
    PROVE  \E m \in S : \A j \in S :
                /\ ~Beyond(kind, Extreme(bars[j], kind), Extreme(bars[m], kind))
                /\ ~(j < m /\ Extreme(bars[j], kind) = Extreme(bars[m], kind))
<1> DEFINE ls == [t \in 1..Len(bars) |-> Pivot(bars, t, kind)]
           F == {m \in S : \A j \in S : ~Beyond(kind, Extreme(bars[j], kind), Extreme(bars[m], kind))}
<1>1. Len(bars) \in Nat /\ \A t \in 1..Len(bars) : Pivot(bars, t, kind) \in Leg
  BY PivotTyped DEF IsTape
<1>2. ls \in Seq(Leg) /\ Len(ls) = Len(bars) /\ \A t \in 1..Len(bars) : ls[t].price = Extreme(bars[t], kind)
  BY <1>1 DEF Pivot
<1>3. F # {}
  <2> HIDE DEF ls
  <2>1. S \in SUBSET (1..Len(ls))
    BY <1>2
  <2>2. PICK f \in S : \A j \in S : ~Beyond(kind, ls[j].price, ls[f].price)
    BY <1>2, <2>1, SomeFarthest
  <2> QED
    BY <1>2, <2>2
<1>4. F \subseteq Nat
  <2>1. \A m \in S : m \in Nat
    BY <1>1
  <2> QED
    BY <2>1
<1>5. PICK m \in F : \A j \in F : m <= j
  <2> HIDE DEF F
  <2> QED
    BY <1>3, <1>4, LeastIndex
<1>6. ASSUME NEW j \in S, j < m, Extreme(bars[j], kind) = Extreme(bars[m], kind) PROVE FALSE
  <2>1. j \in F
    BY <1>5, <1>6
  <2>2. m <= j /\ m \in Nat /\ j \in Nat
    BY <1>4, <1>5, <2>1
  <2> QED
    BY <1>6, <2>2
<1> QED
  BY <1>5, <1>6

\* That bar is a pivot: what is around it is nearer, up to bars the two pivots beat.
LEMMA PivotBetween ==
    ASSUME NEW bars, IsTape(bars), NEW kind \in Kinds, NEW a \in (K + 1)..(Len(bars) - K),
           NEW b \in (K + 1)..(Len(bars) - K), NEW line \in Int,
           IsPivotAt(bars, a, K, kind), IsPivotAt(bars, b, K, kind),
           ~Beyond(kind, Extreme(bars[a], kind), line), ~Beyond(kind, Extreme(bars[b], kind), line),
           NEW t \in (a + 1)..b, Beyond(kind, Extreme(bars[t], kind), line)
    PROVE  \E m \in (a + 1)..(b - 1) : /\ IsPivotAt(bars, m, K, kind)
                                       /\ Beyond(kind, Extreme(bars[m], kind), line)
<1> DEFINE S == (a + 1)..b
           X(j) == Extreme(bars[j], kind)
<1>1. Len(bars) \in Nat /\ K \in Nat /\ a \in Int /\ b \in Int /\ S \in SUBSET (1..Len(bars)) /\ t \in S
  BY TapeAssumption DEF IsTape
<1>2. \A j \in 1..Len(bars) : X(j) \in Int
  BY DEF Extreme, IsTape
<1>3. PICK m \in S : \A j \in S : ~Beyond(kind, X(j), X(m)) /\ ~(j < m /\ X(j) = X(m))
  BY <1>1, FarthestBar
<1>4. m \in 1..Len(bars) /\ t \in 1..Len(bars) /\ a \in 1..Len(bars) /\ b \in 1..Len(bars)
  BY <1>1
<1> DEFINE V(j) == X(j)
<1>5. Beyond(kind, X(m), line)
  <2>1. ~Beyond(kind, X(t), X(m)) /\ Beyond(kind, X(t), line)
    BY <1>1, <1>3
  <2>2. X(t) \in Int /\ X(m) \in Int
    BY <1>2, <1>4
  <2> HIDE DEF X
  <2> QED
    BY <2>1, <2>2 DEF Beyond
<1>6. m # b
  BY <1>5
<1>7. m \in (a + 1)..(b - 1)
  BY <1>1, <1>6
<1>8. ASSUME NEW j \in (m - K)..(m + K), j # m
      PROVE  ~Beyond(kind, X(j), X(m)) /\ ~(j < m /\ X(j) = X(m))
  <2>1. j \in 1..Len(bars) /\ X(j) \in Int /\ X(m) \in Int /\ X(a) \in Int /\ X(b) \in Int
    <3>1. j \in 1..Len(bars)
      BY <1>1, <1>7, <1>8
    <3> QED
      BY <1>2, <1>4, <3>1
  <2>2. CASE j \in S
    BY <1>3, <2>2
  <2>3. CASE j <= a
    <3>1. j \in (a - K)..(a + K)
      BY <1>1, <1>7, <1>8, <2>3
    <3>2. j = a \/ ~Beyond(kind, X(j), X(a))
      BY <3>1 DEF IsPivotAt
    <3>3. ~Beyond(kind, X(j), line)
      <4>1. ~Beyond(kind, X(a), line)
        OBVIOUS
      <4> HIDE DEF X
      <4> QED
        BY <2>1, <3>2, <4>1 DEF Beyond
    <3> HIDE DEF X
    <3> QED
      BY <1>5, <2>1, <3>3 DEF Beyond
  <2>4. CASE j > b
    <3>1. j \in (b - K)..(b + K) /\ j # b
      BY <1>1, <1>7, <1>8, <2>4
    <3>2. ~Beyond(kind, X(j), X(b))
      BY <3>1 DEF IsPivotAt
    <3>3. ~Beyond(kind, X(j), line)
      <4>1. ~Beyond(kind, X(b), line)
        OBVIOUS
      <4> HIDE DEF X
      <4> QED
        BY <2>1, <3>2, <4>1 DEF Beyond
    <3>4. Beyond(kind, X(m), line)
      BY <1>5
    <3> HIDE DEF X
    <3> QED
      BY <2>1, <3>3, <3>4 DEF Beyond
  <2> QED
    BY <1>1, <1>8, <2>2, <2>3, <2>4
<1>9. IsPivotAt(bars, m, K, kind)
  BY <1>8 DEF IsPivotAt
<1> QED
  BY <1>5, <1>7, <1>9

-----------------------------------------------------------------------------
(* Sweeps *)

\* The bars after a pool's last touch that trade through its line, and the sweep
\* that a bar among them makes.
Through(ls, run, bars) ==
    {t \in (ls[LastIndex(run)].time + 1)..Len(bars) :
        Beyond(ls[LastIndex(run)].kind, Extreme(bars[t], ls[LastIndex(run)].kind), PoolPrice(ls, run))}

\* The sweep a bar makes of a pool's line.
SweepAt(kind, price, run, bars, t) ==
    [pool |-> [kind |-> kind, price |-> price, members |-> run],
     time |-> t, extreme |-> Extreme(bars[t], kind), close |-> bars[t].close]

\* The sweep of a pool is the one of the first bar through its line.
LEMMA SweepIs ==
    ASSUME NEW ls, NEW run, NEW bars, NEW s, NEW kind, kind = ls[LastIndex(run)].kind,
           NEW price, price = PoolPrice(ls, run), NEW t, t = FirstIndex(Through(ls, run, bars))
    PROVE  s \in SweepOf(ls, PoolFrom(ls, run), bars) <=>
               /\ Through(ls, run, bars) # {}
               /\ ~Beyond(kind, bars[t].close, price)
               /\ s = SweepAt(kind, price, run, bars, t)
<1>1. /\ PoolFrom(ls, run).kind = kind
      /\ PoolFrom(ls, run).price = price
      /\ PoolFrom(ls, run).members = run
  BY DEF PoolFrom
<1>2. {u \in (ls[LastIndex(run)].time + 1)..Len(bars) :
          Beyond(kind, Extreme(bars[u], kind), price)} = Through(ls, run, bars)
  BY DEF Through
<1> QED
  BY <1>1, <1>2 DEF SweepOf, SweepAt

\* A sweep of a pool drawn the same stays: no bar between the old last touch and
\* the new one is beyond the pool's line.
LEMMA SweepStands ==
    ASSUME Inv, Inv', Held, Held', CloseBar,
           NEW run \in EqualLevels(legs), run \in EqualLevels(legs'),
           PoolPrice(legs', run) = PoolPrice(legs, run),
           NEW s \in SweepOf(legs, PoolFrom(legs, run), tape)
    PROVE  s \in SweepOf(legs', PoolFrom(legs', run), tape')
<1> DEFINE last == LastIndex(run)
           kind == legs[last].kind
           price == PoolPrice(legs, run)
           through == {t \in (legs[last].time + 1)..Len(tape) :
                          Beyond(kind, Extreme(tape[t], kind), price)}
           t0 == FirstIndex(through)
           through2 == {t \in (legs'[last].time + 1)..Len(tape') :
                          Beyond(kind, Extreme(tape'[t], kind), price)}
           at == Len(tape') - K
<1>1. GoesOn(tape, tape') /\ legs \in Seq(Leg) /\ legs' \in Seq(Leg) /\ Grows(legs, legs')
      /\ IsTape(tape) /\ IsTape(tape')
  BY TapeGoesOn, LegsGrow DEF GoesOn, Next
<1>2. /\ Len(tape) \in Nat /\ Len(tape') = Len(tape) + 1 /\ K \in Nat \ {0}
      /\ at - 1 = Len(tape) - K /\ at \in Int
      /\ \A t \in 1..Len(tape) : tape'[t] = tape[t]
  BY <1>1, TapeAssumption DEF GoesOn, IsTape
<1>3. run \in SUBSET (1..Len(legs)) /\ run # {} /\ run \in SUBSET (1..Len(legs'))
  BY <1>1, RunOfLevels
<1>4. /\ last \in run /\ last \in 1..Len(legs) /\ last \in 1..Len(legs') /\ price \in Int
      /\ ~Beyond(kind, legs[last].price, price)
      /\ ~Beyond(legs'[last].kind, legs'[last].price, price)
  BY <1>1, <1>3, PoolPriceIs
<1>5. kind \in Kinds /\ legs'[last].kind = kind /\ legs[last].price \in Int /\ legs'[last].price \in Int
  <2>1. last \in 1..(Len(legs) - 1) \/ (last = Len(legs) /\ Len(legs) > 0)
    <3>1. Len(legs) \in Nat
      BY <1>1, LenProperties
    <3> QED
      BY <1>4, <3>1
  <2>2. legs'[last].kind = kind
    BY <1>1, <2>1 DEF Grows
  <2> QED
    BY <1>1, <1>4, <2>2, LegFields
<1>6. legs[last].time \in (K + 1)..(at - 1) /\ IsPivotAt(tape, legs[last].time, K, kind)
      /\ legs[last].price = Extreme(tape[legs[last].time], kind)
  BY <1>2, <1>4 DEF Held, PivotLegs, Inv, Dated
<1>7. legs'[last].time \in (K + 1)..at /\ IsPivotAt(tape', legs'[last].time, K, kind)
      /\ legs'[last].price = Extreme(tape'[legs'[last].time], kind)
  <2>1. /\ legs'[last].time \in (K + 1)..at /\ IsPivotAt(tape', legs'[last].time, K, legs'[last].kind)
        /\ legs'[last].price = Extreme(tape'[legs'[last].time], legs'[last].kind)
    BY <1>4 DEF Held, PivotLegs, Inv, Dated
  <2> QED
    BY <1>5, <2>1
<1> HIDE DEF last, kind, price, at
<1>8. /\ through # {} /\ ~Beyond(kind, tape[t0].close, price)
      /\ s = SweepAt(kind, price, run, tape, t0)
  <2>1. through = Through(legs, run, tape)
    BY DEF Through, last, kind, price
  <2> HIDE DEF through
  <2> QED
    BY <2>1, SweepIs DEF last, kind, price
<1>9. legs'[last] = legs[last] \/ legs'[last].time = at
  <2>1. Dated(legs, tape, Len(tape) - K)
    BY DEF Inv
  <2>2. legs' = AddPivots(legs, Confirmed(tape'))
    BY DEF CloseBar
  <2> QED
    BY <1>1, <1>4, <2>1, <2>2, ConfirmedHold DEF Held, at
<1>10. through \subseteq Nat
  <2>1. \A t \in (legs[last].time + 1)..Len(tape) : t \in Nat
    BY <1>2, <1>6
  <2> QED
    BY <2>1
<1>11. t0 \in through /\ \A t \in through : t0 <= t
  <2> HIDE DEF through
  <2> QED
    BY <1>8, <1>10, FirstIndexIs
<1>12. t0 \in 1..Len(tape) /\ tape'[t0] = tape[t0]
  BY <1>2, <1>6, <1>11
<1>13. t0 > legs'[last].time /\ legs'[last].time >= legs[last].time
  <2>1. CASE legs'[last] = legs[last]
    BY <1>6, <1>11, <2>1
  <2>2. CASE legs'[last] # legs[last]
    <3>1. legs'[last].time = at
      BY <1>9, <2>2
    <3>2. last = Len(legs) /\ Len(legs) > 0
      <4>1. Len(legs) \in Nat
        BY <1>1, LenProperties
      <4>2. last \notin 1..(Len(legs) - 1)
        BY <1>1, <2>2 DEF Grows
      <4> QED
        BY <1>4, <4>1, <4>2
    <3>3. SUFFICES ASSUME t0 <= at PROVE FALSE
      BY <1>2, <1>6, <1>12, <3>1
    <3>4. legs[last].time \in (K + 1)..(Len(tape') - K) /\ at \in (K + 1)..(Len(tape') - K)
      BY <1>2, <1>6 DEF at
    <3>5. t0 \in (legs[last].time + 1)..at /\ Beyond(kind, Extreme(tape'[t0], kind), price)
      BY <1>2, <1>6, <1>11, <1>12, <3>3
    <3>6. legs[last].time \in 1..Len(tape) /\ legs[last].time \in (K + 1)..(Len(tape) - K)
      BY <1>2, <1>6
    <3>7. IsPivotAt(tape', legs[last].time, K, kind) /\ IsPivotAt(tape', at, K, kind)
      BY <1>1, <1>6, <1>7, <3>1, <3>6, PivotStands
    <3>8. ~Beyond(kind, Extreme(tape'[legs[last].time], kind), price)
          /\ ~Beyond(kind, Extreme(tape'[at], kind), price)
      BY <1>2, <1>4, <1>5, <1>6, <1>7, <3>1, <3>6 DEF kind
    <3>9. PICK m \in (legs[last].time + 1)..(at - 1) :
              IsPivotAt(tape', m, K, kind) /\ Beyond(kind, Extreme(tape'[m], kind), price)
      BY <1>1, <1>4, <1>5, <3>4, <3>5, <3>7, <3>8, PivotBetween
    <3>10. m \in (K + 1)..(Len(tape) - K) /\ m \in Nat /\ m \in 1..Len(tape) /\ m > legs[last].time
      BY <1>2, <3>6, <3>9
    <3>11. IsPivotAt(tape, m, K, kind) /\ Beyond(kind, Extreme(tape[m], kind), price)
      BY <1>1, <1>2, <3>9, <3>10, PivotStands
    <3>12. <<m, kind>> \in PivotsSeen(tape, Len(tape) - K)
      BY <1>5, <3>10, <3>11 DEF PivotsSeen
    <3>13. ~Beyond(kind, Extreme(tape[m], kind), legs[last].price)
      BY <3>2, <3>10, <3>12 DEF Held, LastHolds, kind
    <3>14. Extreme(tape[m], kind) \in Int
      BY <1>1, <3>10 DEF IsTape, Extreme
    <3>15. ~Beyond(kind, legs[last].price, price)
      BY <1>4 DEF kind
    <3> QED
      BY <1>4, <1>5, <3>11, <3>13, <3>14, <3>15 DEF Beyond
  <2> QED
    BY <2>1, <2>2
<1>14. t0 \in through2 /\ \A t \in through2 : t0 <= t
  <2>1. t0 \in through2
    <3>1. t0 \in (legs'[last].time + 1)..Len(tape')
      BY <1>2, <1>7, <1>12, <1>13
    <3> QED
      BY <1>11, <1>12, <3>1
  <2>2. ASSUME NEW t \in through2 PROVE t0 <= t
    <3>1. CASE t \in 1..Len(tape)
      <4>1. t \in through
        BY <1>2, <1>6, <1>7, <1>13, <2>2, <3>1, SMTT(40)
      <4> QED
        BY <1>11, <4>1
    <3>2. CASE t \notin 1..Len(tape)
      <4>1. t \in (legs'[last].time + 1)..Len(tape')
        BY <2>2
      <4>2. t \in Int /\ t >= legs'[last].time + 1 /\ t <= Len(tape) + 1
        BY <1>2, <1>7, <4>1
      <4> QED
        BY <1>2, <1>7, <1>12, <3>2, <4>2
    <3> QED
      BY <3>1, <3>2
  <2> QED
    BY <2>1, <2>2
<1>15. FirstIndex(through2) = t0
  <2>1. through2 \subseteq Nat
    <3>1. \A t \in (legs'[last].time + 1)..Len(tape') : t \in Nat
      BY <1>2, <1>7
    <3> QED
      BY <3>1
  <2>2. FirstIndex(through2) \in through2 /\ \A t \in through2 : FirstIndex(through2) <= t
    <3> HIDE DEF through2
    <3> QED
      BY <1>14, <2>1, FirstIndexIs
  <2>3. FirstIndex(through2) \in Nat /\ t0 \in Nat /\ FirstIndex(through2) <= t0
        /\ t0 <= FirstIndex(through2)
    <3> HIDE DEF through2, t0
    <3> QED
      BY <1>12, <1>14, <2>1, <2>2
  <2> HIDE DEF through2, t0
  <2> QED
    BY <2>3
<1>16. /\ through2 # {} /\ ~Beyond(kind, tape'[FirstIndex(through2)].close, price)
       /\ s = SweepAt(kind, price, run, tape', FirstIndex(through2))
  <2> HIDE DEF through, through2, t0
  <2> QED
    BY <1>8, <1>12, <1>14, <1>15 DEF SweepAt
<1>17. LastIndex(run) = last /\ legs'[LastIndex(run)].kind = kind /\ PoolPrice(legs', run) = price
  BY <1>5 DEF last, price
<1>18. through2 = Through(legs', run, tape')
  BY <1>17 DEF Through, last
<1> HIDE DEF through2
<1> QED
  BY <1>16, <1>17, <1>18, SweepIs

\* A pool that was run, a swing that was taken and a sweep never come back.
THEOREM SpentIsSpent == Spec => SpentStaysSpent
<1> DEFINE Kept ==
        /\ \A i \in 1..Len(legs) : Taken(legs, i) => Taken(legs', i)
        /\ \A run \in EqualLevels(legs) \cap EqualLevels(legs') :
             ~Intact(legs, run) => ~Intact(legs', run)
        /\ \A s \in DetectLiquiditySweeps(legs, tape) :
             s.pool.members \in EqualLevels(legs')
             /\ PoolPrice(legs', s.pool.members) = s.pool.price
             => s \in DetectLiquiditySweeps(legs', tape')
<1>1. ASSUME Inv, Inv', Held, Held', CloseBar PROVE Kept
  <2>1. legs \in Seq(Leg) /\ legs' \in Seq(Leg) /\ Grows(legs, legs')
    BY <1>1, LegsGrow DEF Next
  <2>2. \A i \in 1..Len(legs) : Taken(legs, i) => Taken(legs', i)
    BY <2>1, TakenStands
  <2>3. \A run \in EqualLevels(legs) : ~Intact(legs, run) => ~Intact(legs', run)
    BY <2>1, RunStands
  <2>4. ASSUME NEW s \in DetectLiquiditySweeps(legs, tape),
               s.pool.members \in EqualLevels(legs'),
               PoolPrice(legs', s.pool.members) = s.pool.price
        PROVE  s \in DetectLiquiditySweeps(legs', tape')
    <3>1. PICK run \in EqualLevels(legs) : s \in SweepOf(legs, PoolFrom(legs, run), tape)
      BY DEF DetectLiquiditySweeps
    <3>2. s.pool.members = run /\ s.pool.price = PoolPrice(legs, run)
      <4>1. \E kind, price, t : price = PoolPrice(legs, run) /\ s = SweepAt(kind, price, run, tape, t)
        BY <3>1, SweepIs
      <4> QED
        BY <4>1 DEF SweepAt
    <3>3. s \in SweepOf(legs', PoolFrom(legs', run), tape')
      BY <1>1, <2>4, <3>1, <3>2, SweepStands
    <3> QED
      BY <2>4, <3>2, <3>3 DEF DetectLiquiditySweeps
  <2> QED
    BY <2>2, <2>3, <2>4
<1>2. Inv /\ Inv' /\ Held /\ Held' /\ [Next]_vars => [Kept]_vars
  BY <1>1 DEF Next
<1>3. [][Kept]_vars => SpentStaysSpent
  BY DEF SpentStaysSpent
<1> HIDE DEF Kept
<1> QED
  BY <1>2, <1>3, Invariant, LegsHold, PTL DEF Spec

-----------------------------------------------------------------------------
(* Sets listed by rank *)

\* rk counts, for each member of S, the members that R puts before it.
CountsBefore(rk, S, R) == \A x \in S : rk[x] = Cardinality({y \in S : <<y, x>> \in R})

\* R puts the members of S in an order.
Orders(R, S) ==
    /\ \A x \in S : <<x, x>> \notin R
    /\ \A x \in S : \A y \in S : x # y => <<x, y>> \in R \/ <<y, x>> \in R
    /\ \A x \in S : \A y \in S : \A z \in S : <<x, y>> \in R /\ <<y, z>> \in R => <<x, z>> \in R

\* The count grows along the order, and takes every value from 0 on.
Ranked(rk, S, R) ==
    /\ \A x \in S : \A y \in S : <<x, y>> \in R <=> rk[x] < rk[y]
    /\ \A x \in S : rk[x] \in Nat /\ rk[x] + 1 \in 1..Cardinality(S)
    /\ \A n \in 1..Cardinality(S) : \E x \in S : rk[x] = n - 1

\* Counting what an order puts before each member of a finite set ranks them.
LEMMA Ranks ==
    ASSUME NEW S, IsFiniteSet(S), NEW R, Orders(R, S), NEW rk, CountsBefore(rk, S, R)
    PROVE  Ranked(rk, S, R)
<1> DEFINE N == Cardinality(S)
           before(x) == {y \in S : <<y, x>> \in R}
<1>1. N \in Nat /\ \A x \in S : /\ IsFiniteSet(before(x)) /\ Cardinality(before(x)) \in Nat
                               /\ rk[x] = Cardinality(before(x))
  <2>1. \A x \in S : before(x) \in SUBSET S
    OBVIOUS
  <2>2. \A x \in S : rk[x] = Cardinality(before(x))
    BY DEF CountsBefore
  <2> HIDE DEF before
  <2> QED
    BY <2>1, <2>2, FS_Subset, FS_CardinalityType
<1>a. \A x \in S : rk[x] \in Nat
  <2> HIDE DEF before
  <2> QED
    BY <1>1
<1>2. ASSUME NEW x \in S, NEW y \in S, <<x, y>> \in R PROVE rk[x] < rk[y]
  <2>1. before(x) \in SUBSET before(y) /\ x \in before(y) /\ x \notin before(x)
    BY <1>2 DEF Orders
  <2> HIDE DEF before
  <2>2. Cardinality(before(x)) <= Cardinality(before(y))
    BY <1>1, <2>1, FS_Subset
  <2>3. Cardinality(before(x)) # Cardinality(before(y))
    BY <1>1, <2>1, FS_Subset
  <2> QED
    BY <1>1, <2>2, <2>3
<1>3. ASSUME NEW x \in S, NEW y \in S, rk[x] < rk[y] PROVE <<x, y>> \in R
  <2>1. x # y /\ ~(rk[y] < rk[x])
    BY <1>a, <1>3
  <2> QED
    BY <1>2, <2>1 DEF Orders
<1>4. \A x \in S : rk[x] + 1 \in 1..N
  <2> TAKE x \in S
  <2>1. before(x) \in SUBSET S /\ x \notin before(x)
    BY DEF Orders
  <2> HIDE DEF before
  <2>2. Cardinality(before(x)) <= N /\ Cardinality(before(x)) # N
    BY <2>1, FS_Subset
  <2> HIDE DEF N
  <2> QED
    BY <1>1, <2>2
<1> DEFINE f == [x \in S |-> rk[x] + 1]
<1>5. f \in Injection(S, 1..N)
  <2>1. f \in [S -> 1..N]
    BY <1>4
  <2>2. \A x \in S : \A y \in S : f[x] = f[y] => x = y
    <3> SUFFICES ASSUME NEW x \in S, NEW y \in S, f[x] = f[y], x # y PROVE FALSE
      OBVIOUS
    <3>1. rk[x] = rk[y] /\ rk[x] \in Nat
      BY <1>a
    <3>2. rk[x] < rk[y] \/ rk[y] < rk[x]
      BY <1>2 DEF Orders
    <3> QED
      BY <3>1, <3>2
  <2> HIDE DEF f
  <2> QED
    BY <2>1, <2>2 DEF Injection, IsInjective
<1>6. IsFiniteSet(1..N) /\ Cardinality(1..N) = N
  BY <1>1, FS_Interval
<1>7. f \in Surjection(S, 1..N)
  <2> HIDE DEF f
  <2> QED
    BY <1>5, <1>6, FS_Injection
<1>8. \A n \in 1..N : \E x \in S : f[x] = n
  <2> HIDE DEF f
  <2> QED
    BY <1>7 DEF Surjection
<1>9. \A n \in 1..N : \E x \in S : rk[x] = n - 1
  <2> TAKE n \in 1..N
  <2>1. PICK x \in S : f[x] = n
    BY <1>8
  <2>2. rk[x] = n - 1
    <3> HIDE DEF N
    <3> QED
      BY <1>a, <1>1, <2>1
  <2> QED
    BY <2>2
<1> QED
  BY <1>a, <1>2, <1>3, <1>4, <1>9 DEF Ranked

\* So a function that puts at place n the member with n - 1 before it lists each
\* member once, in the order.
Lists(s, S, R) ==
    /\ Len(s) = Cardinality(S) /\ Len(s) \in Nat
    /\ \A n \in 1..Len(s) : s[n] \in S
    /\ \A m \in 1..Len(s) : \A n \in 1..Len(s) : m < n => <<s[m], s[n]>> \in R
    /\ \A m \in 1..Len(s) : \A n \in 1..Len(s) : s[m] = s[n] => m = n
    /\ \A x \in S : \E n \in 1..Len(s) : s[n] = x

\* The members put at the place of their rank are such a list.
LEMMA Listing ==
    ASSUME NEW S, IsFiniteSet(S), NEW R, Orders(R, S), NEW rk, Ranked(rk, S, R),
           NEW s \in [1..Cardinality(S) -> S], \A n \in 1..Cardinality(S) : rk[s[n]] = n - 1
    PROVE  Lists(s, S, R)
<1> DEFINE N == Cardinality(S)
<1>1. N \in Nat
  BY FS_CardinalityType
<1> HIDE DEF N
<1>2. s \in [1..N -> S] /\ \A n \in 1..N : s[n] \in S /\ rk[s[n]] = n - 1
  BY DEF N
<1>3. Len(s) = N
  <2>1. s \in Seq(S) /\ DOMAIN s = 1..N
    BY <1>1, <1>2
  <2> QED
    BY <1>1, <2>1
<1>4. ASSUME NEW m \in 1..N, NEW n \in 1..N, m < n PROVE <<s[m], s[n]>> \in R
  <2>1. rk[s[m]] < rk[s[n]]
    <3>1. m - 1 < n - 1
      BY <1>1, <1>4
    <3> QED
      BY <1>2, <3>1
  <2> QED
    BY <1>2, <2>1 DEF Ranked
<1>5. ASSUME NEW m \in 1..N, NEW n \in 1..N, s[m] = s[n] PROVE m = n
  <2>1. m - 1 = n - 1
    BY <1>2, <1>5
  <2> QED
    BY <1>1, <2>1
<1>6. ASSUME NEW x \in S PROVE \E n \in 1..N : s[n] = x
  <2> DEFINE n == rk[x] + 1
  <2>1. n \in 1..N /\ rk[x] \in Nat /\ n - 1 = rk[x]
    BY DEF Ranked, N
  <2> HIDE DEF n
  <2>2. s[n] \in S /\ rk[s[n]] = rk[x]
    BY <1>2, <2>1
  <2>3. s[n] # x => rk[s[n]] < rk[x] \/ rk[x] < rk[s[n]]
    BY <2>2 DEF Ranked, Orders
  <2> QED
    BY <2>1, <2>2, <2>3
<1> QED
  BY <1>1, <1>2, <1>3, <1>4, <1>5, <1>6 DEF Lists, N

\* Nearest lists each of the swings once.
LEMMA NearestIs ==
    ASSUME NEW ls \in Seq(Leg), NEW kind \in Kinds, NEW S \in SUBSET (1..Len(ls))
    PROVE  LET s == Nearest(ls, kind, S)
           IN  /\ Len(s) \in Nat
               /\ \A n \in 1..Len(s) : s[n] \in S
               /\ \A m \in 1..Len(s) : \A n \in 1..Len(s) : s[m] = s[n] => m = n
               /\ \A i \in S : \E n \in 1..Len(s) : s[n] = i
<1> DEFINE N == Cardinality(S)
           nearer(j, i) == \/ Beyond(kind, ls[i].price, ls[j].price)
                           \/ (ls[i].price = ls[j].price /\ j < i)
           before(i) == {j \in S : nearer(j, i)}
           R == {pair \in S \X S : nearer(pair[1], pair[2])}
           rk == [i \in S |-> Cardinality(before(i))]
           s == Nearest(ls, kind, S)
<1>1. Len(ls) \in Nat /\ \A i \in S : i \in 1..Len(ls) /\ i \in Int /\ ls[i].price \in Int
  BY LegFields
<1>2. IsFiniteSet(S) /\ N \in Nat
  <2>1. IsFiniteSet(1..Len(ls))
    BY <1>1, FS_Interval
  <2>2. IsFiniteSet(S)
    BY <2>1, FS_Subset
  <2> QED
    BY <2>2, FS_CardinalityType
<1>3. \A i, j \in S : <<i, j>> \in R <=> nearer(i, j)
  OBVIOUS
<1>4. Orders(R, S)
  <2>1. \A i \in S : ~nearer(i, i)
    BY <1>1 DEF Beyond
  <2>2. \A i, j \in S : i # j => nearer(i, j) \/ nearer(j, i)
    BY <1>1 DEF Beyond
  <2>3. \A i, j, k \in S : nearer(i, j) /\ nearer(j, k) => nearer(i, k)
    BY <1>1 DEF Beyond
  <2> HIDE DEF R, nearer
  <2> QED
    BY <1>3, <2>1, <2>2, <2>3 DEF Orders
<1>5. CountsBefore(rk, S, R)
  <2>1. ASSUME NEW i \in S PROVE before(i) = {j \in S : <<j, i>> \in R}
    BY <1>3
  <2> HIDE DEF before, R
  <2> QED
    BY <2>1 DEF CountsBefore
<1>6. s = [n \in 1..N |-> CHOOSE i \in S : Cardinality(before(i)) = n - 1]
  BY DEF Nearest
<1> HIDE DEF R, before, s
<1>7. Ranked(rk, S, R) /\ \A i \in S : rk[i] = Cardinality(before(i))
  <2>1. \A i \in S : rk[i] = Cardinality(before(i))
    OBVIOUS
  <2> HIDE DEF rk
  <2> QED
    BY <1>2, <1>4, <1>5, <2>1, Ranks
<1> HIDE DEF rk
<1>8. ASSUME NEW n \in 1..N PROVE s[n] \in S /\ rk[s[n]] = n - 1
  <2>1. s[n] = CHOOSE i \in S : Cardinality(before(i)) = n - 1
    BY <1>6
  <2>2. \E i \in S : Cardinality(before(i)) = n - 1
    BY <1>7 DEF Ranked
  <2>3. s[n] \in S /\ Cardinality(before(s[n])) = n - 1
    BY <2>1, <2>2
  <2> QED
    BY <1>7, <2>3
<1>9. s \in [1..N -> S]
  BY <1>6, <1>8
<1>10. Lists(s, S, R)
  <2> HIDE DEF N
  <2> QED
    BY <1>2, <1>4, <1>7, <1>8, <1>9, Listing DEF N
<1> QED
  BY <1>10 DEF Lists, s

-----------------------------------------------------------------------------
(* Candidates of a trade objective *)

\* Pools with a line, a confidence and swings, told apart by their swings.
PoolsFit(pools, ls) ==
    \A p \in pools :
        /\ p.price \in Int /\ p.confidence \in Int /\ p.kind \in Kinds
        /\ p.members \in SUBSET (1..Len(ls)) /\ p.members # {}
        /\ \A q \in pools : q.members = p.members => q = p

\* Two pools at one distance are listed one before the other, not both.
LEMMA ListedOnce ==
    ASSUME NEW p, NEW q, p.price \in Int, q.price \in Int, p.confidence \in Int,
           q.confidence \in Int, FirstIndex(p.members) \in Int, FirstIndex(q.members) \in Int,
           ListedBefore(p, q)
    PROVE  ~ListedBefore(q, p)
<1> DEFINE a == FirstIndex(p.members)
           b == FirstIndex(q.members)
           cp == p.confidence
           cq == q.confidence
           pp == p.price
           pq == q.price
<1>1. /\ a \in Int /\ b \in Int /\ cp \in Int /\ cq \in Int /\ pp \in Int /\ pq \in Int
      /\ \/ cp > cq
         \/ /\ cp = cq
            /\ \/ pp < pq
               \/ pp = pq /\ p.kind = "high" /\ q.kind = "low"
               \/ pp = pq /\ p.kind = q.kind /\ a < b
  BY DEF ListedBefore
<1> SUFFICES ASSUME ListedBefore(q, p) PROVE FALSE
  OBVIOUS
<1>2. \/ cq > cp
      \/ /\ cq = cp
         /\ \/ pq < pp
            \/ pq = pp /\ q.kind = "high" /\ p.kind = "low"
            \/ pq = pp /\ q.kind = p.kind /\ b < a
  BY DEF ListedBefore
<1> HIDE DEF a, b, cp, cq, pp, pq
<1> QED
  BY <1>1, <1>2

\* The pool a swing absorbs, if any, is one of those available and carries its stops.
LEMMA BestMatchIs ==
    ASSUME NEW ls \in Seq(Leg), NEW pools, PoolsFit(pools, ls), NEW available \in SUBSET pools,
           NEW kind, NEW price \in Int, BestMatch(available, kind, price) # {}
    PROVE  \E p \in available : /\ BestMatch(available, kind, price) = {p}
                                /\ Matches(kind, price, p)
<1> DEFINE dist(p) == Abs(p.price - price)
           best == BestMatch(available, kind, price)
<1>1. \A p \in best : /\ p \in available /\ Matches(kind, price, p)
                      /\ \A q \in best : q = p \/ dist(p) < dist(q)
                                            \/ (dist(p) = dist(q) /\ ListedBefore(p, q))
  BY DEF BestMatch
<1>2. \A p \in available : dist(p) \in Int
  <2>1. \A p \in available : p.price - price \in Int
    BY DEF PoolsFit
  <2> QED
    BY <2>1 DEF Abs
<1>3. ASSUME NEW p \in available, NEW q \in available, ListedBefore(p, q)
      PROVE  ~ListedBefore(q, p)
  <2>1. \A r \in available : FirstIndex(r.members) \in Int /\ r.price \in Int /\ r.confidence \in Int
    <3> TAKE r \in available
    <3>1. r.members \subseteq Nat /\ r.members # {} /\ r.price \in Int /\ r.confidence \in Int
      BY DEF PoolsFit
    <3> QED
      BY <3>1, FirstIndexIs
  <2> QED
    BY <1>3, <2>1, ListedOnce
<1> HIDE DEF best, dist
<1>4. PICK p \in best : TRUE
  BY DEF best
<1>5. ASSUME NEW q \in best PROVE q = p
  <2> SUFFICES ASSUME q # p PROVE FALSE
    OBVIOUS
  <2>1. /\ dist(p) \in Int /\ dist(q) \in Int
        /\ dist(p) < dist(q) \/ (dist(p) = dist(q) /\ ListedBefore(p, q))
        /\ dist(q) < dist(p) \/ (dist(q) = dist(p) /\ ListedBefore(q, p))
    BY <1>1, <1>2, <1>4
  <2>2. dist(p) = dist(q) /\ ListedBefore(p, q) /\ ListedBefore(q, p)
    BY <2>1
  <2> QED
    BY <1>1, <1>3, <1>4, <2>2
<1>6. best = {p} /\ p \in available /\ Matches(kind, price, p)
  BY <1>1, <1>4, <1>5
<1> QED
  BY <1>6 DEF best

\* c is the candidate of swing i: bare, or the line of pool p.
Bare(c, i, ls) == c = [swing |-> i, price |-> ls[i].price, pool |-> {}]
Backed(c, i, ls, kind, p) ==
    c = [swing |-> i, price |-> p.price, pool |-> {p.members}] /\ Matches(kind, ls[i].price, p)

\* Swing i is promoted to one candidate.
OneCandidate(ls, available, kind, i) ==
    LET best == BestMatch(available, kind, ls[i].price)
    IN  \/ best = {} /\ \E c : Candidate(ls, i, best) = {c} /\ Bare(c, i, ls)
        \/ \E p \in available :
               best = {p} /\ \E c : Candidate(ls, i, best) = {c} /\ Backed(c, i, ls, kind, p)

\* It is, while the available pools fit the structure.
LEMMA CandidateIs ==
    ASSUME NEW ls \in Seq(Leg), NEW pools, PoolsFit(pools, ls), NEW available \in SUBSET pools,
           NEW kind, NEW i \in 1..Len(ls)
    PROVE  OneCandidate(ls, available, kind, i)
<1> DEFINE best == BestMatch(available, kind, ls[i].price)
<1>1. CASE best = {}
  BY <1>1 DEF OneCandidate, Candidate, Bare
<1>2. CASE best # {}
  <2>1. ls[i].price \in Int
    BY LegFields
  <2>2. PICK p \in available : best = {p} /\ Matches(kind, ls[i].price, p)
    BY <1>2, <2>1, BestMatchIs
  <2> HIDE DEF best
  <2> DEFINE c == [swing |-> i, price |-> p.price, pool |-> {p.members}]
  <2>3. Candidate(ls, i, best) = {c}
    BY <2>2 DEF Candidate
  <2>4. Backed(c, i, ls, kind, p)
    BY <2>2 DEF Backed
  <2> HIDE DEF c
  <2> QED
    BY <2>2, <2>3, <2>4 DEF best, OneCandidate
<1> QED
  BY <1>1, <1>2

\* The candidates of the first n swings s and the pools they left available.
Sofar(out, available, n, ls, kind, s, pools) ==
    /\ IsFiniteSet(out) /\ available \in SUBSET pools
    /\ \A c \in out : \E m \in 1..n :
          Bare(c, s[m], ls) \/ \E p \in pools \ available : Backed(c, s[m], ls, kind, p)
    /\ \A m \in 1..n : \E c \in out : c.swing = s[m]
    /\ \A c \in out : \A d \in out :
          c.swing = d.swing \/ (c.pool # {} /\ c.pool = d.pool) => c = d

\* The next swing is promoted to one more candidate, which takes its pool away.
LEMMA SofarGoesOn ==
    ASSUME NEW ls \in Seq(Leg), NEW pools, PoolsFit(pools, ls), NEW kind,
           NEW n \in Nat, NEW s, \A m \in 1..(n + 1) : s[m] \in 1..Len(ls),
           \A m \in 1..n : s[m] # s[n + 1],
           NEW out, NEW available, Sofar(out, available, n, ls, kind, s, pools)
    PROVE  LET best == BestMatch(available, kind, ls[s[n + 1]].price)
           IN  Sofar(out \cup Candidate(ls, s[n + 1], best), available \ best, n + 1,
                     ls, kind, s, pools)
<1> DEFINE best == BestMatch(available, kind, ls[s[n + 1]].price)
           out2 == out \cup Candidate(ls, s[n + 1], best)
           rest == available \ best
           Of(c, m, left) == \/ Bare(c, s[m], ls)
                             \/ \E p \in pools \ left : Backed(c, s[m], ls, kind, p)
<1>1. available \in SUBSET pools /\ n + 1 \in 1..(n + 1) /\ n + 1 \in Nat
  BY DEF Sofar
<1>2. PICK c : /\ Candidate(ls, s[n + 1], best) = {c}
               /\ \/ best = {} /\ Bare(c, s[n + 1], ls)
                  \/ \E p \in available : best = {p} /\ Backed(c, s[n + 1], ls, kind, p)
  <2>1. s[n + 1] \in 1..Len(ls)
    BY <1>1
  <2>2. OneCandidate(ls, available, kind, s[n + 1])
    BY <1>1, <2>1, CandidateIs
  <2> QED
    BY <2>2 DEF OneCandidate
<1>3. out2 = out \cup {c}
  BY <1>2
<1> HIDE DEF best, out2
<1>4. IsFiniteSet(out2)
  BY <1>3, FS_AddElement DEF Sofar
<1>5. \A d \in out : \E m \in 1..n : Of(d, m, available)
  BY DEF Sofar
<1>6. \A m \in 1..(n + 1) : \A d : Of(d, m, available) => Of(d, m, rest)
  OBVIOUS
<1>7. Of(c, n + 1, rest)
  BY <1>1, <1>2
<1>8. \A d \in out2 : \E m \in 1..(n + 1) : Of(d, m, rest)
  <2>1. \A m \in 1..n : m \in 1..(n + 1)
    OBVIOUS
  <2> HIDE DEF Of
  <2> QED
    BY <1>1, <1>3, <1>5, <1>6, <1>7, <2>1
<1>9. \A m, left : \A d : Of(d, m, left) => d.swing = s[m]
  BY DEF Bare, Backed
<1>10. \A m \in 1..(n + 1) : \E d \in out2 : d.swing = s[m]
  <2>1. \A m \in 1..(n + 1) : m \in 1..n \/ m = n + 1
    OBVIOUS
  <2>2. \A m \in 1..n : \E d \in out2 : d.swing = s[m]
    BY <1>3 DEF Sofar
  <2>3. c \in out2 /\ c.swing = s[n + 1]
    <3> HIDE DEF Of
    <3> QED
      BY <1>3, <1>7, <1>9
  <2> QED
    BY <2>1, <2>2, <2>3
<1>11. \A d \in out : d.swing # c.swing
  <2> HIDE DEF Of
  <2> QED
    BY <1>5, <1>7, <1>9
<1>12. ASSUME NEW d \in out, d.pool # {} \/ c.pool # {}, d.pool = c.pool PROVE FALSE
  <2>1. \A m : Bare(c, m, ls) => c.pool = {}
    BY DEF Bare
  <2>2. \A m : Bare(d, m, ls) => d.pool = {}
    BY DEF Bare
  <2>3. PICK p \in available : best = {p} /\ Backed(c, s[n + 1], ls, kind, p)
    BY <1>2, <1>12, <2>1
  <2>4. PICK q \in pools \ available, m \in 1..n : Backed(d, s[m], ls, kind, q)
    BY <1>5, <1>12, <2>2
  <2>5. p.members = q.members
    BY <1>12, <2>3, <2>4 DEF Backed
  <2>6. p = q
    BY <1>1, <2>4, <2>5 DEF PoolsFit
  <2> QED
    BY <2>4, <2>6
<1>13. \A d \in out2 : \A e \in out2 :
          d.swing = e.swing \/ (d.pool # {} /\ d.pool = e.pool) => d = e
  <2>1. \A d \in out : \A e \in out :
          d.swing = e.swing \/ (d.pool # {} /\ d.pool = e.pool) => d = e
    BY DEF Sofar
  <2> QED
    BY <1>3, <1>11, <1>12, <2>1
<1>14. rest \in SUBSET pools
  BY <1>1
<1>15. Sofar(out2, rest, n + 1, ls, kind, s, pools)
  BY <1>4, <1>8, <1>10, <1>13, <1>14 DEF Sofar
<1> QED
  BY <1>15 DEF best, out2

\* The recursion that promotes the swings s.
Promotion(f, n, ls, kind, s, pools) ==
    f = [i \in 0..n |->
            IF i = 0 THEN [out |-> {}, available |-> pools]
            ELSE LET sofar == f[i - 1]
                     best == BestMatch(sofar.available, kind, ls[s[i]].price)
                 IN  [out |-> sofar.out \cup Candidate(ls, s[i], best),
                      available |-> sofar.available \ best]]

\* It has a solution.
LEMMA PromotionExists ==
    ASSUME NEW n \in Nat, NEW ls, NEW kind, NEW s, NEW pools
    PROVE  \E f : Promotion(f, n, ls, kind, s, pools)
<1> DEFINE T == {m \in 0..n : \E f : Promotion(f, m, ls, kind, s, pools)}
           best(f, i) == BestMatch(f[i - 1].available, kind, ls[s[i]].price)
           e(f, i) == IF i = 0 THEN [out |-> {}, available |-> pools]
                      ELSE [out |-> f[i - 1].out \cup Candidate(ls, s[i], best(f, i)),
                            available |-> f[i - 1].available \ best(f, i)]
<1>0. \A f : \A m : Promotion(f, m, ls, kind, s, pools) <=> f = [i \in 0..m |-> e(f, i)]
  BY Zenon DEF Promotion
<1>e. \A f, g : \A i \in Nat : (i # 0 => f[i - 1] = g[i - 1]) => e(f, i) = e(g, i)
  BY ZenonT(40)
<1>z. \A f, g : e(f, 0) = e(g, 0)
  OBVIOUS
<1> HIDE DEF e
<1>1. 0 \in T
  <2> DEFINE g == [i \in 0..0 |-> e(0, i)]
  <2>1. \A i \in 0..0 : i = 0
    OBVIOUS
  <2>2. g = [i \in 0..0 |-> e(g, i)]
    <3>1. \A i \in 0..0 : e(0, i) = e(g, i)
      BY <1>z, <2>1
    <3> QED
      BY <3>1
  <2> HIDE DEF g
  <2>3. Promotion(g, 0, ls, kind, s, pools)
    BY <1>0, <2>2
  <2> QED
    BY <2>3
<1>2. ASSUME NEW m \in 0..(n - 1), m \in T PROVE m + 1 \in T
  <2>1. PICK f : Promotion(f, m, ls, kind, s, pools)
    BY <1>2
  <2>2. f = [i \in 0..m |-> e(f, i)]
    BY <1>0, <2>1
  <2> DEFINE g == [i \in 0..(m + 1) |-> IF i <= m THEN f[i] ELSE e(f, i)]
  <2>3. \A i \in 0..(m + 1) : i \in Nat /\ (i # 0 => i - 1 \in 0..m /\ g[i - 1] = f[i - 1])
    <3>1. \A i \in 0..(m + 1) : i # 0 => i - 1 \in 0..m /\ i - 1 \in 0..(m + 1) /\ i - 1 <= m
      OBVIOUS
    <3> QED
      BY <3>1
  <2>4. \A i \in 0..(m + 1) : g[i] = e(f, i)
    BY <2>2
  <2>5. \A i \in 0..(m + 1) : e(g, i) = e(f, i)
    <3> HIDE DEF g
    <3> QED
      BY <1>e, <2>3
  <2>6. g = [i \in 0..(m + 1) |-> e(g, i)]
    <3>1. g = [i \in 0..(m + 1) |-> g[i]]
      OBVIOUS
    <3> HIDE DEF g
    <3> QED
      BY <2>4, <2>5, <3>1
  <2> HIDE DEF g
  <2>7. Promotion(g, m + 1, ls, kind, s, pools)
    BY <1>0, <2>6
  <2> QED
    BY <1>2, <2>7
<1>3. \A m \in 0..n : m \in T
  <2> HIDE DEF T
  <2> QED
    BY <1>1, <1>2, Induction
<1>4. n \in 0..n
  OBVIOUS
<1> QED
  BY <1>3, <1>4

\* The candidates of all the swings.
LEMMA PromoteIs ==
    ASSUME NEW ls \in Seq(Leg), NEW pools, PoolsFit(pools, ls), NEW kind,
           NEW s, Len(s) \in Nat, \A m \in 1..Len(s) : s[m] \in 1..Len(ls),
           \A m \in 1..Len(s) : \A n \in 1..Len(s) : s[m] = s[n] => m = n
    PROVE  \E left : Sofar(Promote(ls, kind, s, pools), left, Len(s), ls, kind, s, pools)
<1> DEFINE N == Len(s)
           P(f) == Promotion(f, N, ls, kind, s, pools)
<1>1. Promote(ls, kind, s, pools) = (CHOOSE f : P(f))[N].out
  BY Zenon DEF Promote, Promotion
<1>2. \E f : P(f)
  BY PromotionExists
<1> HIDE DEF P
<1>3. PICK f : P(f) /\ Promote(ls, kind, s, pools) = f[N].out
  BY <1>1, <1>2
<1> DEFINE best(i) == BestMatch(f[i - 1].available, kind, ls[s[i]].price)
<1>4. /\ f[0] = [out |-> {}, available |-> pools]
      /\ \A i \in 1..N : f[i] = [out |-> f[i - 1].out \cup Candidate(ls, s[i], best(i)),
                                 available |-> f[i - 1].available \ best(i)]
  <2>1. f = [i \in 0..N |-> IF i = 0 THEN [out |-> {}, available |-> pools]
                            ELSE [out |-> f[i - 1].out \cup Candidate(ls, s[i], best(i)),
                                  available |-> f[i - 1].available \ best(i)]]
    BY <1>3, Zenon DEF P, Promotion
  <2>2. 0 \in 0..N /\ \A i \in 1..N : i \in 0..N /\ i # 0
    OBVIOUS
  <2> HIDE DEF best
  <2> QED
    BY <2>1, <2>2
<1> DEFINE T == {n \in 0..N : Sofar(f[n].out, f[n].available, n, ls, kind, s, pools)}
<1>5. 0 \in T
  <2>1. f[0].out = {} /\ f[0].available = pools
    BY <1>4
  <2>2. 1..0 = {}
    OBVIOUS
  <2>3. Sofar({}, pools, 0, ls, kind, s, pools)
    BY <2>2, FS_EmptySet DEF Sofar
  <2>4. Sofar(f[0].out, f[0].available, 0, ls, kind, s, pools)
    BY <2>1, <2>3, Zenon
  <2>5. 0 \in 0..N
    OBVIOUS
  <2> HIDE DEF N
  <2> QED
    BY <2>4, <2>5, Zenon
<1>6. ASSUME NEW n \in 0..(N - 1), n \in T PROVE n + 1 \in T
  <2>1. /\ n \in Nat /\ n + 1 \in 1..N /\ (n + 1) - 1 = n /\ n + 1 \in 0..N
        /\ \A m \in 1..(n + 1) : m \in 1..N
        /\ \A m \in 1..n : m \in 1..N /\ m # n + 1
    OBVIOUS
  <2>2. /\ \A m \in 1..(n + 1) : s[m] \in 1..Len(ls)
        /\ \A m \in 1..n : s[m] # s[n + 1]
    BY <2>1
  <2> DEFINE b == BestMatch(f[n].available, kind, ls[s[n + 1]].price)
  <2>3. Sofar(f[n].out, f[n].available, n, ls, kind, s, pools)
    BY <1>6
  <2>4. Sofar(f[n].out \cup Candidate(ls, s[n + 1], b), f[n].available \ b, n + 1,
              ls, kind, s, pools)
    BY <2>1, <2>2, <2>3, SofarGoesOn
  <2>5. f[n + 1] = [out |-> f[n].out \cup Candidate(ls, s[n + 1], b),
                    available |-> f[n].available \ b]
    BY <1>4, <2>1
  <2> HIDE DEF b
  <2>6. f[n + 1].out = f[n].out \cup Candidate(ls, s[n + 1], b)
        /\ f[n + 1].available = f[n].available \ b
    BY <2>5
  <2> QED
    BY <2>1, <2>4, <2>6
<1>7. \A n \in 0..N : n \in T
  <2> HIDE DEF T
  <2> QED
    BY <1>5, <1>6, Induction
<1>8. N \in 0..N
  OBVIOUS
<1> QED
  BY <1>3, <1>7, <1>8

-----------------------------------------------------------------------------
(* The pools, and the best candidate at a price *)

\* Swings with positive prices.
Positive(ls) == \A i \in 1..Len(ls) : ls[i].price > 0

\* The confidence of a pool is a number: what it is divided by is positive.
LEMMA ConfidenceIs ==
    ASSUME NEW ls \in Seq(Leg), Positive(ls), NEW run \in SUBSET (1..Len(ls)), run # {}
    PROVE  Confidence(ls, run) \in Int
<1> DEFINE n == Cardinality(run)
           touches == IF n = 2 THEN 50 ELSE IF n = 3 THEN 85 ELSE 100
           prices == {ls[i].price : i \in run}
           top == CHOOSE p \in prices : \A q \in prices : q <= p
           bottom == CHOOSE p \in prices : \A q \in prices : p <= q
           span == top - bottom
           first == ls[FirstIndex(run)].price
           width == 2 * TolNum * first
           scale == IF TolNum = 0 THEN 1 ELSE width
           tight == IF TolNum = 0 THEN 1
                    ELSE IF span * TolDen > width THEN 0 ELSE width - span * TolDen
           len == Len(ls)
           last == LastIndex(run)
           den == 100 * scale * len
           num == 40 * touches * scale * len + 2500 * tight * len + 3500 * last * scale
<1>1. Confidence(ls, run) = (2 * num + den) \div (2 * den)
  BY DEF Confidence
<1>2. len \in Nat /\ len > 0 /\ last \in Nat /\ first \in Int /\ first > 0
  <2>1. Len(ls) \in Nat /\ \A i \in 1..Len(ls) : i \in Nat /\ ls[i].price \in Int
    BY LegFields
  <2>2. LastIndex(run) \in run /\ FirstIndex(run) \in run
    <3>1. run \subseteq Nat
      BY <2>1
    <3> QED
      BY <2>1, <3>1, LastIndexIs, FirstIndexIs
  <2>3. LastIndex(run) \in 1..Len(ls) /\ FirstIndex(run) \in 1..Len(ls)
    BY <2>2
  <2> QED
    BY <2>1, <2>3 DEF Positive
<1>3. top \in Int /\ bottom \in Int
  <2>1. \A p \in prices : p \in Int
    BY LegFields
  <2>2. PICK h \in run : \A j \in run : ~Beyond("high", ls[j].price, ls[h].price)
    BY SomeFarthest DEF Kinds
  <2>3. PICK l \in run : \A j \in run : ~Beyond("low", ls[j].price, ls[l].price)
    BY SomeFarthest DEF Kinds
  <2>4. \E p \in prices : \A q \in prices : q <= p
    <3>1. \A j \in run : ls[j].price <= ls[h].price
      <4>1. \A j \in run : ls[j].price \in Int /\ ls[h].price \in Int
        BY LegFields
      <4> QED
        BY <2>2, <4>1 DEF Beyond
    <3> QED
      BY <3>1
  <2>5. \E p \in prices : \A q \in prices : p <= q
    <3>1. \A j \in run : ls[l].price <= ls[j].price
      <4>1. \A j \in run : ls[j].price \in Int /\ ls[l].price \in Int
        BY LegFields
      <4> QED
        BY <2>3, <4>1 DEF Beyond
    <3> QED
      BY <3>1
  <2> HIDE DEF prices
  <2>6. top \in prices /\ bottom \in prices
    BY <2>4, <2>5
  <2> HIDE DEF top, bottom
  <2> QED
    BY <2>1, <2>6
<1> HIDE DEF top, bottom
<1>4. touches \in Int
  <2> HIDE DEF n
  <2> QED
    OBVIOUS
<1> HIDE DEF touches, len, last, first
<1>5. width \in Int /\ (TolNum # 0 => width > 0)
  <2>1. TolNum \in Nat
    BY ToleranceAssumption
  <2> QED
    BY <1>2, <2>1
<1>6. span * TolDen \in Int
  BY <1>3, ToleranceAssumption
<1> HIDE DEF span, width
<1>7. scale \in Int /\ scale > 0 /\ tight \in Int
  BY <1>5, <1>6, ToleranceAssumption
<1> HIDE DEF scale, tight
<1>8. scale * len \in Int /\ scale * len > 0 /\ tight * len \in Int /\ last * scale \in Int
  BY <1>2, <1>7
<1>9. den \in Int /\ den > 0
  <2>1. den = 100 * (scale * len)
    BY <1>2, <1>7
  <2> QED
    BY <1>8, <2>1
<1>10. num \in Int
  BY <1>2, <1>4, <1>7
<1> HIDE DEF num, den
<1> QED
  BY <1>1, <1>9, <1>10

\* The pools of a structure fit it.
LEMMA StructurePoolsFit ==
    ASSUME NEW ls \in Seq(Leg), Positive(ls)
    PROVE  PoolsFit(ComputeLiquidityPools(ls), ls)
<1>1. ASSUME NEW run \in EqualLevels(ls)
      PROVE  LET p == PoolFrom(ls, run)
             IN  /\ p.price \in Int /\ p.confidence \in Int /\ p.kind \in Kinds
                 /\ p.members = run /\ run \in SUBSET (1..Len(ls)) /\ run # {}
  <2>1. run \in SUBSET (1..Len(ls)) /\ run # {}
    BY RunOfLevels
  <2>2. PoolPrice(ls, run) \in Int /\ LastIndex(run) \in run
    BY <2>1, PoolPriceIs
  <2>3. ls[LastIndex(run)].kind \in Kinds
    BY <2>1, <2>2, LegFields
  <2>4. Confidence(ls, run) \in Int
    BY <2>1, ConfidenceIs
  <2> QED
    BY <2>1, <2>2, <2>3, <2>4 DEF PoolFrom
<1>2. \A p \in ComputeLiquidityPools(ls) : \E run \in EqualLevels(ls) : p = PoolFrom(ls, run)
  BY DEF ComputeLiquidityPools
<1> QED
  BY <1>1, <1>2 DEF PoolsFit

\* Of the candidates at one price one is best.
BestOf(all) ==
    {c \in all : \A d \in all : d.price = c.price =>
        \/ d = c
        \/ (c.pool # {} /\ d.pool = {})
        \/ ((c.pool = {}) = (d.pool = {}) /\ c.swing < d.swing)}

\* There is a best candidate at every price that has one.
LEMMA BestExists ==
    ASSUME NEW all, \A c \in all : c.swing \in Nat,
           \A c \in all : \A d \in all : c.swing = d.swing => c = d,
           NEW c \in all
    PROVE  \E d \in BestOf(all) : d.price = c.price
<1> DEFINE Same(bare) == {d \in all : d.price = c.price /\ (d.pool = {}) = bare}
<1>1. ASSUME NEW bare \in BOOLEAN, Same(bare) # {}
      PROVE  \E d \in Same(bare) : \A e \in Same(bare) : e = d \/ d.swing < e.swing
  <2> DEFINE T == {d.swing : d \in Same(bare)}
  <2>1. T \subseteq Nat /\ T # {}
    BY <1>1
  <2>2. PICK x \in T : \A y \in T : x <= y
    <3> HIDE DEF T
    <3> QED
      BY <2>1, LeastIndex
  <2>3. PICK d \in Same(bare) : x = d.swing
    BY <2>2
  <2>4. ASSUME NEW e \in Same(bare), e # d PROVE d.swing < e.swing
    <3>1. e.swing \in Nat /\ d.swing \in Nat /\ e.swing # d.swing
      BY <2>3, <2>4
    <3>2. d.swing <= e.swing
      BY <2>2, <2>3
    <3> QED
      BY <3>1, <3>2
  <2> QED
    BY <2>4
<1>2. CASE Same(FALSE) # {}
  <2>1. PICK d \in Same(FALSE) : \A e \in Same(FALSE) : e = d \/ d.swing < e.swing
    BY <1>1, <1>2
  <2>2. d \in all /\ d.price = c.price /\ d.pool # {}
    BY <2>1
  <2>3. ASSUME NEW e \in all, e.price = d.price
        PROVE  \/ e = d
               \/ (d.pool # {} /\ e.pool = {})
               \/ ((d.pool = {}) = (e.pool = {}) /\ d.swing < e.swing)
    <3>1. e.pool # {} => e \in Same(FALSE)
      BY <2>2, <2>3
    <3> QED
      BY <2>1, <2>2, <3>1
  <2>4. d \in BestOf(all)
    BY <2>2, <2>3 DEF BestOf
  <2> QED
    BY <2>2, <2>4
<1>3. CASE Same(FALSE) = {}
  <2>1. c \in Same(TRUE)
    BY <1>3
  <2>2. PICK d \in Same(TRUE) : \A e \in Same(TRUE) : e = d \/ d.swing < e.swing
    BY <1>1, <2>1
  <2>3. d \in all /\ d.price = c.price /\ d.pool = {}
    BY <2>2
  <2>4. ASSUME NEW e \in all, e.price = d.price
        PROVE  \/ e = d
               \/ (d.pool # {} /\ e.pool = {})
               \/ ((d.pool = {}) = (e.pool = {}) /\ d.swing < e.swing)
    <3>1. e.pool = {} /\ e \in Same(TRUE)
      BY <1>3, <2>3, <2>4
    <3> QED
      BY <2>2, <2>3, <3>1
  <2>5. d \in BestOf(all)
    BY <2>3, <2>4 DEF BestOf
  <2> QED
    BY <2>3, <2>5
<1> QED
  BY <1>2, <1>3

\* The pairs of candidates of which the second is farther.
Farther(S, kind) == {pair \in S \X S : Beyond(kind, pair[2].price, pair[1].price)}

\* There is one best at a price, so nearest first is an order of them.
LEMMA BestOrdered ==
    ASSUME NEW all, \A c \in all : c.swing \in Nat /\ c.price \in Int, NEW kind
    PROVE  Orders(Farther(BestOf(all), kind), BestOf(all))
<1> DEFINE best == BestOf(all)
           R == Farther(best, kind)
<1>1. \A x \in best : x \in all /\ x.price \in Int /\ x.swing \in Nat
  BY DEF BestOf
<1>2. \A x \in best : \A y \in best : x.price = y.price => x = y
  <2> SUFFICES ASSUME NEW x \in best, NEW y \in best, x.price = y.price, x # y PROVE FALSE
    OBVIOUS
  <2>1. /\ \/ x.pool # {} /\ y.pool = {}
           \/ (x.pool = {}) = (y.pool = {}) /\ x.swing < y.swing
        /\ \/ y.pool # {} /\ x.pool = {}
           \/ (y.pool = {}) = (x.pool = {}) /\ y.swing < x.swing
    BY <1>1 DEF BestOf
  <2>2. x.swing \in Nat /\ y.swing \in Nat
    BY <1>1
  <2> QED
    BY <2>1, <2>2
<1> HIDE DEF best
<1>3. \A x \in best : \A y \in best : <<x, y>> \in R <=> Beyond(kind, y.price, x.price)
  BY DEF Farther
<1> HIDE DEF R
<1>4. \A x \in best : ~Beyond(kind, x.price, x.price)
  BY <1>1 DEF Beyond
<1>5. \A x \in best : \A y \in best :
          x # y => Beyond(kind, y.price, x.price) \/ Beyond(kind, x.price, y.price)
  BY <1>1, <1>2 DEF Beyond
<1>6. ASSUME NEW x \in best, NEW y \in best, NEW z \in best,
             Beyond(kind, y.price, x.price), Beyond(kind, z.price, y.price)
      PROVE  Beyond(kind, z.price, x.price)
  BY <1>1, <1>6, BeyondTransitive
<1>7. Orders(R, best)
  BY <1>3, <1>4, <1>5, <1>6 DEF Orders
<1> QED
  BY <1>7 DEF R, best

-----------------------------------------------------------------------------
(* The path of objectives *)

\* The pools that may be a target, and the candidates the swings are promoted to.
TargetPools(ls, kind, from) ==
    {p \in ComputeLiquidityPools(ls) : p.kind = kind /\ p.intact /\ Beyond(kind, p.price, from)}

Promoted(ls, kind, from) ==
    Promote(ls, kind, Nearest(ls, kind, Eligible(ls, kind, from)), TargetPools(ls, kind, from))

\* The objectives list the best of the candidates, nearest first.
LEMMA ResolvedLists ==
    ASSUME NEW ls, NEW kind, NEW from, IsFiniteSet(Promoted(ls, kind, from)),
           \A c \in Promoted(ls, kind, from) : c.swing \in Nat /\ c.price \in Int
    PROVE  Lists(ResolveObjectives(ls, kind, from), BestOf(Promoted(ls, kind, from)),
                 Farther(BestOf(Promoted(ls, kind, from)), kind))
<1> DEFINE all == Promoted(ls, kind, from)
           best == BestOf(all)
           R == Farther(best, kind)
           before(c) == {d \in best : Beyond(kind, c.price, d.price)}
           N == Cardinality(best)
           rk == [c \in best |-> Cardinality(before(c))]
           s == ResolveObjectives(ls, kind, from)
<1>1. IsFiniteSet(best) /\ N \in Nat
  <2>1. best \in SUBSET all
    BY DEF BestOf
  <2> HIDE DEF best
  <2> QED
    BY <2>1, FS_Subset, FS_CardinalityType
<1>2. Orders(R, best)
  BY BestOrdered
<1>3. s = [n \in 1..N |-> CHOOSE c \in best : Cardinality(before(c)) = n - 1]
  BY Zenon DEF ResolveObjectives, Promoted, TargetPools, BestOf
<1>4. CountsBefore(rk, best, R)
  <2>1. ASSUME NEW c \in best PROVE before(c) = {d \in best : <<d, c>> \in R}
    BY DEF Farther
  <2> HIDE DEF before, R, best
  <2> QED
    BY <2>1 DEF CountsBefore
<1> HIDE DEF s, R, before, best
<1>5. Ranked(rk, best, R) /\ \A c \in best : rk[c] = Cardinality(before(c))
  <2>1. \A c \in best : rk[c] = Cardinality(before(c))
    OBVIOUS
  <2> HIDE DEF rk
  <2> QED
    BY <1>1, <1>2, <1>4, <2>1, Ranks
<1> HIDE DEF rk
<1>6. ASSUME NEW n \in 1..N PROVE s[n] \in best /\ rk[s[n]] = n - 1
  <2>1. s[n] = CHOOSE c \in best : Cardinality(before(c)) = n - 1
    BY <1>3
  <2>2. \E c \in best : Cardinality(before(c)) = n - 1
    BY <1>5 DEF Ranked
  <2>3. s[n] \in best /\ Cardinality(before(s[n])) = n - 1
    BY <2>1, <2>2
  <2> QED
    BY <1>5, <2>3
<1>7. s \in [1..N -> best]
  <2> DEFINE e(n) == CHOOSE c \in best : Cardinality(before(c)) = n - 1
  <2>1. s = [n \in 1..N |-> e(n)]
    BY <1>3
  <2>2. \A n \in 1..N : e(n) \in best
    BY <1>3, <1>6
  <2> HIDE DEF e
  <2> QED
    BY <2>1, <2>2
<1>8. Lists(s, best, R)
  BY <1>1, <1>2, <1>5, <1>6, <1>7, Listing
<1> QED
  BY <1>8 DEF s, best, R

\* A target of the structure ls: beyond the price and not traded beyond since it
\* was last touched.
Target(c, ls, kind, from) ==
    /\ c.swing \in Nat /\ c.price \in Int /\ Beyond(kind, c.price, from)
    /\ LET touched == IF c.pool = {} THEN c.swing ELSE LastIndex(UNION c.pool)
       IN  \A i \in (touched + 1)..Len(ls) : ls[i].kind = kind =>
               ~Beyond(kind, ls[i].price, c.price)

\* A line that serves swing i: not farther than it, or within tolerance of it.
Serves(c, i, ls, kind) ==
    \/ ~Beyond(kind, c.price, ls[i].price)
    \/ Abs(c.price - ls[i].price) * TolDen <= ls[i].price * TolNum

\* A swing that may be a target is one, bare.
LEMMA BareTarget ==
    ASSUME NEW ls \in Seq(Leg), NEW kind \in Kinds, NEW from \in Int,
           NEW i \in Eligible(ls, kind, from), NEW c, Bare(c, i, ls)
    PROVE  c.swing = i /\ Target(c, ls, kind, from) /\ Serves(c, i, ls, kind)
<1>1. c.swing = i /\ c.price = ls[i].price /\ c.pool = {}
  BY DEF Bare
<1>2. i \in 1..Len(ls) /\ ls[i].kind = kind /\ Beyond(kind, ls[i].price, from) /\ ~Taken(ls, i)
  BY DEF Eligible
<1>3. i \in Nat /\ ls[i].price \in Int
  BY <1>2, LegFields
<1>4. \A j \in (i + 1)..Len(ls) : ls[j].kind = kind => ~Beyond(kind, ls[j].price, ls[i].price)
  BY <1>2 DEF Taken
<1>5. Target(c, ls, kind, from)
  BY <1>1, <1>2, <1>3, <1>4 DEF Target
<1>6. ~Beyond(kind, ls[i].price, ls[i].price)
  BY <1>3 DEF Beyond
<1> QED
  BY <1>1, <1>5, <1>6 DEF Serves

\* So is one that absorbed an intact pool beyond the price.
LEMMA BackedTarget ==
    ASSUME NEW ls \in Seq(Leg), Positive(ls), NEW kind \in Kinds, NEW from \in Int,
           NEW i \in Eligible(ls, kind, from), NEW p \in TargetPools(ls, kind, from),
           NEW c, Backed(c, i, ls, kind, p)
    PROVE  c.swing = i /\ Target(c, ls, kind, from) /\ Serves(c, i, ls, kind)
<1>1. c.swing = i /\ c.price = p.price /\ c.pool = {p.members} /\ Matches(kind, ls[i].price, p)
  BY DEF Backed
<1>2. i \in 1..Len(ls) /\ i \in Nat /\ ls[i].price \in Int
  BY LegFields DEF Eligible
<1>3. PICK run \in EqualLevels(ls) : p = PoolFrom(ls, run)
  BY DEF TargetPools, ComputeLiquidityPools
<1>4. /\ p.kind = ls[LastIndex(run)].kind /\ p.price = PoolPrice(ls, run)
      /\ p.members = run /\ p.intact = Intact(ls, run)
  BY <1>3 DEF PoolFrom
<1>5. p.kind = kind /\ p.intact /\ Beyond(kind, p.price, from)
  BY DEF TargetPools
<1>6. p.price \in Int
  BY <1>4, RunOfLevels, PoolPriceIs
<1>7. \A j \in (LastIndex(run) + 1)..Len(ls) : ls[j].kind = kind =>
          ~Beyond(kind, ls[j].price, p.price)
  BY <1>4, <1>5 DEF Intact
<1>8. Target(c, ls, kind, from)
  <2>1. UNION c.pool = run /\ c.pool # {}
    BY <1>1, <1>4
  <2> QED
    BY <1>1, <1>2, <1>5, <1>6, <1>7, <2>1 DEF Target
<1>9. Serves(c, i, ls, kind)
  <2>1. Beyond(kind, ls[i].price, p.price) => ~Beyond(kind, p.price, ls[i].price)
    BY <1>2, <1>6 DEF Beyond
  <2> QED
    BY <1>1, <2>1 DEF Serves, Matches
<1> QED
  BY <1>1, <1>8, <1>9

\* Every swing that may be a target has a candidate, and each candidate is a target.
LEMMA PromotedTargets ==
    ASSUME NEW ls \in Seq(Leg), Positive(ls), NEW kind \in Kinds, NEW from \in Int
    PROVE  LET all == Promoted(ls, kind, from)
           IN  /\ IsFiniteSet(all)
               /\ \A c \in all : Target(c, ls, kind, from)
               /\ \A c \in all : \A d \in all :
                      c.swing = d.swing \/ (c.pool # {} /\ c.pool = d.pool) => c = d
               /\ \A i \in Eligible(ls, kind, from) : \E c \in all : Serves(c, i, ls, kind)
<1> DEFINE S == Eligible(ls, kind, from)
           s == Nearest(ls, kind, S)
           pools == TargetPools(ls, kind, from)
           all == Promoted(ls, kind, from)
<1>1. S \in SUBSET (1..Len(ls))
  BY DEF Eligible
<1>2. /\ Len(s) \in Nat
      /\ \A n \in 1..Len(s) : s[n] \in S
      /\ \A m \in 1..Len(s) : \A n \in 1..Len(s) : s[m] = s[n] => m = n
      /\ \A i \in S : \E n \in 1..Len(s) : s[n] = i
  <2> HIDE DEF S
  <2> QED
    BY <1>1, NearestIs
<1>3. PoolsFit(pools, ls)
  BY StructurePoolsFit DEF TargetPools, PoolsFit
<1>4. PICK left : Sofar(all, left, Len(s), ls, kind, s, pools)
  <2>1. all = Promote(ls, kind, s, pools)
    BY DEF Promoted
  <2> HIDE DEF s, pools, S, all
  <2>2. \A m \in 1..Len(s) : s[m] \in 1..Len(ls)
    BY <1>1, <1>2
  <2>3. \E left : Sofar(Promote(ls, kind, s, pools), left, Len(s), ls, kind, s, pools)
    BY <1>2, <1>3, <2>2, PromoteIs
  <2> QED
    BY <2>1, <2>3
<1> HIDE DEF all
<1>5. ASSUME NEW c \in all
      PROVE  \E i \in S : c.swing = i /\ Target(c, ls, kind, from) /\ Serves(c, i, ls, kind)
  <2>1. PICK m \in 1..Len(s) :
            Bare(c, s[m], ls) \/ \E p \in pools \ left : Backed(c, s[m], ls, kind, p)
    BY <1>4 DEF Sofar
  <2>2. s[m] \in S
    BY <1>2
  <2> HIDE DEF s
  <2> QED
    BY <2>1, <2>2, BareTarget, BackedTarget
<1>6. ASSUME NEW i \in S PROVE \E c \in all : Serves(c, i, ls, kind)
  <2>1. PICK n \in 1..Len(s) : s[n] = i
    BY <1>2
  <2>2. PICK c \in all : c.swing = s[n]
    BY <1>4 DEF Sofar
  <2> HIDE DEF s, S
  <2> QED
    BY <1>5, <2>1, <2>2
<1>7. IsFiniteSet(all) /\ \A c \in all : \A d \in all :
          c.swing = d.swing \/ (c.pool # {} /\ c.pool = d.pool) => c = d
  BY <1>4 DEF Sofar
<1> QED
  BY <1>5, <1>6, <1>7 DEF all

\* So the objectives are a path of targets that serves every such swing.
IsPath(path, ls, kind, from) ==
    LET touched(c) == IF c.pool = {} THEN c.swing ELSE LastIndex(UNION c.pool)
    IN  /\ \A m, n \in 1..Len(path) :
            /\ Beyond(kind, path[m].price, from)
            /\ m < n => Beyond(kind, path[n].price, path[m].price)
            /\ (m # n /\ path[m].pool # {}) => path[m].pool # path[n].pool
            /\ \A i \in (touched(path[m]) + 1)..Len(ls) : ls[i].kind = kind =>
                  ~Beyond(kind, ls[i].price, path[m].price)
        /\ \A i \in Eligible(ls, kind, from) : \E m \in 1..Len(path) :
               \/ ~Beyond(kind, path[m].price, ls[i].price)
               \/ Abs(path[m].price - ls[i].price) * TolDen <= ls[i].price * TolNum

\* That is what is resolved.
LEMMA ResolvedPath ==
    ASSUME NEW ls \in Seq(Leg), Positive(ls), NEW kind \in Kinds, NEW from \in Int
    PROVE  IsPath(ResolveObjectives(ls, kind, from), ls, kind, from)
<1> DEFINE path == ResolveObjectives(ls, kind, from)
           all == Promoted(ls, kind, from)
           best == BestOf(all)
           R == Farther(best, kind)
<1>1. /\ IsFiniteSet(all)
      /\ \A c \in all : Target(c, ls, kind, from)
      /\ \A c \in all : \A d \in all :
             c.swing = d.swing \/ (c.pool # {} /\ c.pool = d.pool) => c = d
      /\ \A i \in Eligible(ls, kind, from) : \E c \in all : Serves(c, i, ls, kind)
  <2> HIDE DEF all
  <2> QED
    BY PromotedTargets DEF all
<1>2. \A c \in all : c.swing \in Nat /\ c.price \in Int
  BY <1>1 DEF Target
<1>3. Lists(path, best, R)
  BY <1>1, <1>2, ResolvedLists
<1>4. \A c \in best : c \in all
  BY DEF BestOf
<1> HIDE DEF path, all
<1>5. \A c \in all : \E d \in best : d.price = c.price
  BY <1>1, <1>2, BestExists
<1>6. \A x, y \in best : <<x, y>> \in R => Beyond(kind, y.price, x.price)
  BY DEF Farther
<1> HIDE DEF best, R
<1>7. \A m \in 1..Len(path) : path[m] \in best /\ path[m] \in all
  BY <1>3, <1>4 DEF Lists
<1>8. ASSUME NEW m \in 1..Len(path)
      PROVE  /\ Beyond(kind, path[m].price, from)
             /\ LET touched(c) == IF c.pool = {} THEN c.swing ELSE LastIndex(UNION c.pool)
                IN  \A i \in (touched(path[m]) + 1)..Len(ls) : ls[i].kind = kind =>
                       ~Beyond(kind, ls[i].price, path[m].price)
  <2>1. Target(path[m], ls, kind, from)
    BY <1>1, <1>7
  <2> QED
    BY <2>1 DEF Target
<1>9. ASSUME NEW m \in 1..Len(path), NEW n \in 1..Len(path), m < n
      PROVE  Beyond(kind, path[n].price, path[m].price)
  <2>1. <<path[m], path[n]>> \in R
    BY <1>3, <1>9 DEF Lists
  <2> QED
    BY <1>6, <1>7, <2>1
<1>10. ASSUME NEW m \in 1..Len(path), NEW n \in 1..Len(path), m # n, path[m].pool # {},
              path[m].pool = path[n].pool
       PROVE  FALSE
  <2>1. path[m] = path[n]
    BY <1>1, <1>7, <1>10
  <2> QED
    BY <1>3, <1>10, <2>1 DEF Lists
<1>11. ASSUME NEW i \in Eligible(ls, kind, from)
       PROVE  \E m \in 1..Len(path) :
                  \/ ~Beyond(kind, path[m].price, ls[i].price)
                  \/ Abs(path[m].price - ls[i].price) * TolDen <= ls[i].price * TolNum
  <2>1. PICK c \in all : Serves(c, i, ls, kind)
    BY <1>1
  <2>2. PICK d \in best : d.price = c.price
    BY <1>5
  <2>3. PICK m \in 1..Len(path) : path[m] = d
    BY <1>3 DEF Lists
  <2>4. path[m].price = c.price
    BY <2>2, <2>3
  <2> QED
    BY <2>1, <2>4 DEF Serves
<1>12. IsPath(path, ls, kind, from)
  BY <1>8, <1>9, <1>10, <1>11 DEF IsPath
<1> QED
  BY <1>12 DEF path

\* The objectives of a trade are a path, whatever the tape: strictly farther line by
\* line, no pool twice, none traded beyond, no eligible swing passed over (objectives.ts).
THEOREM ObjectivesFormAPath == Spec => []ObjectivesAreAPath
<1>1. Inv => ObjectivesAreAPath
  <2> SUFFICES ASSUME Inv PROVE ObjectivesAreAPath
    OBVIOUS
  <2>1. /\ Len(tape) \in Nat /\ \A u \in 1..Len(tape) : u \in 1..MaxTime /\ tape[u] \in Bars[u]
    <3>1. MaxTime \in Nat /\ Len(tape) \in Nat /\ Len(tape) <= MaxTime
      BY TapeAssumption DEF Inv, TapeTyped
    <3> QED
      BY <3>1 DEF Inv, TapeTyped
  <2>2. \A from \in {tape[t].close : t \in 1..Len(tape)} : from \in Int
    BY <2>1, TapeAssumption
  <2>3. legs \in Seq(Leg)
    BY DEF Inv, Alternates
  <2>4. ASSUME NEW i \in 1..Len(legs) PROVE legs[i].price > 0
    <3>1. legs[i].time \in 1..Len(tape) /\ legs[i].price = Extreme(tape[legs[i].time], legs[i].kind)
      BY DEF Inv, Dated
    <3>2. tape[legs[i].time].low > 0 /\ tape[legs[i].time].high > 0
      BY <2>1, <3>1, PriceAssumption
    <3> QED
      BY <3>1, <3>2 DEF Extreme
  <2>5. Positive(legs)
    BY <2>4 DEF Positive
  <2>6. \A kind \in Kinds : \A from \in {tape[t].close : t \in 1..Len(tape)} :
            IsPath(ResolveObjectives(legs, kind, from), legs, kind, from)
    BY <2>2, <2>3, <2>5, ResolvedPath
  <2> QED
    BY <2>6 DEF ObjectivesAreAPath, IsPath
<1> QED
  BY <1>1, Invariant, PTL

=============================================================================
