-------------------------- MODULE FeatureStore_proofs --------------------------
(***************************************************************************)
(* Proofs about FeatureStore for any number of machines, readings, batches *)
(* and faults: what its readers are told is true of the machines.          *)
(***************************************************************************)
EXTENDS FeatureStore, FiniteSetTheorems, FunctionTheorems, SequenceTheorems,
        WellFoundedInduction, TLAPS

LEMMA LeastNat ==
    ASSUME NEW S \in SUBSET Nat, S # {}
    PROVE  \E k \in S : \A j \in S : k <= j
  <1> DEFINE Lt == {pair \in Nat \X Nat : pair[1] < pair[2]}
  <1>1. IsWellFoundedOn(Lt, Nat)
    BY NatLessThanWellFounded, SMT DEF OpToRel
  <1>2. PICK k \in S : \A j \in S : <<j, k>> \notin Lt
    <2>. HIDE DEF Lt
    <2>. QED BY <1>1, WFMin
  <1>3. \A j \in S : j \in Nat /\ k \in Nat /\ ~(j < k)
    BY <1>2
  <1>4. \A j \in S : k <= j
    BY <1>3
  <1>. QED BY <1>4

LEMMA GreatestNat ==
    ASSUME NEW bound \in Nat, NEW S \in SUBSET (0 .. bound), S # {}
    PROVE  \E k \in S : \A j \in S : j <= k
  <1> DEFINE T == {n \in Nat : bound - n \in S}
  <1>1. T # {}
    <2>1. PICK j \in S : TRUE
      OBVIOUS
    <2>2. bound - j \in Nat /\ bound - (bound - j) = j
      BY <2>1
    <2>. QED BY <2>1, <2>2
  <1>2. PICK n \in T : \A j \in T : n <= j
    <2>. HIDE DEF T
    <2>1. T \in SUBSET Nat
      BY DEF T
    <2>. QED BY <1>1, <2>1, LeastNat
  <1>3. ASSUME NEW j \in S PROVE j <= bound - n
    <2>1. bound - j \in Nat /\ bound - (bound - j) = j
      BY <1>3
    <2>2. bound - j \in T
      BY <2>1
    <2>3. n \in Nat /\ n <= bound - j
      BY <1>2, <2>2
    <2>. HIDE DEF T
    <2>. QED BY <2>1, <2>3
  <1>. QED BY <1>2, <1>3

-------------------------------------------------------------------------------
(* Readings and frames *)

Reading == [machine : Machine, cycle : 1 .. MaxReadings]

ReadingsTyped == readings \in Seq(Reading) /\ Len(readings) <= MaxReadings

(* The cycle of a reading counts those of its machine up to it.            *)
SameMachineUpTo(r) == {q \in 1 .. r : MachineOf(q) = MachineOf(r)}
CyclesCount == \A r \in DOMAIN readings : CycleOf(r) = Cardinality(SameMachineUpTo(r))

Logged == ReadingsTyped /\ CyclesCount

LEMMA RowFacts ==
    ASSUME Logged
    PROVE  /\ DOMAIN readings = 1 .. Len(readings) /\ Len(readings) \in Nat
           /\ DOMAIN readings \subseteq Row /\ IsFiniteSet(DOMAIN readings)
           /\ \A r \in DOMAIN readings : /\ MachineOf(r) \in Machine /\ MachineOf(r) \in Nat
                                         /\ CycleOf(r) \in 1 .. MaxReadings
           /\ MaxReadings \in Nat
  <1>1. MaxReadings \in Nat /\ Machine \subseteq Nat
    BY FeatureStoreAssumption DEF Machine
  <1>2. readings \in Seq(Reading) /\ Len(readings) <= MaxReadings
    BY DEF Logged, ReadingsTyped
  <1>3. DOMAIN readings = 1 .. Len(readings) /\ Len(readings) \in Nat
    BY <1>2, LenProperties
  <1>4. \A r \in DOMAIN readings : readings[r] \in Reading
    BY <1>2, <1>3, ElementOfSeq
  <1>5. IsFiniteSet(1 .. Len(readings))
    BY <1>3, FS_Interval
  <1>6. \A r \in DOMAIN readings :
            MachineOf(r) \in Machine /\ CycleOf(r) \in 1 .. MaxReadings
    BY <1>4 DEF Reading, MachineOf, CycleOf
  <1>7. DOMAIN readings \subseteq Row
    BY <1>1, <1>2, <1>3 DEF Row
  <1>. QED BY <1>1, <1>3, <1>5, <1>6, <1>7

(* The cycles of a machine come in the order of its readings.              *)
LEMMA CyclesIncrease ==
    ASSUME Logged, NEW q \in DOMAIN readings, NEW r \in DOMAIN readings,
           q < r, MachineOf(q) = MachineOf(r)
    PROVE  CycleOf(q) < CycleOf(r)
  <1>1. q \in Nat /\ r \in Nat /\ IsFiniteSet(1 .. r)
    <2>1. q \in Nat /\ r \in Nat
      BY RowFacts
    <2>. QED BY <2>1, FS_Interval
  <1>2. SameMachineUpTo(q) \in SUBSET SameMachineUpTo(r) /\ SameMachineUpTo(r) \in SUBSET (1 .. r)
    BY <1>1 DEF SameMachineUpTo
  <1>3. r \in SameMachineUpTo(r) /\ r \notin SameMachineUpTo(q)
    <2>1. r \in 1 .. r /\ r \notin 1 .. q
      BY <1>1, RowFacts
    <2>. QED BY <2>1 DEF SameMachineUpTo
  <1>4. IsFiniteSet(SameMachineUpTo(r))
    BY <1>1, <1>2, FS_Subset
  <1>5. /\ Cardinality(SameMachineUpTo(q)) <= Cardinality(SameMachineUpTo(r))
        /\ Cardinality(SameMachineUpTo(q)) # Cardinality(SameMachineUpTo(r))
    BY <1>2, <1>3, <1>4, FS_Subset
  <1>6. CycleOf(q) = Cardinality(SameMachineUpTo(q)) /\ CycleOf(r) = Cardinality(SameMachineUpTo(r))
    BY DEF Logged, CyclesCount
  <1>. QED BY <1>5, <1>6, RowFacts

(* GroupBefore orders the readings.                                        *)
LEMMA GroupsOrdered ==
    ASSUME Logged
    PROVE  /\ \A a \in DOMAIN readings : ~GroupBefore(a, a)
           /\ \A a, b \in DOMAIN readings : a = b \/ GroupBefore(a, b) \/ GroupBefore(b, a)
           /\ \A a, b \in DOMAIN readings : ~(GroupBefore(a, b) /\ GroupBefore(b, a))
           /\ \A a, b, c \in DOMAIN readings :
                 GroupBefore(a, b) /\ GroupBefore(b, c) => GroupBefore(a, c)
  <1>1. ASSUME NEW a \in DOMAIN readings, NEW b \in DOMAIN readings, a # b,
               MachineOf(a) = MachineOf(b)
        PROVE  CycleOf(a) # CycleOf(b)
    <2>1. a < b \/ b < a
      BY <1>1, RowFacts
    <2>. QED BY <1>1, <2>1, CyclesIncrease, RowFacts
  <1>2. \A a \in DOMAIN readings : MachineOf(a) \in Nat /\ CycleOf(a) \in Nat
    BY RowFacts
  <1>. QED BY <1>1, <1>2 DEF GroupBefore

(* How many rows come before a row tells its place.                        *)
Before(rows, r) == {q \in rows : GroupBefore(q, r)}
Rank(rows, r) == Cardinality(Before(rows, r))

LEMMA RankFacts ==
    ASSUME Logged, NEW rows \in SUBSET DOMAIN readings
    PROVE  /\ IsFiniteSet(rows) /\ Cardinality(rows) \in Nat
           /\ \A r \in rows : Rank(rows, r) \in 0 .. Cardinality(rows) - 1
           /\ \A a, b \in rows : GroupBefore(a, b) => Rank(rows, a) < Rank(rows, b)
           /\ \A a, b \in rows : Rank(rows, a) = Rank(rows, b) => a = b
  <1>1. IsFiniteSet(rows) /\ Cardinality(rows) \in Nat
    BY RowFacts, FS_Subset, FS_CardinalityType
  <1>2. ASSUME NEW r \in rows
        PROVE  Before(rows, r) \in SUBSET rows /\ IsFiniteSet(Before(rows, r))
               /\ Rank(rows, r) \in 0 .. Cardinality(rows) - 1
    <2>1. Before(rows, r) \in SUBSET rows /\ r \notin Before(rows, r)
      BY GroupsOrdered DEF Before
    <2>2. IsFiniteSet(Before(rows, r)) /\ Rank(rows, r) \in Nat
      BY <1>1, <2>1, FS_Subset, FS_CardinalityType DEF Rank
    <2>3. Rank(rows, r) <= Cardinality(rows) /\ Rank(rows, r) # Cardinality(rows)
      BY <1>1, <2>1, FS_Subset DEF Rank
    <2>. QED BY <1>1, <2>1, <2>2, <2>3
  <1>3. ASSUME NEW a \in rows, NEW b \in rows, GroupBefore(a, b)
        PROVE  Rank(rows, a) < Rank(rows, b)
    <2>1. Before(rows, a) \in SUBSET Before(rows, b)
      BY <1>3, GroupsOrdered DEF Before
    <2>2. a \in Before(rows, b) /\ a \notin Before(rows, a)
      BY <1>3, GroupsOrdered DEF Before
    <2>3. Rank(rows, a) <= Rank(rows, b) /\ Rank(rows, a) # Rank(rows, b)
      BY <1>2, <2>1, <2>2, FS_Subset DEF Rank
    <2>. QED BY <1>1, <1>2, <2>3
  <1>4. ASSUME NEW a \in rows, NEW b \in rows, Rank(rows, a) = Rank(rows, b) PROVE a = b
    <2>1. Rank(rows, a) \in Int /\ Rank(rows, b) \in Int
      BY <1>1, <1>2
    <2>2. ~GroupBefore(a, b) /\ ~GroupBefore(b, a)
      BY <1>3, <1>4, <2>1
    <2>. QED BY <2>2, GroupsOrdered
  <1>. QED BY <1>1, <1>2, <1>3, <1>4

(* Each place in the order of a set is taken by exactly one of its rows.   *)
LEMMA InOrder ==
    ASSUME Logged, NEW rows \in SUBSET DOMAIN readings
    PROVE  LET s == InGroupOrder(rows)
           IN  /\ s \in [1 .. Cardinality(rows) -> rows]
               /\ \A p \in 1 .. Cardinality(rows) : Rank(rows, s[p]) = p - 1
               /\ \A p, q \in 1 .. Cardinality(rows) : p < q => GroupBefore(s[p], s[q])
               /\ \A r \in rows : \E p \in 1 .. Cardinality(rows) : s[p] = r
  <1> DEFINE n == Cardinality(rows)
             s == InGroupOrder(rows)
             place == [r \in rows |-> Rank(rows, r) + 1]
  <1>1. IsFiniteSet(rows) /\ n \in Nat /\ IsFiniteSet(1 .. n) /\ Cardinality(1 .. n) = n
    BY RankFacts, FS_Interval
  <1>2. \A r \in rows : Rank(rows, r) \in 0 .. n - 1
    BY RankFacts
  <1>3. place \in Injection(rows, 1 .. n)
    <2>1. place \in [rows -> 1 .. n]
      BY <1>1, <1>2
    <2>2. \A a, b \in rows : place[a] = place[b] => a = b
      BY <1>1, <1>2, RankFacts
    <2>. HIDE DEF place, n
    <2>. QED BY <2>1, <2>2, Fun_IsInj
  <1>4. place \in Surjection(rows, 1 .. n)
    <2>. HIDE DEF place
    <2>. QED BY <1>1, <1>3, FS_Injection
  <1>5. \A p \in 1 .. n : \E r \in rows : Rank(rows, r) = p - 1
    <2>1. \A p \in 1 .. n : \E r \in rows : place[r] = p
      <3>. HIDE DEF place, n
      <3>. QED BY <1>4, Fun_SurjectionProperties
    <2>2. \A r \in rows : Rank(rows, r) \in Int /\ place[r] = Rank(rows, r) + 1
      BY <1>1, <1>2
    <2>3. ASSUME NEW p \in 1 .. n PROVE \E r \in rows : Rank(rows, r) = p - 1
      <3>1. PICK r \in rows : place[r] = p
        BY <2>1
      <3>2. Rank(rows, r) \in Int /\ Rank(rows, r) + 1 = p
        BY <2>2, <3>1
      <3>. QED BY <3>2
    <2>. QED BY <2>3
  <1>6. \A p \in 1 .. n : s[p] \in rows /\ Rank(rows, s[p]) = p - 1
    <2>1. \A p \in 1 .. n : s[p] = CHOOSE r \in rows : Rank(rows, r) = p - 1
      BY DEF InGroupOrder, Rank, Before
    <2>. HIDE DEF s, n
    <2>. QED BY <1>5, <2>1
  <1>7. s \in [1 .. n -> rows]
    <2> DEFINE row(p) == CHOOSE r \in rows : Cardinality({q \in rows : GroupBefore(q, r)}) = p - 1
    <2>1. s = [p \in 1 .. n |-> row(p)]
      BY DEF InGroupOrder
    <2>. HIDE DEF s, n, row
    <2>2. \A p \in 1 .. n : row(p) \in rows
      BY <1>6, <2>1
    <2>. QED BY <2>1, <2>2
  <1>8. ASSUME NEW p \in 1 .. n, NEW q \in 1 .. n, p < q PROVE GroupBefore(s[p], s[q])
    <2>. HIDE DEF s, n
    <2>1. s[p] \in rows /\ s[q] \in rows /\ Rank(rows, s[p]) < Rank(rows, s[q])
      BY <1>1, <1>6, <1>8
    <2>2. s[p] # s[q] /\ ~GroupBefore(s[q], s[p])
      <3>1. Rank(rows, s[q]) < Rank(rows, s[p]) => FALSE
        BY <1>1, <1>2, <2>1
      <3>2. s[p] # s[q]
        BY <1>1, <1>2, <2>1
      <3>. QED BY <2>1, <3>1, <3>2, RankFacts
    <2>. QED BY <2>1, <2>2, GroupsOrdered
  <1>9. ASSUME NEW r \in rows PROVE \E p \in 1 .. n : s[p] = r
    <2>. HIDE DEF s, n
    <2>1. Rank(rows, r) + 1 \in 1 .. n /\ (Rank(rows, r) + 1) - 1 = Rank(rows, r)
      BY <1>1, <1>2
    <2>2. Rank(rows, s[Rank(rows, r) + 1]) = Rank(rows, r) /\ s[Rank(rows, r) + 1] \in rows
      BY <1>6, <2>1
    <2>. QED BY <2>1, <2>2, RankFacts
  <1>. QED BY <1>6, <1>7, <1>8, <1>9

-------------------------------------------------------------------------------
(* The labels of a frame *)

(* A frame holds readings in the order of time.                            *)
InTime(f) ==
    /\ f \in Seq(DOMAIN readings)
    /\ \A p, q \in DOMAIN f : p < q => f[p] < f[q]

LEMMA FrameFacts ==
    ASSUME Logged, NEW f, InTime(f)
    PROVE  /\ Len(f) \in Nat /\ DOMAIN f = 1 .. Len(f)
           /\ ToSet(f) \in SUBSET DOMAIN readings
           /\ \A p \in DOMAIN f : f[p] \in ToSet(f) /\ f[p] \in DOMAIN readings
           /\ \A r \in ToSet(f) : \E p \in DOMAIN f : f[p] = r
           /\ \A p, q \in DOMAIN f : f[p] = f[q] => p = q
           /\ Cardinality(ToSet(f)) = Len(f)
  <1>1. Len(f) \in Nat /\ DOMAIN f = 1 .. Len(f)
    BY LenProperties DEF InTime
  <1>2. \A p \in DOMAIN f : f[p] \in DOMAIN readings
    BY <1>1, ElementOfSeq DEF InTime
  <1>3. \A p, q \in DOMAIN f : f[p] = f[q] => p = q
    <2>1. ASSUME NEW p \in DOMAIN f, NEW q \in DOMAIN f, f[p] = f[q], p < q PROVE FALSE
      <3>1. f[p] < f[q] /\ f[p] \in Nat
        BY <1>2, <2>1, RowFacts DEF InTime
      <3>. QED BY <2>1, <3>1
    <2>. QED BY <1>1, <2>1
  <1>4. f \in Bijection(1 .. Len(f), ToSet(f))
    <2>1. f \in [1 .. Len(f) -> ToSet(f)]
      <3>1. f \in [1 .. Len(f) -> DOMAIN readings]
        BY LenProperties DEF InTime
      <3>. QED BY <1>1, <3>1 DEF ToSet
    <2>2. \A r \in ToSet(f) : \E p \in 1 .. Len(f) : f[p] = r
      BY <1>1 DEF ToSet
    <2>. QED BY <1>1, <1>3, <2>1, <2>2, Fun_IsBij
  <1>5. Cardinality(ToSet(f)) = Len(f)
    BY <1>1, <1>4, FS_CountingElements DEF ExistsBijection
  <1>. QED BY <1>1, <1>2, <1>3, <1>5 DEF ToSet

LEMMA GroupedFacts ==
    ASSUME Logged, NEW f, InTime(f)
    PROVE  \A p \in DOMAIN f : Grouped(f)[p] \in ToSet(f)
  <1>1. DOMAIN f = 1 .. Cardinality(ToSet(f)) /\ ToSet(f) \in SUBSET DOMAIN readings
    BY FrameFacts
  <1>2. Grouped(f) \in [1 .. Cardinality(ToSet(f)) -> ToSet(f)]
    BY <1>1, InOrder DEF Grouped
  <1>. QED BY <1>1, <1>2

(* A row gets its own label if as many rows of the frame come before it in *)
(* the grouped order as in the frame.                                      *)
InPlace(f, p) == Rank(ToSet(f), f[p]) = p - 1

LEMMA OwnPlace ==
    ASSUME Logged, NEW f, InTime(f), NEW p \in DOMAIN f
    PROVE  /\ Grouped(f)[p] = f[p] <=> InPlace(f, p)
           /\ f[p] \in Misplaced(f) <=> ~InPlace(f, p)
  <1>1. /\ ToSet(f) \in SUBSET DOMAIN readings /\ f[p] \in ToSet(f)
        /\ DOMAIN f = 1 .. Cardinality(ToSet(f))
        /\ \A q \in DOMAIN f : f[p] = f[q] => p = q
    BY FrameFacts
  <1>2. Grouped(f)[p] \in ToSet(f) /\ Rank(ToSet(f), Grouped(f)[p]) = p - 1
    BY <1>1, InOrder DEF Grouped
  <1>3. Grouped(f)[p] = f[p] <=> InPlace(f, p)
    BY <1>1, <1>2, RankFacts DEF InPlace
  <1>4. f[p] \in Misplaced(f) <=> Grouped(f)[p] # f[p]
    BY <1>1 DEF Misplaced
  <1>. QED BY <1>3, <1>4

(* The cycles a machine has left, counted to its last row among some.      *)
LEMMA RemainingFacts ==
    ASSUME Logged, NEW rows \in SUBSET DOMAIN readings, NEW r \in DOMAIN readings,
           NEW witness \in rows, MachineOf(witness) = MachineOf(r)
    PROVE  /\ RemainingCycles(rows, r) \in Int
           /\ \A q \in rows : MachineOf(q) = MachineOf(r) =>
                 CycleOf(q) - CycleOf(r) <= RemainingCycles(rows, r)
           /\ \E q \in rows : /\ MachineOf(q) = MachineOf(r)
                              /\ RemainingCycles(rows, r) = CycleOf(q) - CycleOf(r)
  <1> DEFINE run == {CycleOf(q) : q \in {q \in rows : MachineOf(q) = MachineOf(r)}}
             top == CHOOSE c \in run : \A d \in run : d <= c
  <1>1. \A q \in rows : CycleOf(q) \in 0 .. MaxReadings
    BY RowFacts
  <1>2. run \in SUBSET (0 .. MaxReadings) /\ run # {}
    BY <1>1
  <1>3. \E c \in run : \A d \in run : d <= c
    <2>. HIDE DEF run
    <2>. QED BY <1>2, RowFacts, GreatestNat
  <1>4. top \in run /\ \A d \in run : d <= top
    <2>. HIDE DEF run
    <2>. QED BY <1>3
  <1>5. RemainingCycles(rows, r) = top - CycleOf(r)
    BY DEF RemainingCycles
  <1>6. CycleOf(r) \in Nat /\ top \in Nat
    <2>. HIDE DEF top, run
    <2>. QED BY <1>2, <1>4, RowFacts
  <1>7. PICK q \in rows : MachineOf(q) = MachineOf(r) /\ top = CycleOf(q)
    BY <1>4
  <1>8. \A p \in rows : MachineOf(p) = MachineOf(r) => CycleOf(p) <= top /\ CycleOf(p) \in Nat
    BY <1>1, <1>4
  <1>. HIDE DEF top, run
  <1>. QED BY <1>5, <1>6, <1>7, <1>8

LEMMA RemainingGrows ==
    ASSUME Logged, NEW rows \in SUBSET DOMAIN readings, NEW more \in SUBSET DOMAIN readings,
           rows \subseteq more, NEW r \in rows
    PROVE  /\ RemainingCycles(rows, r) \in Nat /\ RemainingCycles(more, r) \in Nat
           /\ RemainingCycles(rows, r) <= RemainingCycles(more, r)
  <1>1. r \in DOMAIN readings /\ r \in more
    OBVIOUS
  <1>2. /\ RemainingCycles(rows, r) \in Int /\ RemainingCycles(more, r) \in Int
        /\ CycleOf(r) - CycleOf(r) <= RemainingCycles(rows, r)
    BY <1>1, RemainingFacts
  <1>3. PICK q \in rows : /\ MachineOf(q) = MachineOf(r)
                          /\ RemainingCycles(rows, r) = CycleOf(q) - CycleOf(r)
    BY <1>1, RemainingFacts
  <1>4. CycleOf(q) - CycleOf(r) <= RemainingCycles(more, r)
    <2>1. q \in more
      BY <1>3
    <2>. QED BY <1>1, <1>3, <2>1, RemainingFacts
  <1>5. CycleOf(r) \in Nat /\ CycleOf(q) \in Nat
    BY <1>1, RowFacts
  <1>. QED BY <1>2, <1>3, <1>4, <1>5

LEMMA LabelFacts ==
    ASSUME NEW n \in Nat
    PROVE  /\ RulLabel(n) \in 0 .. Lower(EarlyLifeRul, MaxRul)
           /\ RulLabel(n) <= n /\ RulLabel(0) = 0
           /\ FailureImminent(0)
  BY LabelsAssumption DEF RulLabel, Lower, FailureImminent

Label == {NoLabel} \cup 0 .. Lower(EarlyLifeRul, MaxRul)

(* What process_and_store writes for the row at a place.                   *)
LEMMA WrittenLabel ==
    ASSUME Logged, NEW f, InTime(f), NEW p \in DOMAIN f
    PROVE  /\ GenerateRulLabels(f)[p] = RulLabel(RemainingCycles(ToSet(f), Grouped(f)[p]))
           /\ RemainingCycles(ToSet(f), Grouped(f)[p]) \in Nat
           /\ GenerateRulLabels(f)[p] \in Label
           /\ FailureEvents(f)[p] <=> RemainingCycles(ToSet(f), Grouped(f)[p]) = 0
           /\ InPlace(f, p) => GenerateRulLabels(f)[p] <= RemainingCycles(DOMAIN readings, f[p])
  <1>1. /\ GenerateRulLabels(f)[p] = RulLabel(RemainingCycles(ToSet(f), Grouped(f)[p]))
        /\ FailureEvents(f)[p] <=> RemainingCycles(ToSet(f), Grouped(f)[p]) = 0
    BY DEF GenerateRulLabels, FailureEvents
  <1>2. Grouped(f)[p] \in ToSet(f) /\ ToSet(f) \in SUBSET DOMAIN readings
    BY GroupedFacts, FrameFacts
  <1>3. RemainingCycles(ToSet(f), Grouped(f)[p]) \in Nat
    BY <1>2, RemainingGrows
  <1>4. ASSUME InPlace(f, p) PROVE GenerateRulLabels(f)[p] <= RemainingCycles(DOMAIN readings, f[p])
    <2>1. Grouped(f)[p] = f[p] /\ f[p] \in ToSet(f)
      BY <1>2, <1>4, OwnPlace, FrameFacts
    <2>2. /\ RemainingCycles(DOMAIN readings, f[p]) \in Nat
          /\ RemainingCycles(ToSet(f), f[p]) <= RemainingCycles(DOMAIN readings, f[p])
      BY <1>2, <2>1, RemainingGrows
    <2>3. /\ RulLabel(RemainingCycles(ToSet(f), f[p])) <= RemainingCycles(ToSet(f), f[p])
          /\ RulLabel(RemainingCycles(ToSet(f), f[p])) \in 0 .. Lower(EarlyLifeRul, MaxRul)
      BY <1>3, <2>1, LabelFacts
    <2>4. Lower(EarlyLifeRul, MaxRul) \in Nat
      BY LabelsAssumption DEF Lower
    <2>. QED BY <1>1, <1>3, <2>1, <2>2, <2>3, <2>4
  <1>5. GenerateRulLabels(f)[p] \in Label
    BY <1>1, <1>3, LabelFacts DEF Label
  <1>. QED BY <1>1, <1>3, <1>4, <1>5

-------------------------------------------------------------------------------
(* What holds in every state *)

(* The machines still to be cached are those of the frame, whose rows have *)
(* labels of their own or are known not to.                                *)
CachingKnown ==
    storing = "cache" =>
        /\ \A m \in uncached : \E r \in ToSet(frame) : MachineOf(r) = m
        /\ \A p \in DOMAIN frame : InPlace(frame, p) \/ frame[p] \in misplaced

(* A label is that of a reading, and no greater than what its machine has  *)
(* run since, unless its row was marked.                                   *)
Honest(labels) ==
    \A r \in Row : labels[r] # NoLabel =>
        /\ r \in DOMAIN readings
        /\ r \notin misplaced => labels[r] <= RemainingCycles(DOMAIN readings, r)

StoreTypes ==
    /\ storing \in {"idle", "insert", "cache"} /\ uncached \subseteq Machine
    /\ table \in [Row -> Label] /\ cached \in [Row -> Label]
    /\ misplaced \subseteq Row
    /\ redis \in BOOLEAN /\ batches \in Nat /\ storeFaults \in Nat

StoreInv ==
    /\ Logged /\ InTime(frame) /\ StoreTypes
    /\ CachingKnown /\ Honest(table) /\ Honest(cached)

LEMMA StoreInitially == FeatureStoreInit => StoreInv
  <1>. SUFFICES ASSUME FeatureStoreInit PROVE StoreInv
    OBVIOUS
  <1>1. /\ readings = <<>> /\ frame = <<>> /\ storing = "idle" /\ uncached = {} /\ misplaced = {}
        /\ table = [r \in Row |-> NoLabel] /\ cached = [r \in Row |-> NoLabel]
        /\ redis \in BOOLEAN /\ batches = 0 /\ storeFaults = 0
    BY DEF FeatureStoreInit, CacheInit
  <1>2. Logged /\ InTime(frame)
    <2>1. readings \in Seq(Reading) /\ Len(readings) = 0 /\ DOMAIN readings = {}
      BY <1>1, EmptySeq, LenProperties
    <2>2. frame \in Seq(DOMAIN readings) /\ DOMAIN frame = {}
      BY <1>1, EmptySeq, LenProperties
    <2>. QED BY <2>1, <2>2, FeatureStoreAssumption
         DEF Logged, ReadingsTyped, CyclesCount, InTime
  <1>3. StoreTypes
    BY <1>1 DEF StoreTypes, Label
  <1>4. CachingKnown /\ Honest(table) /\ Honest(cached)
    BY <1>1 DEF CachingKnown, Honest
  <1>. QED BY <1>2, <1>3, <1>4 DEF StoreInv

(* One more reading leaves the earlier ones as they are, and gives their   *)
(* machines at least the cycles they had.                                  *)
LEMMA OneMoreReading ==
    ASSUME Logged, NEW m \in Machine, MachineReports(m)
    PROVE  /\ Logged'
           /\ DOMAIN readings \subseteq DOMAIN readings'
           /\ \A r \in DOMAIN readings : MachineOf(r)' = MachineOf(r) /\ CycleOf(r)' = CycleOf(r)
           /\ \A r \in DOMAIN readings :
                 /\ RemainingCycles(DOMAIN readings, r)' \in Int
                 /\ RemainingCycles(DOMAIN readings, r) <= RemainingCycles(DOMAIN readings, r)'
  <1>0. PICK n \in Nat : n = Len(readings)
    BY RowFacts
  <1> DEFINE same == {r \in DOMAIN readings : MachineOf(r) = m}
             new == [machine |-> m, cycle |-> 1 + Cardinality(same)]
  <1>1. /\ n \in Nat /\ DOMAIN readings = 1 .. n /\ readings \in Seq(Reading)
        /\ readings' = Append(readings, new) /\ n < MaxReadings /\ MaxReadings \in Nat
    BY <1>0, RowFacts DEF MachineReports, Logged, ReadingsTyped
  <1>2. IsFiniteSet(same) /\ Cardinality(same) \in Nat /\ Cardinality(same) <= n
    <2>1. IsFiniteSet(1 .. n) /\ Cardinality(1 .. n) = n
      <3>. QED BY <1>1, FS_Interval
    <2>2. same \in SUBSET (1 .. n)
      BY <1>1
    <2>. HIDE DEF same
    <2>3. IsFiniteSet(same) /\ Cardinality(same) <= Cardinality(1 .. n)
      BY <2>1, <2>2, FS_Subset
    <2>. QED BY <2>1, <2>3, FS_CardinalityType
  <1>3. new \in Reading
    <2>1. 1 + Cardinality(same) \in 1 .. MaxReadings
      <3>. HIDE DEF same
      <3>. QED BY <1>1, <1>2
    <2>. HIDE DEF same
    <2>. QED BY <2>1 DEF Reading
  <1>4. /\ readings' \in Seq(Reading) /\ Len(readings') = n + 1 /\ readings'[n + 1] = new
        /\ DOMAIN readings' = 1 .. n + 1
        /\ \A r \in 1 .. n : readings'[r] = readings[r]
    <2>. HIDE DEF new
    <2>1. /\ readings' \in Seq(Reading) /\ Len(readings') = n + 1 /\ readings'[n + 1] = new
          /\ \A r \in 1 .. n : readings'[r] = readings[r]
      BY <1>1, <1>3, AppendProperties
    <2>. QED BY <2>1, LenProperties
  <1>5. /\ \A r \in 1 .. n : MachineOf(r)' = MachineOf(r) /\ CycleOf(r)' = CycleOf(r)
        /\ MachineOf(n + 1)' = m /\ CycleOf(n + 1)' = 1 + Cardinality(same)
    <2>1. new.machine = m /\ new.cycle = 1 + Cardinality(same)
      OBVIOUS
    <2>. HIDE DEF new, same
    <2>. QED BY <1>4, <2>1 DEF MachineOf, CycleOf
  <1>6. Logged'
    <2>1. ReadingsTyped'
      BY <1>1, <1>4 DEF ReadingsTyped
    <2>2. ASSUME NEW r \in 1 .. n PROVE CycleOf(r)' = Cardinality(SameMachineUpTo(r))'
      <3>1. \A q \in 1 .. r : q \in 1 .. n
        BY <1>1
      <3>2. SameMachineUpTo(r)' = SameMachineUpTo(r)
        BY <1>5, <3>1 DEF SameMachineUpTo
      <3>. QED BY <1>1, <1>5, <3>2 DEF Logged, CyclesCount
    <2>3. CycleOf(n + 1)' = Cardinality(SameMachineUpTo(n + 1))'
      <3>1. SameMachineUpTo(n + 1)' = same \cup {n + 1} /\ n + 1 \notin same
        <4>1. \A q \in 1 .. n + 1 : q \in 1 .. n \/ q = n + 1
          BY <1>1
        <4>2. n + 1 \notin 1 .. n /\ n + 1 \in 1 .. n + 1 /\ \A q \in 1 .. n : q \in 1 .. n + 1
          BY <1>1
        <4>3. \A q \in 1 .. n : MachineOf(q)' = m <=> q \in same
          BY <1>1, <1>5
        <4>4. same \subseteq 1 .. n
          BY <1>1
        <4>5. SameMachineUpTo(n + 1)' = {q \in 1 .. n + 1 : MachineOf(q)' = m}
          BY <1>5 DEF SameMachineUpTo
        <4>. HIDE DEF same
        <4>. QED BY <1>5, <4>1, <4>2, <4>3, <4>4, <4>5
      <3>2. Cardinality(same \cup {n + 1}) = Cardinality(same) + 1
        <4>. HIDE DEF same
        <4>. QED BY <1>2, <3>1, FS_AddElement
      <3>. HIDE DEF same
      <3>3. Cardinality(same) + 1 = 1 + Cardinality(same)
        BY <1>2
      <3>. QED BY <1>5, <3>1, <3>2, <3>3
    <2>4. CyclesCount'
      <3>1. ASSUME NEW r \in DOMAIN readings' PROVE CycleOf(r)' = Cardinality(SameMachineUpTo(r))'
        <4>1. r \in 1 .. n \/ r = n + 1
          BY <1>1, <1>4
        <4>2. CASE r \in 1 .. n
          BY <2>2, <4>2
        <4>3. CASE r = n + 1
          BY <2>3, <4>3
        <4>. QED BY <4>1, <4>2, <4>3
      <3>. QED BY <3>1 DEF CyclesCount
    <2>. QED BY <2>1, <2>4 DEF Logged
  <1>7. DOMAIN readings \subseteq DOMAIN readings'
    BY <1>1, <1>4
  <1>8. ASSUME NEW r \in DOMAIN readings
        PROVE  /\ RemainingCycles(DOMAIN readings, r)' \in Int
               /\ RemainingCycles(DOMAIN readings, r) <= RemainingCycles(DOMAIN readings, r)'
    <2> DEFINE run == {CycleOf(q) : q \in {q \in DOMAIN readings : MachineOf(q) = MachineOf(r)}}
               top == CHOOSE c \in run : \A d \in run : d <= c
    <2>1. \A q \in DOMAIN readings' : CycleOf(q)' \in 0 .. MaxReadings
      <3>1. \A q \in 1 .. n + 1 : readings'[q] \in Reading
        BY <1>4, ElementOfSeq
      <3>. QED BY <1>4, <3>1 DEF Reading, CycleOf
    <2>2. r \in DOMAIN readings' /\ run' \in SUBSET (0 .. MaxReadings) /\ run' # {}
      BY <1>7, <2>1
    <2>3. \E c \in run' : \A d \in run' : d <= c
      <3>. HIDE DEF run
      <3>. QED BY <1>1, <2>2, GreatestNat
    <2>4. top' \in run' /\ \A d \in run' : d <= top'
      <3>. HIDE DEF run
      <3>. QED BY <2>3
    <2>5. RemainingCycles(DOMAIN readings, r)' = top' - CycleOf(r)'
      BY DEF RemainingCycles
    <2>6. PICK q \in DOMAIN readings : /\ MachineOf(q) = MachineOf(r)
                                       /\ RemainingCycles(DOMAIN readings, r) = CycleOf(q) - CycleOf(r)
      BY RemainingFacts
    <2>7. CycleOf(q) \in run'
      <3>1. MachineOf(q)' = MachineOf(r)' /\ CycleOf(q)' = CycleOf(q) /\ q \in DOMAIN readings'
        BY <1>1, <1>5, <1>7, <2>6
      <3>. QED BY <3>1
    <2>8. CycleOf(r)' = CycleOf(r) /\ CycleOf(r) \in Nat /\ CycleOf(q) \in Nat /\ top' \in Nat
      <3>1. CycleOf(r)' = CycleOf(r) /\ CycleOf(r) \in Nat /\ CycleOf(q) \in Nat
        BY <1>1, <1>5, RowFacts
      <3>. HIDE DEF run, top
      <3>. QED BY <2>2, <2>4, <3>1
    <2>. HIDE DEF run, top
    <2>. QED BY <2>4, <2>5, <2>6, <2>7, <2>8
  <1>. QED BY <1>1, <1>5, <1>6, <1>7, <1>8

LEMMA ReportStep ==
    ASSUME StoreInv, NEW m \in Machine, MachineReports(m)
    PROVE  StoreInv'
  <1>. USE DEF StoreInv
  <1>1. UNCHANGED <<frame, storing, uncached, table, cached, redis, batches, storeFaults, misplaced>>
    BY DEF MachineReports
  <1>2. /\ Logged'
        /\ DOMAIN readings \subseteq DOMAIN readings'
        /\ \A r \in DOMAIN readings : MachineOf(r)' = MachineOf(r) /\ CycleOf(r)' = CycleOf(r)
        /\ \A r \in DOMAIN readings :
              /\ RemainingCycles(DOMAIN readings, r)' \in Int
              /\ RemainingCycles(DOMAIN readings, r) <= RemainingCycles(DOMAIN readings, r)'
    BY OneMoreReading
  <1>3. InTime(frame)'
    <2>1. frame \in Seq(DOMAIN readings')
      BY <1>2, SeqMonotonic DEF InTime
    <2>. QED BY <1>1, <2>1 DEF InTime
  <1>4. CachingKnown'
    <2>1. \A r \in ToSet(frame) : MachineOf(r)' = MachineOf(r)
      BY <1>2, FrameFacts
    <2>2. \A p \in DOMAIN frame : frame[p] \in ToSet(frame)
      BY FrameFacts
    <2>3. ToSet(frame)' = ToSet(frame)
      BY <1>1
    <2>4. ASSUME NEW r \in ToSet(frame) PROVE Rank(ToSet(frame), r)' = Rank(ToSet(frame), r)
      <3>1. \A q \in ToSet(frame) : MachineOf(q)' = MachineOf(q) /\ CycleOf(q)' = CycleOf(q)
        BY <1>2, FrameFacts
      <3>2. Before(ToSet(frame), r)' = Before(ToSet(frame), r)
        BY <2>3, <3>1 DEF Before, GroupBefore
      <3>. QED BY <3>2 DEF Rank
    <2>5. \A p \in DOMAIN frame : InPlace(frame, p)' <=> InPlace(frame, p)
      BY <1>1, <2>2, <2>4 DEF InPlace
    <2>. QED BY <1>1, <2>1, <2>3, <2>5 DEF CachingKnown
  <1>5. ASSUME NEW labels \in [Row -> Label], Honest(labels)
        PROVE  \A r \in Row : labels[r] # NoLabel =>
                  /\ r \in DOMAIN readings'
                  /\ r \notin misplaced => labels[r] <= RemainingCycles(DOMAIN readings, r)'
    <2>1. SUFFICES ASSUME NEW r \in Row, labels[r] # NoLabel
                   PROVE  /\ r \in DOMAIN readings'
                          /\ r \notin misplaced => labels[r] <= RemainingCycles(DOMAIN readings, r)'
      OBVIOUS
    <2>2. r \in DOMAIN readings
      BY <1>5, <2>1 DEF Honest
    <2>3. RemainingCycles(DOMAIN readings, r) \in Nat
      BY <2>2, RemainingGrows
    <2>4. RemainingCycles(DOMAIN readings, r)' \in Int
      BY <1>2, <2>2
    <2>5. labels[r] \in Int
      BY LabelsAssumption DEF Label, NoLabel, Lower
    <2>. QED BY <1>2, <1>5, <2>1, <2>2, <2>3, <2>4, <2>5 DEF Honest
  <1>6. StoreTypes'
    BY <1>1 DEF StoreTypes
  <1>7. Honest(table)' /\ Honest(cached)'
    BY <1>1, <1>5 DEF Honest, StoreTypes
  <1>. QED BY <1>2, <1>3, <1>4, <1>6, <1>7

(* The other steps leave the readings as they are. *)
LEMMA ReadingsKept ==
    ASSUME Logged, UNCHANGED readings
    PROVE  /\ Logged'
           /\ \A r \in DOMAIN readings :
                 RemainingCycles(DOMAIN readings, r)' = RemainingCycles(DOMAIN readings, r)
           /\ \A r : MachineOf(r)' = MachineOf(r)
           /\ UNCHANGED frame /\ InTime(frame) => InTime(frame)'
           /\ UNCHANGED frame => \A p : InPlace(frame, p)' <=> InPlace(frame, p)
  <1>1. \A r : MachineOf(r)' = MachineOf(r) /\ CycleOf(r)' = CycleOf(r)
    BY DEF MachineOf, CycleOf
  <1>2. Logged'
    BY <1>1 DEF Logged, ReadingsTyped, CyclesCount, SameMachineUpTo
  <1>3. ASSUME UNCHANGED frame, NEW p PROVE InPlace(frame, p)' <=> InPlace(frame, p)
    BY <1>1, <1>3 DEF InPlace, Rank, Before, GroupBefore
  <1>. QED BY <1>1, <1>2, <1>3 DEF RemainingCycles, InTime

LEMMA BatchStep ==
    ASSUME StoreInv, NEW first \in Row, NEW final \in Row, ProcessBatch(first, final)
    PROVE  StoreInv'
  <1>. USE DEF StoreInv
  <1>1. /\ storing = "idle" /\ storing' = "insert" /\ batches' = batches + 1
        /\ frame' = [p \in 1 .. final - first + 1 |-> first + p - 1]
        /\ first \in 1 .. final /\ final \in DOMAIN readings
        /\ UNCHANGED <<readings, uncached, table, cached, redis, storeFaults, misplaced>>
    BY DEF ProcessBatch
  <1>2. first \in Nat /\ final \in Nat /\ \A k \in 1 .. final : k \in DOMAIN readings
    BY <1>1, RowFacts
  <1>3. InTime(frame)'
    <2>1. final - first + 1 \in Nat
      BY <1>1, <1>2
    <2>2. \A p \in 1 .. final - first + 1 : first + p - 1 \in DOMAIN readings
      <3>1. \A p \in 1 .. final - first + 1 : first + p - 1 \in 1 .. final
        BY <1>1, <1>2
      <3>. QED BY <1>2, <3>1
    <2>3. frame' \in Seq(DOMAIN readings)
      BY <1>1, <2>1, <2>2
    <2>4. \A p, q \in DOMAIN frame' : p < q => frame'[p] < frame'[q]
      BY <1>1, <1>2
    <2>. QED BY <1>1, <2>3, <2>4 DEF InTime
  <1>4. Logged' /\ Honest(table)' /\ Honest(cached)'
    BY <1>1, ReadingsKept DEF Honest
  <1>5. StoreTypes' /\ CachingKnown'
    BY <1>1 DEF StoreTypes, CachingKnown
  <1>. QED BY <1>3, <1>4, <1>5

(* The label written for a row of the frame.                               *)
LEMMA FrameLabel ==
    ASSUME StoreInv, NEW r \in ToSet(frame)
    PROVE  /\ r \in DOMAIN readings /\ r \in Row
           /\ GenerateRulLabels(frame)[PositionOf(r)] \in Label
           /\ r \notin Misplaced(frame) \/ InPlace(frame, PositionOf(r)) =>
                 GenerateRulLabels(frame)[PositionOf(r)] <= RemainingCycles(DOMAIN readings, r)
           /\ PositionOf(r) \in DOMAIN frame /\ frame[PositionOf(r)] = r
  <1>1. PositionOf(r) \in DOMAIN frame /\ frame[PositionOf(r)] = r
    BY DEF PositionOf, ToSet
  <1>2. r \in DOMAIN readings /\ r \in Row
    BY FrameFacts, RowFacts DEF StoreInv
  <1>3. r \notin Misplaced(frame) => InPlace(frame, PositionOf(r))
    BY <1>1, OwnPlace DEF StoreInv
  <1>. QED BY <1>1, <1>2, <1>3, WrittenLabel DEF StoreInv

LEMMA InsertStep ==
    ASSUME StoreInv, NEW applied \in BOOLEAN, InsertFeatures(applied)
    PROVE  StoreInv'
  <1>. USE DEF StoreInv
  <1> DEFINE labelOf(r) == GenerateRulLabels(frame)[PositionOf(r)]
  <1>1. /\ storing' = "cache"
        /\ storeFaults' \in Nat
        /\ table' = IF applied THEN [r \in Row |-> IF r \in ToSet(frame) THEN labelOf(r) ELSE table[r]]
                    ELSE table
        /\ misplaced' = misplaced \cup Misplaced(frame)
        /\ uncached' = {MachineOf(r) : r \in ToSet(frame)}
        /\ UNCHANGED <<readings, frame, cached, redis, batches>>
    BY DEF InsertFeatures, StoreFault, StoreTypes
  <1>2. \A r \in ToSet(frame) : /\ r \in DOMAIN readings /\ r \in Row /\ labelOf(r) \in Label
                                /\ r \notin Misplaced(frame) =>
                                      labelOf(r) <= RemainingCycles(DOMAIN readings, r)
    BY FrameLabel
  <1>. HIDE DEF labelOf
  <1>3. Logged' /\ InTime(frame)'
    BY <1>1, ReadingsKept
  <1>4. CachingKnown'
    <2>1. \A r : MachineOf(r)' = MachineOf(r)
      BY <1>1, ReadingsKept
    <2>2. \A p \in DOMAIN frame : InPlace(frame, p)' \/ frame[p] \in Misplaced(frame)
      BY <1>1, ReadingsKept, OwnPlace
    <2>3. ToSet(frame)' = ToSet(frame)
      BY <1>1
    <2>. QED BY <1>1, <2>1, <2>2, <2>3 DEF CachingKnown
  <1>5. StoreTypes'
    <2>1. uncached' \subseteq Machine
      BY <1>1, <1>2, RowFacts
    <2>2. table' \in [Row -> Label]
      BY <1>1, <1>2 DEF StoreTypes
    <2>3. Misplaced(frame) \subseteq ToSet(frame)
      BY FrameFacts DEF Misplaced
    <2>4. misplaced' \subseteq Row
      BY <1>1, <1>2, <2>3 DEF StoreTypes
    <2>. QED BY <1>1, <2>1, <2>2, <2>4 DEF StoreTypes
  <1>6. Honest(cached)'
    BY <1>1, ReadingsKept DEF Honest
  <1>7. Honest(table)'
    <2>1. SUFFICES ASSUME NEW r \in Row, table'[r] # NoLabel
                   PROVE  /\ r \in DOMAIN readings
                          /\ r \notin misplaced' => table'[r] <= RemainingCycles(DOMAIN readings, r)
      BY <1>1, ReadingsKept DEF Honest
    <2>2. CASE applied /\ r \in ToSet(frame)
      BY <1>1, <1>2, <2>2
    <2>3. CASE ~(applied /\ r \in ToSet(frame))
      <3>1. table'[r] = table[r]
        BY <1>1, <2>3
      <3>. QED BY <1>1, <2>1, <3>1 DEF Honest
    <2>. QED BY <2>2, <2>3
  <1>. QED BY <1>3, <1>4, <1>5, <1>6, <1>7

(* Each machine of a frame has a last row in it.                           *)
LEMMA LatestExists ==
    ASSUME StoreInv, NEW r \in ToSet(frame)
    PROVE  LET last == LatestRow(MachineOf(r))
           IN  /\ last \in ToSet(frame) /\ MachineOf(last) = MachineOf(r)
               /\ \A q \in ToSet(frame) : MachineOf(q) = MachineOf(r) => CycleOf(q) <= CycleOf(last)
  <1> DEFINE run == {CycleOf(q) : q \in {q \in ToSet(frame) : MachineOf(q) = MachineOf(r)}}
             IsLast(c) == /\ MachineOf(c) = MachineOf(r)
                          /\ \A q \in ToSet(frame) : MachineOf(q) = MachineOf(r) => CycleOf(q) <= CycleOf(c)
  <1>1. \A q \in ToSet(frame) : CycleOf(q) \in 0 .. MaxReadings
    BY FrameFacts, RowFacts DEF StoreInv
  <1>2. run \in SUBSET (0 .. MaxReadings) /\ run # {} /\ MaxReadings \in Nat
    BY <1>1, FeatureStoreAssumption
  <1>3. PICK c \in run : \A d \in run : d <= c
    <2>. HIDE DEF run
    <2>. QED BY <1>2, GreatestNat
  <1>4. \E latest \in ToSet(frame) : IsLast(latest)
    BY <1>3
  <1>5. LatestRow(MachineOf(r)) = CHOOSE latest \in ToSet(frame) : IsLast(latest)
    BY DEF LatestRow
  <1>6. LatestRow(MachineOf(r)) \in ToSet(frame) /\ IsLast(LatestRow(MachineOf(r)))
    <2>. HIDE DEF IsLast
    <2>. QED BY <1>4, <1>5
  <1>. QED BY <1>6

LEMMA CacheStep ==
    ASSUME StoreInv, NEW m \in Machine, CacheLatest(m)
    PROVE  StoreInv'
  <1>. USE DEF StoreInv
  <1> DEFINE last == LatestRow(m)
             label == GenerateRulLabels(frame)[PositionOf(last)]
  <1>1. /\ storing = "cache" /\ m \in uncached
        /\ cached' = [cached EXCEPT ![last] = label] \/ cached' = cached
        /\ storeFaults' \in Nat
        /\ uncached' = uncached \ {m} /\ storing' \in {"idle", "cache"}
        /\ UNCHANGED <<readings, frame, table, redis, batches, misplaced>>
    BY DEF CacheLatest, StoreFault, StoreTypes
  <1>2. last \in ToSet(frame)
    <2>1. PICK r \in ToSet(frame) : MachineOf(r) = m
      BY <1>1 DEF CachingKnown
    <2>. QED BY <2>1, LatestExists
  <1>3. /\ last \in DOMAIN readings /\ last \in Row /\ label \in Label
        /\ last \notin misplaced => label <= RemainingCycles(DOMAIN readings, last)
    <2>1. /\ PositionOf(last) \in DOMAIN frame /\ frame[PositionOf(last)] = last
          /\ last \in DOMAIN readings /\ last \in Row /\ label \in Label
          /\ InPlace(frame, PositionOf(last)) => label <= RemainingCycles(DOMAIN readings, last)
      BY <1>2, FrameLabel
    <2>2. InPlace(frame, PositionOf(last)) \/ last \in misplaced
      BY <1>1, <2>1 DEF CachingKnown
    <2>. QED BY <2>1, <2>2
  <1>. HIDE DEF last, label
  <1>4. Logged' /\ InTime(frame)'
    BY <1>1, ReadingsKept
  <1>5. CachingKnown'
    <2>1. \A r : MachineOf(r)' = MachineOf(r)
      BY <1>1, ReadingsKept
    <2>2. \A p \in DOMAIN frame : InPlace(frame, p)' <=> InPlace(frame, p)
      BY <1>1, ReadingsKept
    <2>3. ToSet(frame)' = ToSet(frame)
      BY <1>1
    <2>. QED BY <1>1, <2>1, <2>2, <2>3 DEF CachingKnown
  <1>6. StoreTypes'
    BY <1>1, <1>3 DEF StoreTypes
  <1>7. Honest(table)'
    BY <1>1, ReadingsKept DEF Honest
  <1>8. Honest(cached)'
    <2>1. SUFFICES ASSUME NEW r \in Row, cached'[r] # NoLabel
                   PROVE  /\ r \in DOMAIN readings
                          /\ r \notin misplaced => cached'[r] <= RemainingCycles(DOMAIN readings, r)
      BY <1>1, ReadingsKept DEF Honest
    <2>2. CASE cached'[r] = cached[r]
      BY <2>1, <2>2 DEF Honest
    <2>3. CASE cached'[r] # cached[r]
      <3>1. r = last /\ cached'[r] = label
        BY <1>1, <2>3 DEF StoreTypes
      <3>. QED BY <1>3, <3>1
    <2>. QED BY <2>2, <2>3
  <1>. QED BY <1>4, <1>5, <1>6, <1>7, <1>8

LEMMA ExpireStep ==
    ASSUME StoreInv, NEW rows, Expire(rows)
    PROVE  StoreInv'
  <1>. USE DEF StoreInv
  <1>1. /\ cached' = [r \in Row |-> IF r \in rows THEN NoLabel ELSE cached[r]]
        /\ UNCHANGED <<readings, frame, storing, uncached, table, redis, batches, storeFaults, misplaced>>
    BY DEF Expire
  <1>2. Logged' /\ InTime(frame)' /\ Honest(table)'
    BY <1>1, ReadingsKept DEF Honest
  <1>3. CachingKnown'
    <2>1. \A r : MachineOf(r)' = MachineOf(r)
      BY <1>1, ReadingsKept
    <2>2. \A p \in DOMAIN frame : InPlace(frame, p)' <=> InPlace(frame, p)
      BY <1>1, ReadingsKept
    <2>. QED BY <1>1, <2>1, <2>2 DEF CachingKnown, ToSet
  <1>4. StoreTypes'
    BY <1>1 DEF StoreTypes, Label
  <1>5. Honest(cached)'
    BY <1>1, ReadingsKept DEF Honest
  <1>. QED BY <1>2, <1>3, <1>4, <1>5

LEMMA StoreStep == StoreInv /\ [FeatureStoreNext]_storeVars => StoreInv'
  <1>. SUFFICES ASSUME StoreInv, [FeatureStoreNext]_storeVars PROVE StoreInv'
    OBVIOUS
  <1>1. CASE UNCHANGED storeVars
    <2>1. UNCHANGED <<readings, frame, storing, uncached, table, cached, redis, batches, storeFaults, misplaced>>
      BY <1>1 DEF storeVars
    <2>2. Logged' /\ InTime(frame)' /\ Honest(table)' /\ Honest(cached)'
      BY <2>1, ReadingsKept DEF Honest, StoreInv
    <2>3. CachingKnown'
      BY <2>1, ReadingsKept DEF CachingKnown, StoreInv, ToSet
    <2>. QED BY <2>1, <2>2, <2>3 DEF StoreInv, StoreTypes
  <1>2. CASE FeatureStoreNext
    BY <1>2, ReportStep, CacheStep, BatchStep, InsertStep, ExpireStep DEF FeatureStoreNext
  <1>. QED BY <1>1, <1>2

LEMMA AlwaysStoreInv == FeatureStoreSpec => []StoreInv
  BY StoreInitially, StoreStep, PTL DEF FeatureStoreSpec

(* Readings, labels and the cache are what the code takes them for.        *)
THEOREM StoreTypeCorrect == FeatureStoreSpec => []FeatureStoreTypeOK
  <1>1. StoreInv => FeatureStoreTypeOK
    BY DEF StoreInv, Logged, ReadingsTyped, Reading, InTime, StoreTypes, Label, FeatureStoreTypeOK
  <1>. QED BY <1>1, AlwaysStoreInv, PTL

-------------------------------------------------------------------------------
(* What the readers are told *)

(* No label promises more cycles than its machine has run since, but for   *)
(* rows that were given the label of another row.                          *)
LEMMA NeverOptimistic == StoreInv => LabelsNeverOptimistic
  BY DEF StoreInv, Honest, LabelsNeverOptimistic, CachedLabel

(* A frame labels the row it marks as near a failure, and marks, where     *)
(* rows have labels of their own, the last row of each machine.            *)
LEMMA FramesAgree == StoreInv => FrameAgrees
  <1>. SUFFICES ASSUME StoreInv, NEW p \in DOMAIN frame
                PROVE  /\ FailureEvents(frame)[p] => FailureImminent(GenerateRulLabels(frame)[p])
                       /\ frame[p] \notin Misplaced(frame) =>
                             (FailureEvents(frame)[p] <=> frame[p] = LatestRow(MachineOf(frame[p])))
    BY DEF FrameAgrees
  <1>. USE DEF StoreInv
  <1>1. /\ GenerateRulLabels(frame)[p] = RulLabel(RemainingCycles(ToSet(frame), Grouped(frame)[p]))
        /\ FailureEvents(frame)[p] <=> RemainingCycles(ToSet(frame), Grouped(frame)[p]) = 0
    BY WrittenLabel
  <1>2. FailureEvents(frame)[p] => FailureImminent(GenerateRulLabels(frame)[p])
    <2>1. RulLabel(0) = 0 /\ FailureImminent(0)
      BY LabelFacts
    <2>. QED BY <1>1, <2>1
  <1>3. ASSUME frame[p] \notin Misplaced(frame)
        PROVE  FailureEvents(frame)[p] <=> frame[p] = LatestRow(MachineOf(frame[p]))
    <2> DEFINE r == frame[p]
               last == LatestRow(MachineOf(r))
               left == RemainingCycles(ToSet(frame), r)
    <2>1. r \in ToSet(frame) /\ ToSet(frame) \in SUBSET DOMAIN readings /\ Grouped(frame)[p] = r
      BY <1>3, FrameFacts, OwnPlace
    <2>2. /\ last \in ToSet(frame) /\ MachineOf(last) = MachineOf(r)
          /\ \A q \in ToSet(frame) : MachineOf(q) = MachineOf(r) => CycleOf(q) <= CycleOf(last)
      BY <2>1, LatestExists
    <2>3. /\ left \in Int
          /\ \A q \in ToSet(frame) : MachineOf(q) = MachineOf(r) => CycleOf(q) - CycleOf(r) <= left
      BY <2>1, RemainingFacts
    <2>4. PICK q \in ToSet(frame) : MachineOf(q) = MachineOf(r) /\ left = CycleOf(q) - CycleOf(r)
      BY <2>1, RemainingFacts
    <2>5. CycleOf(q) \in Nat /\ CycleOf(r) \in Nat /\ CycleOf(last) \in Nat
      BY <2>1, <2>2, <2>4, RowFacts
    <2>6. left = CycleOf(last) - CycleOf(r)
      <3>. HIDE DEF r, last, left
      <3>. QED BY <2>2, <2>3, <2>4, <2>5
    <2>7. left = 0 <=> CycleOf(last) = CycleOf(r)
      <3>. HIDE DEF r, last, left
      <3>. QED BY <2>5, <2>6
    <2>8. CycleOf(last) = CycleOf(r) => last = r
      <3>. HIDE DEF r, last, left
      <3>1. last \in DOMAIN readings /\ r \in DOMAIN readings
        BY <2>1, <2>2
      <3>2. last < r \/ r < last \/ last = r
        BY <3>1, RowFacts
      <3>. QED BY <2>2, <2>5, <3>1, <3>2, CyclesIncrease
    <2>9. FailureEvents(frame)[p] <=> left = 0
      BY <1>1, <2>1
    <2>. HIDE DEF r, last, left
    <2>10. FailureEvents(frame)[p] <=> r = last
      BY <2>7, <2>8, <2>9
    <2>. QED BY <2>10 DEF r, last
  <1>. QED BY <1>2, <1>3

(* A row of the table that is later than one fetched is fetched too.       *)
LEMMA FetchedIsLatest ==
    ASSUME NEW q \in Fetched, NEW r \in Stored, q < r
    PROVE  r \in Fetched
  <1> DEFINE After(x) == {y \in Stored : y > x}
  <1>1. FetchLimit \in Nat /\ MaxReadings \in Nat /\ Stored \in SUBSET Row /\ q \in Stored
    BY FeatureStoreAssumption DEF Stored, Fetched
  <1>2. IsFiniteSet(Row) /\ Row \subseteq Nat
    <2>1. IsFiniteSet(1 .. MaxReadings)
      BY <1>1, FS_Interval
    <2>. QED BY <2>1 DEF Row
  <1>3. After(q) \in SUBSET Row /\ After(r) \in SUBSET After(q)
    <2>1. \A y \in Stored : y \in Nat
      BY <1>1, <1>2
    <2>2. \A y \in Stored : y > r => y > q
      BY <1>1, <2>1
    <2>. QED BY <1>1, <2>2
  <1>4. Cardinality(After(q)) < FetchLimit
    BY DEF Fetched
  <1>. HIDE DEF After
  <1>5. IsFiniteSet(After(q)) /\ Cardinality(After(q)) \in Nat
    BY <1>2, <1>3, FS_Subset, FS_CardinalityType
  <1>6. IsFiniteSet(After(r)) /\ Cardinality(After(r)) \in Nat
        /\ Cardinality(After(r)) <= Cardinality(After(q))
    BY <1>3, <1>5, FS_Subset, FS_CardinalityType
  <1>7. Cardinality(After(r)) < FetchLimit
    BY <1>1, <1>4, <1>5, <1>6
  <1>. QED BY <1>7 DEF After, Fetched

(* A window holds a machine in the order of its cycles and leaves out only *)
(* what the table lost.                                                    *)
LEMMA WindowsWhole == StoreInv => WindowsSkipOnlyLostRows
  <1>. SUFFICES ASSUME StoreInv, NEW w \in TrainingDataset, NEW i \in 1 .. Len(w) - 1
                PROVE  /\ MachineOf(w[i]) = MachineOf(w[i + 1])
                       /\ \A r \in DOMAIN readings :
                             MachineOf(r) = MachineOf(w[i]) /\ CycleOf(w[i]) < CycleOf(r)
                                 /\ CycleOf(r) < CycleOf(w[i + 1]) => table[r] = NoLabel
    BY DEF WindowsSkipOnlyLostRows
  <1>. USE DEF StoreInv
  <1>1. Fetched \in SUBSET DOMAIN readings
    BY DEF Fetched, Stored, Honest
  <1>2. PICK m \in Machine :
           w \in {SubSeq(InGroupOrder({r \in Fetched : MachineOf(r) = m}), k, k + SequenceLength - 1) :
                     k \in 1 .. Len(InGroupOrder({r \in Fetched : MachineOf(r) = m})) - SequenceLength + 1}
    BY DEF TrainingDataset, Windows
  <1> DEFINE rows == {r \in Fetched : MachineOf(r) = m}
             group == InGroupOrder(rows)
  <1>3. rows \in SUBSET DOMAIN readings /\ \A r \in rows : MachineOf(r) = m /\ r \in Fetched
    BY <1>1
  <1>4. PICK n \in Nat : n = Cardinality(rows)
    <2>. HIDE DEF rows
    <2>. QED BY <1>3, RankFacts
  <1>5. /\ group \in [1 .. n -> rows]
        /\ \A p, q \in 1 .. n : p < q => GroupBefore(group[p], group[q])
        /\ \A r \in rows : \E p \in 1 .. n : group[p] = r
    <2>. HIDE DEF rows
    <2>. QED BY <1>3, <1>4, InOrder
  <1>6. group \in Seq(rows) /\ Len(group) = n /\ SequenceLength \in Nat \ {0}
    <2>. HIDE DEF group, rows
    <2>. QED BY <1>5, FeatureStoreAssumption
  <1>7. PICK k \in 1 .. n - SequenceLength + 1 : w = SubSeq(group, k, k + SequenceLength - 1)
    BY <1>2, <1>6
  <1>. HIDE DEF group, rows
  <1>8. /\ Len(w) = SequenceLength
        /\ \A j \in 1 .. SequenceLength : w[j] = group[k + j - 1] /\ k + j - 1 \in 1 .. n
    <2>1. k \in Int /\ k + SequenceLength - 1 \in Int /\ k <= k + SequenceLength - 1
      BY <1>6
    <2>2. \A j \in k .. k + SequenceLength - 1 : j \in 1 .. n
      BY <1>6
    <2>3. \A j \in k .. k + SequenceLength - 1 : group[j] \in rows
      BY <1>5, <2>2
    <2>4. /\ Len(w) = (k + SequenceLength - 1) - k + 1
          /\ \A j \in 1 .. (k + SequenceLength - 1) - k + 1 : w[j] = group[k + j - 1]
      BY <1>7, <2>1, <2>3, SubSeqProperties
    <2>. QED BY <1>6, <2>4
  <1>9. PICK p \in 1 .. n : p + 1 \in 1 .. n /\ w[i] = group[p] /\ w[i + 1] = group[p + 1]
    <2>1. i \in 1 .. SequenceLength /\ i + 1 \in 1 .. SequenceLength
      BY <1>6, <1>8
    <2>2. k + i - 1 \in 1 .. n /\ k + (i + 1) - 1 = (k + i - 1) + 1
      BY <1>8, <2>1
    <2>. QED BY <1>8, <2>1, <2>2
  <1>10. w[i] \in rows /\ w[i + 1] \in rows
    BY <1>5, <1>9
  <1>11. MachineOf(w[i]) = m /\ MachineOf(w[i + 1]) = m
    BY <1>3, <1>10
  <1>12. ASSUME NEW r \in DOMAIN readings, MachineOf(r) = m, table[r] # NoLabel,
                CycleOf(w[i]) < CycleOf(r), CycleOf(r) < CycleOf(w[i + 1])
         PROVE  FALSE
    <2>1. w[i] \in DOMAIN readings /\ r \in Nat /\ w[i] \in Nat /\ CycleOf(w[i]) \in Nat /\ CycleOf(r) \in Nat
      <3>1. w[i] \in DOMAIN readings
        BY <1>3, <1>10
      <3>. QED BY <3>1, RowFacts
    <2>2. w[i] < r
      <3>1. r < w[i] \/ r = w[i] \/ w[i] < r
        BY <2>1
      <3>. QED BY <1>11, <1>12, <2>1, <3>1, CyclesIncrease
    <2>3. r \in rows
      <3>1. r \in Stored
        BY <1>12, RowFacts DEF Stored
      <3>2. r \in Fetched
        BY <1>3, <1>10, <2>2, <3>1, FetchedIsLatest
      <3>. QED BY <1>12, <3>2 DEF rows
    <2>4. PICK q \in 1 .. n : group[q] = r
      BY <1>5, <2>3
    <2>5. GroupBefore(group[p], group[q]) /\ GroupBefore(group[q], group[p + 1])
      BY <1>9, <1>11, <1>12, <2>4 DEF GroupBefore
    <2>6. group[p] \in DOMAIN readings /\ group[q] \in DOMAIN readings /\ group[p + 1] \in DOMAIN readings
      BY <1>3, <1>5, <1>9
    <2>7. ~(q < p) /\ q # p /\ ~(p + 1 < q) /\ q # p + 1
      BY <1>5, <1>9, <2>5, <2>6, GroupsOrdered
    <2>. QED BY <2>7
  <1>. QED BY <1>11, <1>12

(* What the store tells its readers, for any number of machines, readings, *)
(* batches and failures: only a row given the label of another row may be  *)
(* labelled too optimistically, windows of training data skip only what    *)
(* was lost, and the marks of a frame agree with its labels.               *)
THEOREM ReadersNeverMisled == FeatureStoreSpec => []ReadersNotMisled
  <1>1. StoreInv => ReadersNotMisled
    BY NeverOptimistic, FramesAgree, WindowsWhole DEF ReadersNotMisled
  <1>. QED BY <1>1, AlwaysStoreInv, PTL
================================================================================
