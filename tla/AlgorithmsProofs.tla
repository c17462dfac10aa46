-------------------------- MODULE AlgorithmsProofs --------------------------
(***************************************************************************)
(* Theorems about the computations: an index is consistent after any       *)
(* changes, the windows of a text lose nothing of it, a fusion puts        *)
(* consensus first, a query is not lost among its variants, a product's    *)
(* name finds the product, a shipment only advances.                       *)
(***************************************************************************)
EXTENDS Algorithms, FiniteSetTheorems, SequenceTheorems, WellFoundedInduction, TLAPS

-----------------------------------------------------------------------------
(* Orders *)

\* A relation that orders a set, and the number of elements below each.
Orders(R, S) ==
    /\ \A p \in S : <<p, p>> \notin R
    /\ \A p, q \in S : p # q => <<p, q>> \in R \/ <<q, p>> \in R
    /\ \A p, q, r \in S : <<p, q>> \in R /\ <<q, r>> \in R => <<p, r>> \in R
Rank(R, S) == [p \in S |-> Cardinality({q \in S : <<q, p>> \in R})]

\* In a finite set with a strict total order R every element has a rank, the
\* number of elements below it: ranks respect the order, and each number below
\* the size of the set is the rank of one element.
LEMMA Ranks ==
  ASSUME NEW R, NEW S, IsFiniteSet(S), Orders(R, S)
  PROVE  /\ Cardinality(S) \in Nat
         /\ Rank(R, S) \in [S -> 0..(Cardinality(S) - 1)]
         /\ \A p, q \in S : <<p, q>> \in R => Rank(R, S)[p] < Rank(R, S)[q]
         /\ \A p, q \in S : Rank(R, S)[p] = Rank(R, S)[q] => p = q
         /\ \A k \in 1..Cardinality(S) : \E p \in S : Rank(R, S)[p] = k - 1
  <1> DEFINE below(p) == {q \in S : <<q, p>> \in R}
             rank == Rank(R, S)
             n == Cardinality(S)
  <1>0. rank = [p \in S |-> Cardinality(below(p))]
    BY DEF Rank
  <1> USE DEF Orders
  <1>1. n \in Nat
    BY FS_CardinalityType
  <1> HIDE DEF rank
  <1>2. ASSUME NEW p \in S
        PROVE  /\ IsFiniteSet(below(p)) /\ Cardinality(below(p)) \in Nat
               /\ Cardinality(below(p)) <= n - 1
    <2>1. IsFiniteSet(S \ {p}) /\ Cardinality(S \ {p}) = n - 1
      BY FS_RemoveElement
    <2>2. below(p) \in SUBSET (S \ {p})
      OBVIOUS
    <2> HIDE DEF below
    <2> QED
      BY <2>1, <2>2, FS_Subset, FS_CardinalityType
  <1>3. ASSUME NEW p \in S, NEW q \in S, <<p, q>> \in R
        PROVE  Cardinality(below(p)) < Cardinality(below(q))
    <2>1. below(p) \in SUBSET (below(q) \ {p}) /\ p \in below(q)
      BY <1>3
    <2> HIDE DEF below
    <2>2. /\ IsFiniteSet(below(q) \ {p})
          /\ Cardinality(below(q) \ {p}) = Cardinality(below(q)) - 1
      BY <1>2, <2>1, FS_RemoveElement
    <2>3. Cardinality(below(p)) <= Cardinality(below(q) \ {p})
      BY <2>1, <2>2, FS_Subset
    <2> QED
      BY <1>2, <2>2, <2>3
  <1>4. rank \in [S -> 0..(n - 1)]
    <2>1. \A p \in S : rank[p] \in 0..(n - 1)
      <3> HIDE DEF below
      <3> QED
        BY <1>0, <1>1, <1>2
    <2> QED
      BY <1>0, <2>1
  <1> HIDE DEF n
  <1>5. \A p, q \in S : <<p, q>> \in R => rank[p] < rank[q]
    <2> HIDE DEF below
    <2> QED
      BY <1>0, <1>3
  <1>6. \A p, q \in S : rank[p] = rank[q] => p = q
    <2>1. ASSUME NEW p \in S, NEW q \in S, rank[p] = rank[q], p # q
          PROVE  FALSE
      <3>1. rank[p] \in Int /\ rank[q] \in Int
        BY <1>1, <1>4
      <3>2. rank[p] < rank[q] \/ rank[q] < rank[p]
        BY <1>5, <2>1
      <3> QED
        BY <2>1, <3>1, <3>2
    <2> QED
      BY <2>1
  <1>7. ASSUME NEW k \in 1..n
        PROVE  \E p \in S : rank[p] = k - 1
    <2>1. rank \in Injection(S, 0..(n - 1))
      BY <1>4, <1>6 DEF Injection, IsInjective
    <2>2. IsFiniteSet(0..(n - 1)) /\ Cardinality(0..(n - 1)) = n
      <3>1. 0 \in Int /\ n - 1 \in Int
        BY <1>1
      <3>2. /\ IsFiniteSet(0..(n - 1))
            /\ Cardinality(0..(n - 1)) = IF 0 > n - 1 THEN 0 ELSE n - 1 - 0 + 1
        BY <3>1, FS_Interval
      <3> QED
        BY <1>1, <3>2
    <2>3. rank \in Surjection(S, 0..(n - 1))
      BY <2>1, <2>2, FS_Injection DEF n
    <2>4. k - 1 \in 0..(n - 1)
      BY <1>1
    <2> QED
      BY <2>3, <2>4 DEF Surjection
  <1> QED
    BY <1>1, <1>4, <1>5, <1>6, <1>7 DEF rank, n

\* The numbers of a set in ascending order: each of them once.
LEMMA AscendingOrder ==
  ASSUME NEW S \in SUBSET Int, IsFiniteSet(S)
  PROVE  /\ Cardinality(S) \in Nat
         /\ Ascending(S) \in [1..Cardinality(S) -> S]
         /\ \A j, k \in 1..Cardinality(S) : j < k => Ascending(S)[j] < Ascending(S)[k]
         /\ \A i \in S : \E k \in 1..Cardinality(S) : Ascending(S)[k] = i
  <1> DEFINE R == {x \in S \X S : x[1] < x[2]}
             rank == Rank(R, S)
             n == Cardinality(S)
  <1>1. \A p, q \in S : <<p, q>> \in R <=> p < q
    OBVIOUS
  <1>2. \A p \in S : {q \in S : <<q, p>> \in R} = {q \in S : q < p}
    BY <1>1
  <1>3. \A p \in S : Cardinality({q \in S : q < p}) = rank[p]
    BY <1>2 DEF Rank
  <1>4. Orders(R, S)
    BY <1>1 DEF Orders
  <1> HIDE DEF R
  <1>5. /\ n \in Nat
        /\ rank \in [S -> 0..(n - 1)]
        /\ \A p, q \in S : <<p, q>> \in R => rank[p] < rank[q]
        /\ \A p, q \in S : rank[p] = rank[q] => p = q
        /\ \A k \in 1..n : \E p \in S : rank[p] = k - 1
    BY <1>4, Ranks
  <1> HIDE DEF rank, n
  <1>6. ASSUME NEW k \in 1..n
        PROVE  Ascending(S)[k] \in S /\ rank[Ascending(S)[k]] = k - 1
    <2> DEFINE P(i) == Cardinality({j \in S : j < i}) = k - 1
    <2>1. Ascending(S)[k] = CHOOSE i \in S : P(i)
      BY DEF Ascending, n
    <2>2. \E i \in S : P(i)
      BY <1>5, <1>3
    <2>3. \A i \in S : P(i) <=> rank[i] = k - 1
      BY <1>3
    <2> HIDE DEF P
    <2> QED
      BY <2>1, <2>2, <2>3
  <1>7. Ascending(S) \in [1..n -> S]
    BY <1>6 DEF Ascending, n
  <1>8. ASSUME NEW j \in 1..n, NEW k \in 1..n, j < k
        PROVE  Ascending(S)[j] < Ascending(S)[k]
    <2> DEFINE x == Ascending(S)[j]
               y == Ascending(S)[k]
    <2>1. x \in S /\ y \in S /\ rank[x] < rank[y]
      BY <1>5, <1>6, <1>8
    <2>2. ~(y < x) /\ x # y
      <3>1. y < x => rank[y] < rank[x]
        BY <1>1, <1>5, <2>1
      <3>2. rank[x] \in Int /\ rank[y] \in Int
        <4> HIDE DEF x, y
        <4> QED
          BY <1>5, <2>1
      <3> HIDE DEF x, y
      <3> QED
        BY <2>1, <3>1, <3>2
    <2> HIDE DEF x, y
    <2>3. x < y
      BY <2>1, <2>2
    <2> QED
      BY <2>3 DEF x, y
  <1>9. ASSUME NEW i \in S
        PROVE  \E k \in 1..n : Ascending(S)[k] = i
    <2>1. rank[i] \in 0..(n - 1)
      BY <1>5
    <2>2. rank[i] + 1 \in 1..n /\ (rank[i] + 1) - 1 = rank[i]
      BY <1>5, <2>1
    <2>3. rank[Ascending(S)[rank[i] + 1]] = rank[i] /\ Ascending(S)[rank[i] + 1] \in S
      BY <1>6, <2>2
    <2> QED
      BY <1>5, <2>2, <2>3
  <1> QED
    BY <1>5, <1>7, <1>8, <1>9 DEF n

-----------------------------------------------------------------------------
(* Shipments *)

\* The first numbers are in order.
LEMMA AscendingInterval ==
  ASSUME NEW n \in Nat
  PROVE  Ascending(1..n) = [k \in 1..n |-> k]
  <1>1. IsFiniteSet(1..n) /\ Cardinality(1..n) = n
    BY FS_Interval
  <1>2. ASSUME NEW k \in 1..n
        PROVE  Cardinality({j \in 1..n : j < k}) = k - 1
    <2>1. {j \in 1..n : j < k} = 1..(k - 1)
      OBVIOUS
    <2>2. Cardinality(1..(k - 1)) = k - 1
      BY FS_Interval
    <2> QED
      BY <2>1, <2>2
  <1>3. ASSUME NEW k \in 1..n
        PROVE  Ascending(1..n)[k] = k
    <2> DEFINE P(i) == Cardinality({j \in 1..n : j < i}) = k - 1
    <2>1. Ascending(1..n)[k] = CHOOSE i \in 1..n : P(i)
      BY <1>1 DEF Ascending
    <2>2. \A i \in 1..n : P(i) <=> i = k
      BY <1>2
    <2> HIDE DEF P
    <2> QED
      BY <2>1, <2>2
  <1> QED
    BY <1>1, <1>3 DEF Ascending

LEMMA MinutesAscend ==
  ASSUME NEW raw \in Seq(Int)
  PROVE  /\ StageMinutes(raw) \in Seq(Int)
         /\ Len(StageMinutes(raw)) = 5
         /\ \A i, j \in 1..5 : i <= j => StageMinutes(raw)[i] <= StageMinutes(raw)[j]
  <1>1. CASE Len(raw) = 5 /\ \A i \in 1..4 : raw[i] <= raw[i + 1]
    <2>1. StageMinutes(raw) = raw
      BY <1>1 DEF StageMinutes, Stages
    <2>2. \A i \in 1..5 : raw[i] \in Int
      BY <1>1, LenProperties
    <2>a. raw[1] <= raw[2] /\ raw[2] <= raw[3] /\ raw[3] <= raw[4] /\ raw[4] <= raw[5]
      <3>1. \A i, j \in 1..5 : j = i + 1 => raw[i] <= raw[j]
        BY <1>1
      <3> QED
        BY <3>1
    <2>3. \A i \in 1..5 : i = 1 \/ i = 2 \/ i = 3 \/ i = 4 \/ i = 5
      OBVIOUS
    <2> QED
      BY <1>1, <2>1, <2>2, <2>a, <2>3
  <1>2. CASE ~(Len(raw) = 5 /\ \A i \in 1..4 : raw[i] <= raw[i + 1])
    <2>1. StageMinutes(raw) = DefaultMinutes
      BY <1>2 DEF StageMinutes, Stages
    <2>2. \A i \in 1..5 : i = 1 \/ i = 2 \/ i = 3 \/ i = 4 \/ i = 5
      OBVIOUS
    <2> QED
      BY <2>1, <2>2 DEF DefaultMinutes
  <1> QED
    BY <1>1, <1>2

\* The later of a time and the start.
LEMMA MaxWithZero ==
  ASSUME NEW e \in Int
  PROVE  Max({0, e}) = IF e > 0 THEN e ELSE 0
  BY DEF Max

\* The stages reached are the first ones: one in any case, and as many as the
\* thresholds that have passed.
LEMMA FirstStagesReached ==
  ASSUME NEW minutes \in Seq(Int), Len(minutes) = 5,
         \A i, j \in 1..5 : i <= j => minutes[i] <= minutes[j],
         NEW e \in Int
  PROVE  \E n \in 1..5 : /\ Reached(minutes, e) = 1..n
                         /\ \A i \in 2..5 : i <= n <=> Max({0, e}) >= minutes[i]
  <1> DEFINE x == Max({0, e})
             passed == {i \in 1..5 : x >= minutes[i]}
  <1>1. x \in Int
    BY MaxWithZero
  <1>2. DOMAIN minutes = 1..5 /\ \A i \in 1..5 : minutes[i] \in Int
    BY LenProperties
  <1>3. Reached(minutes, e) = IF passed = {} THEN {1} ELSE passed
    BY <1>2 DEF Reached
  <1> HIDE DEF x
  <1>4. \A i, j \in 1..5 : i <= j /\ j \in passed => i \in passed
    BY <1>1, <1>2
  <1>5. CASE passed = {}
    <2>1. {1} = 1..1
      OBVIOUS
    <2>2. \A i \in 2..5 : ~(x >= minutes[i]) /\ ~(i <= 1)
      BY <1>5
    <2>3. Reached(minutes, e) = 1..1
      BY <1>3, <1>5, <2>1
    <2>4. \A i \in 2..5 : i <= 1 <=> x >= minutes[i]
      BY <2>2
    <2> QED
      BY <2>3, <2>4 DEF x
  <1>6. CASE passed # {}
    <2>1. 1 \in passed
      BY <1>4, <1>6
    <2>2. \E n \in 1..5 : n \in passed /\ \A m \in passed : m <= n
      <3>1. \A m \in passed : m = 1 \/ m = 2 \/ m = 3 \/ m = 4 \/ m = 5
        OBVIOUS
      <3> HIDE DEF passed
      <3> QED
        BY <2>1, <3>1
    <2>3. PICK n \in 1..5 : n \in passed /\ \A m \in passed : m <= n
      BY <2>2
    <2>4. passed = 1..n
      BY <1>4, <2>3
    <2>5. \A i \in 2..5 : i <= n <=> x >= minutes[i]
      BY <2>4
    <2> QED
      BY <1>3, <1>6, <2>4, <2>5 DEF x
  <1> QED
    BY <1>5, <1>6

\* The node shown for a stage.
ShownNode(record, base, i) ==
    IF i = 1 /\ record.timeline # <<>> THEN record.timeline[1]
    ELSE [stage |-> i, time |-> base + DefaultMinutes[i]]

LEMMA BaseIsTime ==
  ASSUME NEW record \in Shipment, NEW now \in Int
  PROVE  /\ Base(record, now) \in Int
         /\ Dated(record) => \A later \in Int : Base(record, later) = Base(record, now)
  <1>1. record.paid_at \in Time /\ record.timeline \in Seq(Node)
    BY DEF Shipment
  <1>2. record.timeline # <<>> => record.timeline[1].time \in Time
    <2>1. record.timeline # <<>> => record.timeline[1] \in Node
      BY <1>1
    <2> QED
      BY <2>1 DEF Node
  <1> QED
    BY <1>1, <1>2 DEF Base, Dated, Time

\* What derive_logistics shows of a record it derives from.
LEMMA DerivedStages ==
  ASSUME NEW record \in Shipment, Initial(record), NEW raw \in Seq(Int), NEW now \in Int
  PROVE  \E n \in 1..5 :
            /\ \A i \in 2..5 : i <= n <=> Max({0, now - Base(record, now)}) >= StageMinutes(raw)[i]
            /\ Derived(record, raw, now).status = Stages[n]
            /\ Derived(record, raw, now).timeline =
                  [k \in 1..n |-> ShownNode(record, Base(record, now), k)]
            /\ Derived(record, raw, now).estimate =
                  IF n = 5 THEN NoTime ELSE Base(record, now) + StageMinutes(raw)[5]
  <1> DEFINE base == Base(record, now)
             minutes == StageMinutes(raw)
  <1>1. base \in Int
    BY BaseIsTime
  <1>2. minutes \in Seq(Int) /\ Len(minutes) = 5 /\ \A i, j \in 1..5 : i <= j => minutes[i] <= minutes[j]
    BY MinutesAscend
  <1> HIDE DEF base, minutes
  <1>3. now - base \in Int
    BY <1>1
  <1>4. PICK n \in 1..5 : /\ Reached(minutes, now - base) = 1..n
                          /\ \A i \in 2..5 : i <= n <=> Max({0, now - base}) >= minutes[i]
    BY <1>2, <1>3, FirstStagesReached
  <1> DEFINE reached == Ascending(Reached(minutes, now - base))
             shown(i) == IF i = 1 /\ record.timeline # <<>> THEN record.timeline[1]
                         ELSE [stage |-> i, time |-> base + DefaultMinutes[i]]
  <1>5. reached = [k \in 1..n |-> k]
    BY <1>4, AscendingInterval
  <1>6. Len(reached) = n /\ reached[Len(reached)] = n /\ DOMAIN reached = 1..n
    <2>1. n \in Nat /\ reached \in [1..n -> 1..n]
      BY <1>5
    <2> HIDE DEF reached
    <2>2. Len(reached) = n /\ DOMAIN reached = 1..n
      BY <2>1, IsASeq, LenProperties
    <2> QED
      BY <1>5, <2>2
  <1>7. Derived(record, raw, now) =
           [status |-> Stages[n], paid_at |-> record.paid_at,
            timeline |-> [k \in 1..n |-> shown(reached[k])],
            estimate |-> IF n = 5 THEN NoTime ELSE base + minutes[5]]
    <2>1. Len(Stages) = 5
      BY DEF Stages
    <2>2. Derived(record, raw, now) =
             [status |-> Stages[reached[Len(reached)]], paid_at |-> record.paid_at,
              timeline |-> [k \in DOMAIN reached |-> shown(reached[k])],
              estimate |-> IF reached[Len(reached)] = Len(Stages) THEN NoTime
                           ELSE base + minutes[Len(Stages)]]
      BY DEF Derived, base, minutes
    <2> HIDE DEF reached, shown
    <2> QED
      BY <1>6, <2>1, <2>2
  <1>8. [k \in 1..n |-> shown(reached[k])] = [k \in 1..n |-> ShownNode(record, base, k)]
    BY <1>5 DEF ShownNode
  <1> HIDE DEF reached, shown
  <1>9. /\ Derived(record, raw, now).status = Stages[n]
        /\ Derived(record, raw, now).timeline = [k \in 1..n |-> ShownNode(record, base, k)]
        /\ Derived(record, raw, now).estimate = IF n = 5 THEN NoTime ELSE base + minutes[5]
    BY <1>7, <1>8
  <1>10. \A i \in 2..5 : i <= n <=> Max({0, now - base}) >= minutes[i]
    BY <1>4
  <1> SUFFICES \E l \in 1..5 :
                  /\ \A i \in 2..5 : i <= l <=> Max({0, now - base}) >= minutes[i]
                  /\ Derived(record, raw, now).status = Stages[l]
                  /\ Derived(record, raw, now).timeline =
                        [k \in 1..l |-> ShownNode(record, base, k)]
                  /\ Derived(record, raw, now).estimate =
                        IF l = 5 THEN NoTime ELSE base + minutes[5]
    BY DEF base, minutes
  <1> WITNESS n \in 1..5
  <1> QED
    BY <1>9, <1>10

\* The nodes of fewer stages are those of more stages, cut off.
LEMMA FewerNodes ==
  ASSUME NEW S, NEW p \in Nat, NEW q \in Nat, p <= q, NEW t \in [1..q -> S]
  PROVE  IsPrefix([k \in 1..p |-> t[k]], t)
  <1> DEFINE s == [k \in 1..p |-> t[k]]
  <1>1. s \in [1..p -> S] /\ \A k \in 1..p : s[k] = t[k]
    OBVIOUS
  <1> HIDE DEF s
  <1>2. s \in Seq(S) /\ Len(s) = p /\ t \in Seq(S) /\ Len(t) = q
    BY <1>1, SeqDef, LenProperties
  <1>3. /\ SubSeq(s, 1, p) \in Seq(S) /\ Len(SubSeq(s, 1, p)) = p
        /\ \A i \in 1..p : SubSeq(s, 1, p)[i] = s[i]
    BY <1>1, SubSeqProperties
  <1>4. /\ SubSeq(t, 1, p) \in Seq(S) /\ Len(SubSeq(t, 1, p)) = p
        /\ \A i \in 1..p : SubSeq(t, 1, p)[i] = t[i]
    <2>1. \A i \in 1..p : t[i] \in S
      OBVIOUS
    <2> QED
      BY <2>1, SubSeqProperties
  <1>5. SubSeq(s, 1, p) = SubSeq(t, 1, p)
    BY <1>1, <1>3, <1>4, SeqEqual
  <1> QED
    BY <1>2, <1>5 DEF IsPrefix, s

\* A shipment of any times, at any two looks, under any override, is shown to
\* advance only.
LEMMA AdvancesOnly ==
  ASSUME NEW record \in Shipment, NEW raw \in Seq(Int), NEW early \in Int, NEW late \in Int
  PROVE  ShipmentOnlyAdvances(record, raw, early, late)
  <1> DEFINE a == Derived(record, raw, early)
             b == Derived(record, raw, late)
             base == Base(record, late)
             minutes == StageMinutes(raw)
  <1>1. CASE ~Initial(record)
    BY <1>1 DEF ShipmentOnlyAdvances, Derived
  <1>2. ASSUME Initial(record), Dated(record), early <= late
        PROVE  /\ IsPrefix(a.timeline, b.timeline)
               /\ a.timeline # <<>>
               /\ b.estimate \in {a.estimate, NoTime}
               /\ b.estimate = NoTime <=> b.status = "delivered"
               /\ base <= late /\ ~Faster(raw) =>
                     \A k \in 2..Len(b.timeline) : b.timeline[k].time <= late
               /\ record.timeline # <<>> => Head(b.timeline) = record.timeline[1]
    <2>1. base \in Int /\ Base(record, early) = base
      BY <1>2, BaseIsTime
    <2>2. minutes \in Seq(Int) /\ Len(minutes) = 5 /\ \A i \in 1..5 : minutes[i] \in Int
      BY MinutesAscend, LenProperties
    <2>3. PICK p \in 1..5 :
             /\ \A i \in 2..5 : i <= p <=> Max({0, early - base}) >= minutes[i]
             /\ a.status = Stages[p]
             /\ a.timeline = [k \in 1..p |-> ShownNode(record, base, k)]
             /\ a.estimate = IF p = 5 THEN NoTime ELSE base + minutes[5]
      <3> HIDE DEF base
      <3>1. \E p \in 1..5 :
              /\ \A i \in 2..5 : i <= p <=> Max({0, early - Base(record, early)}) >= minutes[i]
              /\ a.status = Stages[p]
              /\ a.timeline = [k \in 1..p |-> ShownNode(record, Base(record, early), k)]
              /\ a.estimate = IF p = 5 THEN NoTime ELSE Base(record, early) + minutes[5]
        BY <1>2, DerivedStages
      <3> HIDE DEF a, minutes
      <3> QED
        BY <2>1, <3>1
    <2>4. PICK q \in 1..5 :
             /\ \A i \in 2..5 : i <= q <=> Max({0, late - base}) >= minutes[i]
             /\ b.status = Stages[q]
             /\ b.timeline = [k \in 1..q |-> ShownNode(record, base, k)]
             /\ b.estimate = IF q = 5 THEN NoTime ELSE base + minutes[5]
      BY <1>2, DerivedStages
    <2> HIDE DEF a, b, base, minutes
    <2>5. /\ Max({0, early - base}) <= Max({0, late - base})
          /\ Max({0, early - base}) \in Int /\ Max({0, late - base}) \in Int
      <3>1. early - base \in Int /\ late - base \in Int /\ early - base <= late - base
        BY <1>2, <2>1
      <3> QED
        BY <3>1, MaxWithZero
    <2>6. p <= q
      <3>1. p = 1 \/ p \in 2..5
        OBVIOUS
      <3> QED
        BY <2>2, <2>3, <2>4, <2>5, <3>1
    <2> DEFINE S == {ShownNode(record, base, k) : k \in 1..5}
    <2>7. b.timeline \in [1..q -> S] /\ a.timeline = [k \in 1..p |-> b.timeline[k]]
      BY <2>3, <2>4, <2>6
    <2>8. b.timeline \in Seq(S) /\ Len(b.timeline) = q
      BY <2>7, SeqDef, LenProperties
    <2> HIDE DEF S
    <2>9. IsPrefix(a.timeline, b.timeline)
      <3> DEFINE t == b.timeline
      <3>1. p \in Nat /\ q \in Nat /\ t \in [1..q -> S]
        BY <2>7
      <3> HIDE DEF t
      <3>2. IsPrefix([k \in 1..p |-> t[k]], t)
        BY <2>6, <3>1, FewerNodes
      <3> QED
        BY <2>7, <3>2 DEF t
    <2>10. a.timeline # <<>>
      <3>1. 1 \in DOMAIN a.timeline
        BY <2>3
      <3> QED
        BY <3>1
    <2>11. b.estimate \in {a.estimate, NoTime}
      BY <2>3, <2>4, <2>6
    <2>12. b.estimate = NoTime <=> b.status = "delivered"
      <3>1. base + minutes[5] # NoTime
        BY <2>1, <2>2, NoTimeAssumption
      <3>2. Stages[q] = "delivered" <=> q = 5
        BY DEF Stages
      <3> QED
        BY <2>4, <3>1, <3>2
    <2>13. ASSUME base <= late, ~Faster(raw), NEW k \in 2..Len(b.timeline)
           PROVE  b.timeline[k].time <= late
      <3>1. k \in 2..5 /\ k \in 1..5 /\ k \in 1..q /\ k <= q /\ minutes[k] \in Int
        BY <2>2, <2>8
      <3>2. b.timeline[k].time = base + DefaultMinutes[k]
        BY <2>4, <3>1 DEF ShownNode
      <3>3. late - base >= minutes[k]
        <4>1. late - base \in Int /\ late - base >= 0
          BY <2>1, <2>13
        <4>2. Max({0, late - base}) = late - base
          BY <4>1, MaxWithZero
        <4> QED
          BY <2>4, <3>1, <4>2
      <3>4. minutes[k] >= DefaultMinutes[k] /\ DefaultMinutes[k] \in Int
        <4>1. DOMAIN Stages = 1..5 /\ \A i \in 1..5 : DefaultMinutes[i] \in Int
          BY DEF Stages, DefaultMinutes
        <4>2. ~(minutes[k] < DefaultMinutes[k])
          BY <2>13, <3>1, <4>1 DEF Faster, minutes
        <4>3. DefaultMinutes[k] \in Int
          BY <3>1, <4>1
        <4> HIDE DEF minutes
        <4> QED
          BY <3>1, <4>2, <4>3
      <3> DEFINE m == minutes[k]
                 d == DefaultMinutes[k]
      <3>5. m \in Int /\ d \in Int /\ late - base >= m /\ m >= d
        BY <3>1, <3>3, <3>4
      <3> HIDE DEF m, d
      <3>6. base + d <= late
        BY <2>1, <3>5
      <3> QED
        BY <3>2, <3>6 DEF d
    <2>14. record.timeline # <<>> => Head(b.timeline) = record.timeline[1]
      <3>1. Head(b.timeline) = b.timeline[1]
        BY <2>8
      <3>2. b.timeline[1] = ShownNode(record, base, 1)
        BY <2>4
      <3> QED
        BY <3>1, <3>2 DEF ShownNode
    <2> QED
      BY <2>9, <2>10, <2>11, <2>12, <2>13, <2>14
  <1> QED
    BY <1>1, <1>2 DEF ShipmentOnlyAdvances

-----------------------------------------------------------------------------
(* The index *)

\* A set of numbers that is not empty has a least element.
LEMMA LeastExists ==
  ASSUME NEW S \in SUBSET Nat, S # {}
  PROVE  Min(S) \in S /\ \A m \in S : Min(S) <= m
  <1>1. PICK n \in S : \A m \in S : ~(<<m, n>> \in OpToRel(<, Nat))
    BY NatLessThanWellFounded, WFMin
  <1>2. ASSUME NEW m \in S
        PROVE  n <= m
    <2>1. m \in Nat /\ n \in Nat
      OBVIOUS
    <2>2. ~(m < n)
      BY <1>1, <2>1 DEF OpToRel
    <2> QED
      BY <2>1, <2>2
  <1> QED
    BY <1>2 DEF Min

\* A sequence without its i-th element: those before it stay where they are,
\* those after it move up by one.
LEMMA CutOut ==
  ASSUME NEW S, NEW s \in Seq(S), NEW i \in 1..Len(s)
  PROVE  /\ RemoveAt(s, i) \in Seq(S)
         /\ Len(RemoveAt(s, i)) = Len(s) - 1
         /\ \A j \in 1..(Len(s) - 1) : RemoveAt(s, i)[j] = IF j < i THEN s[j] ELSE s[j + 1]
  <1> DEFINE front == SubSeq(s, 1, i - 1)
             back  == SubSeq(s, i + 1, Len(s))
  <1>1. /\ front \in Seq(S) /\ Len(front) = i - 1 /\ \A j \in 1..(i - 1) : front[j] = s[j]
        /\ back \in Seq(S) /\ Len(back) = Len(s) - i
        /\ \A j \in 1..(Len(s) - i) : back[j] = s[i + j]
    BY LenProperties, SubSeqProperties
  <1> HIDE DEF front, back
  <1>2. front \o back \in Seq(S) /\ Len(front \o back) = Len(s) - 1
    BY <1>1, LenProperties, ConcatProperties
  <1>3. ASSUME NEW j \in 1..(Len(s) - 1)
        PROVE  (front \o back)[j] = IF j < i THEN s[j] ELSE s[j + 1]
    <2>1. (front \o back)[j] = IF j < i THEN front[j] ELSE back[j - (i - 1)]
      BY <1>1, LenProperties, ConcatProperties
    <2>2. ~(j < i) => j - (i - 1) \in 1..(Len(s) - i) /\ i + (j - (i - 1)) = j + 1
      BY LenProperties
    <2> QED
      BY <1>1, <2>1, <2>2, LenProperties
  <1> QED
    BY <1>2, <1>3 DEF RemoveAt, front, back

\* The places of the documents that have a term.
Having(docs, t) == {i \in DOMAIN docs : t \in docs[i].terms}

\* What FrequenciesKept says, term by term.
LEMMA FrequencyOfEach ==
  ASSUME NEW index, index.docs \in Seq(Document)
  PROVE  FrequenciesKept(index) <=>
            /\ index.N = Len(index.docs)
            /\ \A t : t \in DOMAIN index.df <=> Having(index.docs, t) # {}
            /\ \A t \in DOMAIN index.df : index.df[t] = Cardinality(Having(index.docs, t))
  <1>1. (DOMAIN index.df = UNION {index.docs[i].terms : i \in DOMAIN index.docs})
           <=> \A t : t \in DOMAIN index.df <=> Having(index.docs, t) # {}
    BY DEF Having
  <1>2. \A t \in DOMAIN index.df : Hits(index, {t}) = Having(index.docs, t)
    BY DEF Hits, Having
  <1>3. DOMAIN index.df = UNION {index.docs[i].terms : i \in DOMAIN index.docs}
           => \A i \in DOMAIN index.docs : \A t \in index.docs[i].terms : i \in Hits(index, {t})
    BY <1>2 DEF Having
  <1> QED
    BY <1>1, <1>2, <1>3 DEF FrequenciesKept

LEMMA HavingFinite ==
  ASSUME NEW docs \in Seq(Document), NEW t
  PROVE  /\ IsFiniteSet(Having(docs, t)) /\ Cardinality(Having(docs, t)) \in Nat
         /\ Having(docs, t) # {} <=> Cardinality(Having(docs, t)) > 0
  <1>1. Len(docs) \in Nat /\ DOMAIN docs = 1..Len(docs)
    BY LenProperties
  <1>2. IsFiniteSet(1..Len(docs)) /\ Having(docs, t) \in SUBSET (1..Len(docs))
    BY <1>1, FS_Interval DEF Having
  <1>3. IsFiniteSet(Having(docs, t))
    BY <1>2, FS_Subset
  <1> QED
    BY <1>3, FS_CardinalityType, FS_EmptySet

\* BM25Index.add: one document more has each of its terms.
LEMMA AddKeeps ==
  ASSUME NEW index, index.docs \in Seq(Document), FrequenciesKept(index),
         NEW id \in ChunkIds, NEW terms \in SUBSET Terms
  PROVE  Add(index, id, terms).docs \in Seq(Document) /\ FrequenciesKept(Add(index, id, terms))
  <1> DEFINE new == Add(index, id, terms)
             docs == index.docs
             doc == [id |-> id, terms |-> terms]
             n == Len(docs)
  <1>1. n \in Nat /\ DOMAIN docs = 1..n
    BY LenProperties
  <1>2. /\ new.docs = Append(docs, doc) /\ new.N = index.N + 1
        /\ DOMAIN new.df = DOMAIN index.df \union terms
        /\ \A t \in DOMAIN new.df : new.df[t] = Df(index, t) + (IF t \in terms THEN 1 ELSE 0)
    BY DEF Add
  <1>3. doc \in Document
    BY DEF Document
  <1>4. /\ new.docs \in Seq(Document) /\ Len(new.docs) = n + 1
        /\ DOMAIN new.docs = 1..(n + 1)
        /\ \A i \in 1..n : new.docs[i] = docs[i]
        /\ new.docs[n + 1] = doc
    BY <1>2, <1>3, AppendProperties, LenProperties
  <1> HIDE DEF new, n
  <1>5. ASSUME NEW t
        PROVE  Having(new.docs, t) = Having(docs, t) \union (IF t \in terms THEN {n + 1} ELSE {})
    BY <1>1, <1>4 DEF Having
  <1>6. \A t : n + 1 \notin Having(docs, t)
    BY <1>1 DEF Having
  <1>7. ASSUME NEW t
        PROVE  Cardinality(Having(new.docs, t)) =
                  Cardinality(Having(docs, t)) + (IF t \in terms THEN 1 ELSE 0)
    <2>1. IsFiniteSet(Having(docs, t)) /\ Cardinality(Having(docs, t)) \in Nat
      BY HavingFinite
    <2>2. CASE t \in terms
      <3>1. Having(new.docs, t) = Having(docs, t) \union {n + 1}
        BY <1>5, <2>2
      <3> HIDE DEF docs
      <3>2. Cardinality(Having(docs, t) \union {n + 1}) = Cardinality(Having(docs, t)) + 1
        BY <1>6, <2>1, FS_AddElement
      <3> QED
        BY <2>2, <3>1, <3>2
    <2>3. CASE t \notin terms
      <3>1. Having(new.docs, t) = Having(docs, t)
        BY <1>5, <2>3
      <3> HIDE DEF docs
      <3> QED
        BY <2>1, <2>3, <3>1
    <2> QED
      BY <2>2, <2>3
  <1>8. /\ index.N = n
        /\ \A t : t \in DOMAIN index.df <=> Having(docs, t) # {}
        /\ \A t \in DOMAIN index.df : index.df[t] = Cardinality(Having(docs, t))
    BY FrequencyOfEach DEF n
  <1>9. \A t : Df(index, t) = Cardinality(Having(docs, t))
    BY <1>8, FS_EmptySet DEF Df
  <1>10. \A t : t \in DOMAIN new.df <=> Having(new.docs, t) # {}
    BY <1>2, <1>5, <1>8
  <1>11. \A t \in DOMAIN new.df : new.df[t] = Cardinality(Having(new.docs, t))
    BY <1>2, <1>7, <1>9
  <1>12. new.N = Len(new.docs)
    BY <1>2, <1>4, <1>8
  <1>13. FrequenciesKept(new)
    BY <1>4, <1>10, <1>11, <1>12, FrequencyOfEach
  <1> QED
    BY <1>4, <1>13 DEF new

\* Of the documents that have a term, those that are left when one is cut out
\* are as many as there were others.
LEMMA HavingCut ==
  ASSUME NEW docs \in Seq(Document), NEW m \in 1..Len(docs), NEW t
  PROVE  Cardinality(Having(RemoveAt(docs, m), t)) = Cardinality(Having(docs, t) \ {m})
  <1> DEFINE cut == RemoveAt(docs, m)
             n == Len(docs)
             f == [i \in Having(cut, t) |-> IF i < m THEN i ELSE i + 1]
  <1>1. n \in Nat /\ m \in 1..n /\ DOMAIN docs = 1..n
    BY LenProperties
  <1>2. /\ cut \in Seq(Document) /\ Len(cut) = n - 1 /\ DOMAIN cut = 1..(n - 1)
        /\ \A j \in 1..(n - 1) : cut[j] = IF j < m THEN docs[j] ELSE docs[j + 1]
    BY CutOut, LenProperties
  <1> HIDE DEF cut, n
  <1>3. Having(cut, t) \subseteq 1..(n - 1)
    BY <1>2 DEF Having
  <1>4. ASSUME NEW i \in Having(cut, t)
        PROVE  f[i] \in Having(docs, t) \ {m}
    <2>1. i \in 1..(n - 1) /\ t \in cut[i].terms
      BY <1>2 DEF Having
    <2>2. f[i] \in 1..n /\ f[i] # m /\ cut[i] = docs[f[i]]
      BY <1>1, <1>2, <2>1
    <2> QED
      BY <1>1, <2>1, <2>2 DEF Having
  <1>5. ASSUME NEW j \in Having(docs, t) \ {m}
        PROVE  \E i \in Having(cut, t) : f[i] = j
    <2>1. j \in 1..n /\ j # m /\ t \in docs[j].terms
      BY <1>1 DEF Having
    <2> DEFINE i == IF j < m THEN j ELSE j - 1
    <2>2. i \in 1..(n - 1) /\ (IF i < m THEN i ELSE i + 1) = j
      BY <1>1, <2>1
    <2>3. cut[i] = docs[j]
      BY <1>2, <2>2
    <2> HIDE DEF i
    <2>4. i \in Having(cut, t)
      BY <1>2, <2>1, <2>2, <2>3 DEF Having
    <2> QED
      BY <2>2, <2>4
  <1>6. ASSUME NEW i \in Having(cut, t), NEW j \in Having(cut, t), f[i] = f[j]
        PROVE  i = j
    <2>1. i \in Int /\ j \in Int /\ m \in Int
      BY <1>1, <1>3
    <2> QED
      BY <1>6, <2>1
  <1>7. f \in [Having(cut, t) -> Having(docs, t) \ {m}]
    BY <1>4
  <1> HIDE DEF f
  <1>8. f \in Bijection(Having(cut, t), Having(docs, t) \ {m})
    BY <1>5, <1>6, <1>7 DEF Bijection, Injection, Surjection, IsInjective
  <1>9. IsFiniteSet(Having(cut, t))
    BY <1>2, HavingFinite
  <1> QED
    BY <1>8, <1>9, FS_Bijection DEF ExistsBijection, cut

\* BM25Index.remove: the first document of that id goes, and with it a term that
\* no other has.
LEMMA RemoveKeeps ==
  ASSUME NEW index, index.docs \in Seq(Document), FrequenciesKept(index), NEW id \in ChunkIds
  PROVE  RemoveId(index, id).docs \in Seq(Document) /\ FrequenciesKept(RemoveId(index, id))
  <1> DEFINE new == RemoveId(index, id)
             docs == index.docs
             n == Len(docs)
             at == {i \in DOMAIN docs : docs[i].id = id}
             m == Min(at)
             terms == docs[m].terms
  <1>1. n \in Nat /\ DOMAIN docs = 1..n
    BY LenProperties
  <1>2. CASE at = {}
    BY <1>2 DEF RemoveId
  <1>3. CASE at # {}
    <2>1. m \in 1..n
      <3>1. at \in SUBSET Nat /\ at \subseteq 1..n
        BY <1>1
      <3> HIDE DEF at
      <3> QED
        BY <1>3, <3>1, LeastExists
    <2>2. /\ new.docs = RemoveAt(docs, m) /\ new.N = index.N - 1
          /\ DOMAIN new.df = {t \in DOMAIN index.df : t \notin terms \/ index.df[t] > 1}
          /\ \A t \in DOMAIN new.df : new.df[t] = index.df[t] - (IF t \in terms THEN 1 ELSE 0)
      BY <1>3 DEF RemoveId
    <2> HIDE DEF new, m, at, n
    <2>3. new.docs \in Seq(Document) /\ Len(new.docs) = n - 1
      BY <2>1, <2>2, CutOut DEF n
    <2>4. /\ index.N = n
          /\ \A t : t \in DOMAIN index.df <=> Having(docs, t) # {}
          /\ \A t \in DOMAIN index.df : index.df[t] = Cardinality(Having(docs, t))
      BY FrequencyOfEach DEF n
    <2>5. \A t : m \in Having(docs, t) <=> t \in terms
      BY <1>1, <2>1 DEF Having
    <2>6. ASSUME NEW t
          PROVE  /\ Cardinality(Having(docs, t)) \in Nat
                 /\ Cardinality(Having(new.docs, t)) =
                       Cardinality(Having(docs, t)) - (IF t \in terms THEN 1 ELSE 0)
      <3>1. IsFiniteSet(Having(docs, t)) /\ Cardinality(Having(docs, t)) \in Nat
        BY HavingFinite
      <3>2. Cardinality(Having(new.docs, t)) = Cardinality(Having(docs, t) \ {m})
        BY <2>1, <2>2, HavingCut DEF n
      <3> HIDE DEF docs, terms
      <3>3. CASE t \in terms
        <4>1. Cardinality(Having(docs, t) \ {m}) = Cardinality(Having(docs, t)) - 1
          BY <2>5, <3>1, <3>3, FS_RemoveElement
        <4> QED
          BY <3>1, <3>2, <3>3, <4>1
      <3>4. CASE t \notin terms
        <4>1. Having(docs, t) \ {m} = Having(docs, t)
          BY <2>5, <3>4
        <4>2. Cardinality(Having(new.docs, t)) = Cardinality(Having(docs, t))
          BY <3>2, <4>1
        <4> QED
          BY <3>1, <3>4, <4>2
      <3> QED
        BY <3>3, <3>4
    <2>7. \A t : Having(new.docs, t) # {} <=> Cardinality(Having(new.docs, t)) > 0
      BY <2>3, HavingFinite
    <2>8. \A t : Having(docs, t) # {} <=> Cardinality(Having(docs, t)) > 0
      BY HavingFinite
    <2> HIDE DEF docs, terms
    <2>9. ASSUME NEW t
          PROVE  t \in DOMAIN new.df <=> Having(new.docs, t) # {}
      <3>1. t \in DOMAIN new.df <=>
               /\ Cardinality(Having(docs, t)) > 0
               /\ t \notin terms \/ Cardinality(Having(docs, t)) > 1
        BY <2>2, <2>4, <2>8
      <3>2. t \in terms => Cardinality(Having(docs, t)) > 0
        BY <2>5, <2>8
      <3> QED
        BY <2>6, <2>7, <3>1, <3>2
    <2>10. \A t \in DOMAIN new.df : new.df[t] = Cardinality(Having(new.docs, t))
      BY <2>2, <2>4, <2>6
    <2>11. new.N = Len(new.docs)
      BY <1>1, <2>2, <2>3, <2>4 DEF docs
    <2>12. FrequenciesKept(new)
      BY <2>3, <2>9, <2>10, <2>11, FrequencyOfEach
    <2> QED
      BY <2>3, <2>12 DEF new
  <1> QED
    BY <1>2, <1>3

-----------------------------------------------------------------------------
(* Products and their names *)

LEMMA CharactersFinite ==
  ASSUME NEW text \in Seq(Letters)
  PROVE  IsFiniteSet(ToSet(text)) /\ Size(text) \in Nat
  <1>1. /\ Len(text) \in Nat /\ DOMAIN text = 1..Len(text)
        /\ text \in [1..Len(text) -> Letters]
    BY LenProperties
  <1>2. IsFiniteSet(1..Len(text))
    BY <1>1, FS_Interval
  <1>3. text \in Surjection(1..Len(text), ToSet(text))
    BY <1>1 DEF Surjection, ToSet
  <1>4. IsFiniteSet(ToSet(text))
    BY <1>2, <1>3, FS_Surjection
  <1> QED
    BY <1>4, FS_CardinalityType DEF Size

\* A name has at most all characters of the keyword.
LEMMA ShareOfKeyword ==
  ASSUME NEW kw \in Seq(Letters), NEW text
  PROVE  Common(kw, text) \in Nat /\ Common(kw, text) <= Size(kw)
  <1>1. IsFiniteSet(ToSet(kw)) /\ ToSet(kw) \intersect ToSet(text) \in SUBSET ToSet(kw)
    BY CharactersFinite
  <1>2. /\ IsFiniteSet(ToSet(kw) \intersect ToSet(text))
        /\ Cardinality(ToSet(kw) \intersect ToSet(text)) <= Cardinality(ToSet(kw))
    BY <1>1, FS_Subset
  <1> QED
    BY <1>2, FS_CardinalityType DEF Common, Size

\* A name that contains the keyword has all of its characters.
LEMMA WithinShares ==
  ASSUME NEW kw \in Seq(Letters), NEW text \in Seq(Letters), Within(kw, text)
  PROVE  Common(kw, text) = Size(kw)
  <1>0. /\ Len(kw) \in Nat /\ DOMAIN kw = 1..Len(kw)
        /\ Len(text) \in Nat /\ DOMAIN text = 1..Len(text)
    BY LenProperties
  <1>1. PICK i \in 0..(Len(text) - Len(kw)) : SubSeq(text, i + 1, i + Len(kw)) = kw
    BY DEF Within
  <1>2. /\ i \in Nat /\ i + 1 \in Int /\ i + Len(kw) \in Int
        /\ \A k \in (i + 1)..(i + Len(kw)) : k \in 1..Len(text)
        /\ (i + Len(kw)) - (i + 1) + 1 = Len(kw)
    BY <1>0
  <1>3. \A k \in (i + 1)..(i + Len(kw)) : text[k] \in Letters
    BY <1>0, <1>2, LenProperties
  <1> DEFINE a == i + 1
             b == i + Len(kw)
  <1>4. \A k \in 1..(b - a + 1) : SubSeq(text, a, b)[k] = text[a + k - 1]
    <2>1. a \in Int /\ b \in Int /\ \A k \in a..b : text[k] \in Letters
      BY <1>2, <1>3
    <2> HIDE DEF a, b
    <2> QED
      BY <2>1, SubSeqProperties
  <1>5. ASSUME NEW k \in 1..Len(kw)
        PROVE  kw[k] = text[i + k] /\ i + k \in DOMAIN text
    <2>1. kw[k] = text[a + k - 1]
      BY <1>1, <1>2, <1>4
    <2> QED
      BY <1>0, <1>2, <2>1
  <1>6. ToSet(kw) \intersect ToSet(text) = ToSet(kw)
    BY <1>0, <1>5 DEF ToSet
  <1> QED
    BY <1>6 DEF Common, Size

\* A text contains itself.
LEMMA WithinItself ==
  ASSUME NEW text \in Seq(Letters)
  PROVE  Within(text, text)
  <1>1. Len(text) \in Nat /\ SubSeq(text, 1, Len(text)) = text
    BY LenProperties, SubSeqFull
  <1>2. 0 \in 0..(Len(text) - Len(text)) /\ 0 + 1 = 1 /\ 0 + Len(text) = Len(text)
    BY <1>1
  <1> QED
    BY <1>1, <1>2 DEF Within

LEMMA FoldedText ==
  ASSUME NEW text \in Seq(Letters)
  PROVE  /\ Folded(text) \in Seq(Letters) /\ Len(Folded(text)) = Len(text)
         /\ \A i \in 1..Len(text) : Folded(text)[i] = Lower(text[i])
  <1>1. Len(text) \in Nat /\ DOMAIN text = 1..Len(text) /\ \A i \in 1..Len(text) : text[i] \in Letters
    BY LenProperties
  <1>2. \A c \in Letters : Lower(c) \in Letters
    BY LettersAssumption DEF Lower
  <1>3. Folded(text) = [i \in 1..Len(text) |-> Lower(text[i])]
    BY <1>1 DEF Folded
  <1>4. Folded(text) \in [1..Len(text) -> Letters]
    BY <1>1, <1>2, <1>3
  <1>5. Folded(text) \in Seq(Letters)
    BY <1>1, <1>4, SeqDef
  <1> QED
    BY <1>1, <1>3, <1>4, <1>5, LenProperties

LEMMA NormalText ==
  ASSUME NEW text \in Seq(Letters)
  PROVE  /\ Norm(text) \in Seq(Letters)
         /\ Norm(text) # <<>> => NonBlank(text) # {}
         /\ IsFiniteSet(NonBlank(text)) /\ NonBlank(text) \subseteq 1..Len(text)
  <1> DEFINE S == NonBlank(text)
             n == Cardinality(S)
             bare == [k \in 1..n |-> text[Ascending(S)[k]]]
  <1>1. /\ Len(text) \in Nat /\ DOMAIN text = 1..Len(text)
        /\ \A i \in 1..Len(text) : text[i] \in Letters
    BY LenProperties
  <1>2. S \subseteq 1..Len(text) /\ IsFiniteSet(1..Len(text))
    <2>1. S \subseteq 1..Len(text)
      BY <1>1 DEF NonBlank
    <2> QED
      BY <1>1, <2>1, FS_Interval
  <1>3. IsFiniteSet(S) /\ S \in SUBSET Int
    BY <1>2, FS_Subset
  <1> HIDE DEF S
  <1>4. n \in Nat /\ Ascending(S) \in [1..n -> S]
    BY <1>3, AscendingOrder
  <1>5. Norm(text) = Folded(bare)
    BY <1>4 DEF Norm, Picked, S
  <1>6. bare \in [1..n -> Letters]
    <2> HIDE DEF n
    <2> QED
      BY <1>1, <1>2, <1>4
  <1>7. bare \in Seq(Letters) /\ Len(bare) = n
    <2> HIDE DEF n
    <2>1. bare \in Seq(Letters)
      BY <1>4, <1>6, SeqDef
    <2>2. DOMAIN bare = 1..n
      OBVIOUS
    <2> HIDE DEF bare
    <2> QED
      BY <1>4, <2>1, <2>2, LenProperties
  <1> HIDE DEF bare
  <1>8. Norm(text) \in Seq(Letters) /\ Len(Norm(text)) = n
    BY <1>5, <1>7, FoldedText
  <1>9. S = {} => n = 0
    BY FS_EmptySet
  <1>10. Norm(text) # <<>> => S # {}
    BY <1>8, <1>9, EmptySeq
  <1> QED
    BY <1>2, <1>3, <1>8, <1>10 DEF S

\* What match_products ranks, and how.
NormNames(rows, name) == [p \in rows |-> Norm(name[p])]
HitRows(kw, names) == {p \in DOMAIN names : Hit(kw, names[p])}
Ahead(kw, names) ==
    {pq \in HitRows(kw, names) \X HitRows(kw, names) : Before(kw, names, pq[1], pq[2])}

LEMMA AheadOrders ==
  ASSUME NEW rows \in SUBSET Nat, NEW kw \in Seq(Letters), NEW names \in [rows -> Seq(Letters)]
  PROVE  /\ Orders(Ahead(kw, names), HitRows(kw, names))
         /\ \A p, q \in HitRows(kw, names) :
               <<p, q>> \in Ahead(kw, names) <=> Before(kw, names, p, q)
  <1> DEFINE H == HitRows(kw, names)
             R == Ahead(kw, names)
             c(p) == Common(kw, names[p])
             l(p) == Len(names[p])
  <1>1. \A p, q \in H : <<p, q>> \in R <=> Before(kw, names, p, q)
    BY DEF Ahead
  <1>2. H \subseteq rows
    BY DEF HitRows
  <1>3. ASSUME NEW p \in H
        PROVE  c(p) \in Int /\ l(p) \in Int /\ p \in Int
    <2>1. names[p] \in Seq(Letters) /\ p \in Nat
      BY <1>2
    <2> QED
      BY <2>1, ShareOfKeyword, LenProperties
  <1>4. \A p, q \in H : Before(kw, names, p, q) <=>
           \/ c(p) > c(q)
           \/ c(p) = c(q) /\ l(p) < l(q)
           \/ c(p) = c(q) /\ l(p) = l(q) /\ p < q
    BY DEF Before
  <1> HIDE DEF H, R, c, l
  <1>5. \A p, q \in H : p # q => <<p, q>> \in R \/ <<q, p>> \in R
    BY <1>1, <1>3, <1>4
  <1>6. \A p, q, r \in H : <<p, q>> \in R /\ <<q, r>> \in R => <<p, r>> \in R
    BY <1>1, <1>3, <1>4
  <1>7. \A p \in H : <<p, p>> \notin R
    BY <1>1, <1>3, <1>4
  <1> QED
    BY <1>1, <1>5, <1>6, <1>7 DEF Orders, H, R

\* match_products returns the best hits in their order, as many as there are
\* but no more than its limit.
LEMMA FoundRanked ==
  ASSUME NEW rows \in SUBSET Nat, IsFiniteSet(rows), NEW keyword \in Seq(Letters), NEW name,
         \A p \in rows : name[p] \in Seq(Letters), NEW limit \in Nat \ {0}
  PROVE  LET kw == Norm(keyword)
             names == NormNames(rows, name)
             H == HitRows(kw, names)
             found == MatchProducts(keyword, rows, name, limit)
             rank == Rank(Ahead(kw, names), H)
         IN  \E m \in Nat :
                /\ m <= limit /\ m <= Cardinality(H)
                /\ m = limit \/ m = Cardinality(H)
                /\ Cardinality(H) \in Nat
                /\ found \in [1..m -> H]
                /\ rank \in [H -> 0..(Cardinality(H) - 1)]
                /\ \A k \in 1..m : rank[found[k]] = k - 1
                /\ \A p, q \in H : Before(kw, names, p, q) => rank[p] < rank[q]
                /\ \A p, q \in H : rank[p] = rank[q] => p = q
  <1> DEFINE kw == Norm(keyword)
             names == NormNames(rows, name)
             H == HitRows(kw, names)
             R == Ahead(kw, names)
             found == MatchProducts(keyword, rows, name, limit)
             rank == Rank(R, H)
             n == Cardinality(H)
             m == Min({limit, n})
  <1>1. kw \in Seq(Letters) /\ names \in [rows -> Seq(Letters)]
    BY NormalText DEF NormNames
  <1>2. H \in SUBSET rows /\ IsFiniteSet(H)
    <2>1. H \in SUBSET rows
      BY <1>1 DEF HitRows
    <2> HIDE DEF H
    <2> QED
      BY <2>1, FS_Subset
  <1>3. Orders(R, H) /\ \A p, q \in H : <<p, q>> \in R <=> Before(kw, names, p, q)
    <2> HIDE DEF kw, names
    <2> QED
      BY <1>1, AheadOrders
  <1>4. found = [k \in 1..m |-> CHOOSE p \in H : Cardinality({q \in H : Before(kw, names, q, p)}) = k - 1]
    BY <1>1 DEF MatchProducts, NormNames, HitRows
  <1> HIDE DEF R, H, kw, names, found
  <1>5. /\ n \in Nat
        /\ rank \in [H -> 0..(n - 1)]
        /\ \A p, q \in H : <<p, q>> \in R => rank[p] < rank[q]
        /\ \A p, q \in H : rank[p] = rank[q] => p = q
        /\ \A k \in 1..n : \E p \in H : rank[p] = k - 1
    BY <1>2, <1>3, Ranks
  <1>6. \A p \in H : Cardinality({q \in H : Before(kw, names, q, p)}) = rank[p]
    <2>1. \A p \in H : {q \in H : Before(kw, names, q, p)} = {q \in H : <<q, p>> \in R}
      BY <1>3
    <2> QED
      BY <2>1 DEF Rank
  <1> HIDE DEF rank, n
  <1>7. m \in Nat /\ m <= limit /\ m <= n /\ (m = limit \/ m = n)
    <2>1. m \in {limit, n} /\ \A x \in {limit, n} : m <= x
      <3>1. {limit, n} \in SUBSET Nat /\ {limit, n} # {}
        BY <1>5
      <3> QED
        BY <3>1, LeastExists
    <2> QED
      BY <1>5, <2>1
  <1> HIDE DEF m
  <1>8. ASSUME NEW k \in 1..m
        PROVE  found[k] \in H /\ rank[found[k]] = k - 1
    <2> DEFINE P(p) == Cardinality({q \in H : Before(kw, names, q, p)}) = k - 1
    <2>1. found[k] = CHOOSE p \in H : P(p)
      BY <1>4
    <2>2. k \in 1..n
      BY <1>5, <1>7
    <2>3. \A p \in H : P(p) <=> rank[p] = k - 1
      BY <1>6
    <2> HIDE DEF P
    <2>4. \E p \in H : P(p)
      BY <1>5, <2>2, <2>3
    <2> QED
      BY <2>1, <2>3, <2>4
  <1>9. found \in [1..m -> H]
    BY <1>4, <1>8
  <1> QED
    BY <1>3, <1>5, <1>7, <1>8, <1>9 DEF rank, n, R, H, kw, names, found

\* A part of a text is within it, whatever the case of its letters.
LEMMA PartWithin ==
  ASSUME NEW text \in Seq(Letters), NEW i \in 1..Len(text), NEW j \in i..Len(text)
  PROVE  Within(Folded(SubSeq(text, i, j)), Folded(text))
  <1> DEFINE part == SubSeq(text, i, j)
             n == j - i + 1
             F == Folded(text)
             P == Folded(part)
  <1>1. /\ Len(text) \in Nat /\ i \in Nat /\ j \in Nat /\ n \in Nat /\ i >= 1 /\ i <= j /\ j <= Len(text)
        /\ \A k \in 1..Len(text) : text[k] \in Letters
    BY LenProperties
  <1>2. part \in Seq(Letters) /\ Len(part) = n /\ \A k \in 1..n : part[k] = text[i + k - 1]
    <2>1. i \in Int /\ j \in Int /\ \A k \in i..j : text[k] \in Letters
      BY <1>1
    <2> QED
      BY <1>1, <2>1, SubSeqProperties
  <1> HIDE DEF part
  <1>3. /\ F \in Seq(Letters) /\ Len(F) = Len(text)
        /\ \A k \in 1..Len(text) : F[k] = Lower(text[k]) /\ F[k] \in Letters
    BY FoldedText, LenProperties
  <1>4. P \in Seq(Letters) /\ Len(P) = n /\ \A k \in 1..n : P[k] = Lower(part[k])
    BY <1>2, FoldedText
  <1> HIDE DEF F, P
  <1>5. /\ SubSeq(F, i, j) \in Seq(Letters) /\ Len(SubSeq(F, i, j)) = n
        /\ \A k \in 1..n : SubSeq(F, i, j)[k] = F[i + k - 1]
    <2>1. i \in Int /\ j \in Int /\ \A k \in i..j : F[k] \in Letters
      BY <1>1, <1>3
    <2> QED
      BY <1>1, <2>1, SubSeqProperties
  <1>6. ASSUME NEW k \in 1..n
        PROVE  SubSeq(F, i, j)[k] = P[k]
    <2>1. i + k - 1 \in 1..Len(text)
      BY <1>1
    <2>2. F[i + k - 1] = Lower(part[k])
      BY <1>2, <1>3, <2>1
    <2> QED
      BY <1>4, <1>5, <2>2
  <1>7. SubSeq(F, i, j) = P
    BY <1>4, <1>5, <1>6, SeqEqual
  <1>8. /\ i - 1 \in 0..(Len(F) - Len(P))
        /\ (i - 1) + 1 = i /\ (i - 1) + Len(P) = j
    BY <1>1, <1>3, <1>4 DEF n
  <1> QED
    BY <1>7, <1>8 DEF Within, F, P, part

\* A set of numbers with a bound has a largest element.
LEMMA LargestExists ==
  ASSUME NEW S \in SUBSET Nat, S # {}, NEW b \in Nat, \A m \in S : m <= b
  PROVE  Max(S) \in S /\ \A m \in S : m <= Max(S)
  <1> DEFINE gaps == {b - m : m \in S}
  <1>1. gaps # {} /\ gaps \in SUBSET Nat
    <2>1. \A m \in S : b - m \in Nat
      OBVIOUS
    <2> QED
      BY <2>1
  <1>2. PICK g \in gaps : \A h \in gaps : ~(<<h, g>> \in OpToRel(<, Nat))
    BY <1>1, NatLessThanWellFounded, WFMin
  <1>3. PICK n \in S : \A m \in S : ~(b - m < b - n)
    BY <1>1, <1>2 DEF OpToRel
  <1>4. \A m \in S : m <= n
    BY <1>3
  <1> QED
    BY <1>4 DEF Max

\* A token of a name is within that name.
LEMMA TokenWithin ==
  ASSUME NEW keyword \in Seq(Letters), Norm(keyword) # <<>>
  PROVE  \E t \in Tokens(keyword) : Within(Folded(t), Folded(keyword))
  <1>1. Len(keyword) \in Nat /\ DOMAIN keyword = 1..Len(keyword)
    BY LenProperties
  <1>2. PICK i \in 1..Len(keyword), j \in 1..Len(keyword) :
            i <= j /\ SubSeq(keyword, i, j) \in Tokens(keyword)
    <2> DEFINE cut(i) == i \notin DOMAIN keyword \/ keyword[i] \in {" ", "/"}
               run(i, j) == i <= j /\ cut(i - 1) /\ cut(j + 1) /\ \A k \in i..j : ~cut(k)
               runs == {b \in (DOMAIN keyword) \X (DOMAIN keyword) : run(b[1], b[2])}
    <2>1. Tokens(keyword) =
             IF runs = {} THEN {Trimmed(keyword)} ELSE {SubSeq(keyword, b[1], b[2]) : b \in runs}
      BY DEF Tokens
    <2>2. \A b \in runs : b[1] \in 1..Len(keyword) /\ b[2] \in 1..Len(keyword) /\ b[1] <= b[2]
      <3> HIDE DEF cut
      <3> QED
        BY <1>1
    <2> HIDE DEF runs
    <2>3. CASE runs # {}
      BY <2>1, <2>2, <2>3
    <2>4. CASE runs = {}
      <3> DEFINE S == NonBlank(keyword)
      <3>1. S # {} /\ S \subseteq 1..Len(keyword)
        BY NormalText
      <3> HIDE DEF S
      <3>2. S \in SUBSET Nat /\ \A m \in S : m <= Len(keyword)
        BY <1>1, <3>1
      <3>3. Min(S) \in S /\ \A m \in S : Min(S) <= m
        BY <3>1, <3>2, LeastExists
      <3>4. Max(S) \in S /\ \A m \in S : m <= Max(S)
        BY <1>1, <3>1, <3>2, LargestExists
      <3>5. SubSeq(keyword, Min(S), Max(S)) \in Tokens(keyword)
        BY <2>1, <2>4 DEF Trimmed, S
      <3> QED
        BY <3>1, <3>3, <3>4, <3>5
    <2> QED
      BY <2>3, <2>4
  <1>3. j \in i..Len(keyword)
    BY <1>1, <1>2
  <1>4. Within(Folded(SubSeq(keyword, i, j)), Folded(keyword))
    BY <1>3, PartWithin
  <1> QED
    BY <1>2, <1>4

\* The rows of search_products: products on sale, and all candidates if the
\* query returns that many.
Rows(keyword, onSale, name) ==
    LET all == Candidates(keyword, onSale, name)
    IN  {p \in all : Cardinality({q \in all : q < p}) < RowLimit}

LEMMA RowsReturned ==
  ASSUME NEW onSale \in SUBSET Nat, IsFiniteSet(onSale), NEW keyword, NEW name
  PROVE  /\ Rows(keyword, onSale, name) \subseteq onSale
         /\ IsFiniteSet(Rows(keyword, onSale, name))
         /\ Cardinality(Candidates(keyword, onSale, name)) <= RowLimit
               => Rows(keyword, onSale, name) = Candidates(keyword, onSale, name)
  <1> DEFINE all == Candidates(keyword, onSale, name)
  <1>1. all \in SUBSET onSale
    BY DEF Candidates
  <1>2. Rows(keyword, onSale, name) = {p \in all : Cardinality({q \in all : q < p}) < RowLimit}
    BY DEF Rows
  <1> HIDE DEF all
  <1>3. IsFiniteSet(all) /\ Cardinality(all) \in Nat
    BY <1>1, FS_Subset, FS_CardinalityType
  <1>4. ASSUME Cardinality(all) <= RowLimit, NEW p \in all
        PROVE  Cardinality({q \in all : q < p}) < RowLimit
    <2>1. {q \in all : q < p} \in SUBSET (all \ {p})
      BY <1>1
    <2>2. IsFiniteSet(all \ {p}) /\ Cardinality(all \ {p}) = Cardinality(all) - 1
      BY <1>3, FS_RemoveElement
    <2> DEFINE below == {q \in all : q < p}
    <2> HIDE DEF below
    <2>3. Cardinality(below) \in Nat /\ Cardinality(below) <= Cardinality(all) - 1
      BY <2>1, <2>2, FS_Subset, FS_CardinalityType DEF below
    <2> QED
      BY <1>3, <1>4, <2>3, LimitsAssumption DEF below
  <1>5. Rows(keyword, onSale, name) \in SUBSET all
    BY <1>2
  <1> QED
    BY <1>1, <1>2, <1>3, <1>4, <1>5, FS_Subset DEF all

\* A product that bears the name asked for is a candidate, and hit.
LEMMA BearerHit ==
  ASSUME NEW keyword \in Seq(Letters), Norm(keyword) # <<>>,
         NEW onSale, NEW name, NEW b \in onSale, name[b] = keyword
  PROVE  /\ b \in Candidates(keyword, onSale, name)
         /\ Hit(Norm(keyword), Norm(name[b]))
         /\ Common(Norm(keyword), Norm(name[b])) = Size(Norm(keyword))
  <1>1. \E t \in Tokens(keyword) : Within(Folded(t), Folded(name[b]))
    BY TokenWithin
  <1>2. b \in Candidates(keyword, onSale, name)
    BY <1>1 DEF Candidates
  <1>3. Within(Norm(keyword), Norm(name[b])) /\ Norm(keyword) \in Seq(Letters)
    BY NormalText, WithinItself
  <1>4. Hit(Norm(keyword), Norm(name[b]))
    BY <1>3 DEF Hit
  <1>5. Common(Norm(keyword), Norm(name[b])) = Size(Norm(keyword))
    BY <1>3, WithinShares
  <1> QED
    BY <1>2, <1>4, <1>5

\* What is hit shares six in ten characters.
LEMMA HitShares ==
  ASSUME NEW kw \in Seq(Letters), NEW text \in Seq(Letters), Hit(kw, text)
  PROVE  10 * Common(kw, text) >= 6 * Size(kw)
  <1>1. Common(kw, text) \in Nat /\ Size(kw) \in Nat
    BY ShareOfKeyword, CharactersFinite
  <1>2. CASE Within(kw, text)
    <2>1. Common(kw, text) = Size(kw)
      BY <1>2, WithinShares
    <2> QED
      BY <1>1, <2>1
  <1>3. CASE ~Within(kw, text)
    BY <1>3 DEF Hit
  <1> QED
    BY <1>2, <1>3

LEMMA ChosenAsNamed ==
  ASSUME NEW onSale \in SUBSET Nat, IsFiniteSet(onSale), NEW keyword \in Seq(Letters),
         NEW name, \A p \in onSale : name[p] \in Seq(Letters)
  PROVE  OrderedAsNamed(keyword, onSale, name)
  <1> DEFINE rows == Rows(keyword, onSale, name)
             kw == Norm(keyword)
             names == NormNames(rows, name)
             H == HitRows(kw, names)
             R == Ahead(kw, names)
             rank == Rank(R, H)
             found == MatchProducts(keyword, rows, name, MatchLimit)
             exact == {k \in DOMAIN found : name[found[k]] = keyword}
             chosen == Chosen(keyword, onSale, name)
             share(p) == Common(kw, Norm(name[p]))
             full == {p \in onSale : share(p) = Size(kw)}
             bearers == {p \in onSale : name[p] = keyword}
             n == Cardinality(H)
  <1>1. rows \subseteq onSale /\ IsFiniteSet(rows)
    BY RowsReturned
  <1>2. chosen = IF found = <<>> THEN NoProduct
                 ELSE IF exact = {} THEN found[1] ELSE found[Min(exact)]
    BY DEF Chosen, SearchProducts, Rows
  <1> HIDE DEF chosen
  <1>3. PICK m \in Nat :
           /\ m <= MatchLimit /\ m <= n
           /\ m = MatchLimit \/ m = n
           /\ n \in Nat
           /\ found \in [1..m -> H]
           /\ rank \in [H -> 0..(n - 1)]
           /\ \A k \in 1..m : rank[found[k]] = k - 1
           /\ \A p, q \in H : Before(kw, names, p, q) => rank[p] < rank[q]
           /\ \A p, q \in H : rank[p] = rank[q] => p = q
    <2>1. rows \in SUBSET Nat /\ \A p \in rows : name[p] \in Seq(Letters)
      BY <1>1
    <2> HIDE DEF rows
    <2> QED
      BY <1>1, <2>1, FoundRanked, LimitsAssumption
  <1>4. /\ kw \in Seq(Letters) /\ Size(kw) \in Nat
        /\ \A p \in onSale : /\ Norm(name[p]) \in Seq(Letters)
                             /\ share(p) \in Nat /\ share(p) <= Size(kw)
    BY NormalText, ShareOfKeyword, CharactersFinite
  <1>5. \A p \in H : p \in onSale /\ Hit(kw, Norm(name[p])) /\ names[p] = Norm(name[p]) /\ p \in rows
    BY <1>1 DEF HitRows, NormNames
  <1>6. found # <<>> => m > 0
    <2> HIDE DEF found, H
    <2>1. m = 0 => found = <<>>
      <3>1. found \in Seq(H) /\ (m = 0 => Len(found) = 0)
        BY <1>3, SeqDef, LenProperties
      <3> QED
        BY <3>1, EmptySeq
    <2> QED
      BY <1>3, <2>1
  <1>7. exact \subseteq 1..m /\ (exact # {} => Min(exact) \in exact /\ \A k \in exact : Min(exact) <= k)
    <2>1. exact \subseteq 1..m
      BY <1>3
    <2>2. exact \in SUBSET Nat
      BY <2>1
    <2> HIDE DEF exact
    <2> QED
      BY <2>1, <2>2, LeastExists
  <1>8. ASSUME found # <<>>
        PROVE  \E k \in 1..m : chosen = found[k] /\ (exact = {} => k = 1) /\ (exact # {} => k = Min(exact))
    <2> HIDE DEF found, exact
    <2>1. m \in Nat /\ m > 0
      BY <1>3, <1>6, <1>8
    <2>2. CASE exact = {}
      <3>1. chosen = found[1] /\ 1 \in 1..m
        BY <1>2, <1>8, <2>1, <2>2
      <3> QED
        BY <2>2, <3>1
    <2>3. CASE exact # {}
      <3>1. chosen = found[Min(exact)] /\ Min(exact) \in 1..m
        BY <1>2, <1>7, <1>8, <2>3
      <3> QED
        BY <2>3, <3>1
    <2> QED
      BY <2>2, <2>3
  <1>9. chosen # NoProduct => chosen \in onSale /\ 10 * share(chosen) >= 6 * Size(kw)
    <2> SUFFICES ASSUME chosen # NoProduct
                 PROVE  chosen \in onSale /\ 10 * share(chosen) >= 6 * Size(kw)
      OBVIOUS
    <2>1. found # <<>>
      BY <1>2
    <2>2. PICK k \in 1..m : chosen = found[k]
      BY <1>8, <2>1
    <2>3. chosen \in H
      BY <1>3, <2>2
    <2> QED
      BY <1>4, <1>5, <2>3, HitShares
  <1>10. ASSUME kw # <<>>, bearers # {}, Cardinality(Candidates(keyword, onSale, name)) <= RowLimit
         PROVE  /\ chosen \in full
                /\ Cardinality(full) <= MatchLimit => chosen = Min(bearers)
    <2>1. \A b \in bearers : b \in H /\ share(b) = Size(kw) /\ b \in full
      <3>1. rows = Candidates(keyword, onSale, name)
        BY <1>10, RowsReturned
      <3>2. \A b \in bearers : b \in rows /\ Hit(kw, Norm(name[b])) /\ share(b) = Size(kw)
        BY <1>10, <3>1, BearerHit
      <3> QED
        BY <3>2 DEF HitRows, NormNames
    <2>2. bearers \in SUBSET Nat
      OBVIOUS
    <2> DEFINE b == Min(bearers)
    <2>3. b \in bearers /\ \A p \in bearers : b <= p
      <3> HIDE DEF bearers
      <3> QED
        BY <1>10, <2>2, LeastExists
    <2> HIDE DEF b
    <2>4. rank[b] \in 0..(n - 1) /\ b \in H
      BY <1>3, <2>1, <2>3
    <2>5. m > 0 /\ found # <<>>
      <3>1. m > 0
        <4> HIDE DEF n, rank
        <4> QED
          BY <1>3, <2>4, LimitsAssumption
      <3>2. found # <<>>
        <4> HIDE DEF found
        <4>1. DOMAIN found = 1..m /\ 1 \in DOMAIN found
          BY <1>3, <3>1
        <4> QED
          BY <4>1
      <3> QED
        BY <3>1, <3>2
    <2>6. PICK k \in 1..m :
             chosen = found[k] /\ (exact = {} => k = 1) /\ (exact # {} => k = Min(exact))
      BY <1>8, <2>5
    <2>7. chosen \in H /\ rank[chosen] = k - 1
      BY <1>3, <2>6
    <2>8. \A p \in H : share(p) > share(b) => Before(kw, names, p, b)
      BY <1>5, <2>4 DEF Before
    <2>9. chosen \in full
      <3>1. CASE exact # {}
        <4>1. name[chosen] = keyword
          BY <1>7, <2>6, <3>1
        <4> QED
          BY <1>5, <2>1, <2>7, <4>1
      <3>2. CASE exact = {}
        <4>1. rank[chosen] = 0
          BY <2>6, <2>7, <3>2
        <4>2. ~Before(kw, names, b, chosen)
          <5>1. ~(rank[b] < rank[chosen])
            <6> HIDE DEF rank, n
            <6> QED
              BY <1>3, <2>4, <4>1
          <5> QED
            BY <1>3, <2>4, <2>7, <5>1
        <4>3. share(b) > share(chosen) => Before(kw, names, b, chosen)
          BY <1>5, <2>4, <2>7 DEF Before
        <4>4. share(b) = Size(kw) /\ chosen \in onSale
          BY <1>5, <2>1, <2>3, <2>7
        <4>5. share(chosen) = Size(kw)
          <5> HIDE DEF share, kw
          <5> QED
            BY <1>4, <4>2, <4>3, <4>4
        <4> QED
          BY <4>4, <4>5
      <3> QED
        BY <3>1, <3>2
    <2>10. ASSUME Cardinality(full) <= MatchLimit
           PROVE  chosen = b
      <3>1. rank[b] < MatchLimit
        <4> DEFINE above == {q \in H : <<q, b>> \in R}
        <4>1. rank[b] = Cardinality(above)
          BY <2>4 DEF Rank
        <4>2. above \in SUBSET (full \ {b})
          <5>1. ASSUME NEW q \in above
                PROVE  share(q) >= share(b) /\ q # b /\ q \in onSale
            <6>1. q \in H /\ Before(kw, names, q, b)
              BY DEF Ahead
            <6>2. names[q] = Norm(name[q]) /\ names[b] = Norm(name[b]) /\ q \in onSale /\ b \in onSale
              BY <1>5, <2>4, <6>1
            <6>3. share(q) \in Nat /\ share(b) \in Nat
              BY <1>4, <6>2
            <6>4. share(q) > share(b) \/ share(q) = share(b)
              BY <6>1, <6>2 DEF Before
            <6>5. q # b
              <7>1. rank[q] < rank[b]
                BY <1>3, <2>4, <6>1
              <7>2. rank[b] \in Int
                BY <2>4
              <7> HIDE DEF rank
              <7> QED
                BY <7>1, <7>2
            <6> HIDE DEF share
            <6> QED
              BY <6>2, <6>3, <6>4, <6>5
          <5>2. share(b) = Size(kw)
            BY <2>1, <2>3
          <5>3. \A q \in onSale : share(q) >= Size(kw) => q \in full
            <6>1. \A q \in onSale : share(q) >= Size(kw) => share(q) = Size(kw)
              <7> HIDE DEF share, kw
              <7> QED
                BY <1>4
            <6> QED
              BY <6>1
          <5> HIDE DEF share, full, above
          <5> QED
            BY <5>1, <5>2, <5>3
        <4>3. IsFiniteSet(full) /\ b \in full
          <5>1. full \in SUBSET onSale
            OBVIOUS
          <5> HIDE DEF full
          <5> QED
            BY <2>1, <2>3, <5>1, FS_Subset
        <4> HIDE DEF full, above
        <4>4. IsFiniteSet(full \ {b}) /\ Cardinality(full \ {b}) = Cardinality(full) - 1
          BY <4>3, FS_RemoveElement
        <4>5. Cardinality(above) <= Cardinality(full) - 1 /\ Cardinality(above) \in Nat
          BY <4>2, <4>4, FS_Subset, FS_CardinalityType
        <4>6. Cardinality(full) \in Nat
          BY <4>3, FS_CardinalityType
        <4> HIDE DEF rank
        <4> QED
          BY <2>10, <4>1, <4>5, <4>6, LimitsAssumption
      <3> DEFINE k0 == rank[b] + 1
      <3>2. k0 \in 1..m /\ rank[b] = k0 - 1 /\ rank[b] \in Nat
        <4> HIDE DEF rank, n
        <4> QED
          BY <1>3, <2>4, <3>1
      <3>3. found[k0] = b
        <4>1. found[k0] \in H /\ rank[found[k0]] = k0 - 1
          BY <1>3, <3>2
        <4> QED
          BY <1>3, <2>4, <3>2, <4>1
      <3>4. k0 \in exact
        BY <1>3, <2>3, <3>2, <3>3
      <3>5. k = Min(exact) /\ k <= k0 /\ k \in exact
        <4> HIDE DEF exact, k0
        <4> QED
          BY <1>7, <2>6, <3>4
      <3>6. chosen \in bearers
        BY <1>5, <2>6, <2>7, <3>5
      <3>7. chosen # b => Before(kw, names, b, chosen)
        <4>1. names[b] = kw /\ names[chosen] = kw
          BY <1>5, <2>3, <2>4, <2>7, <3>6
        <4>2. b <= chosen /\ b \in Nat /\ chosen \in Nat
          BY <2>2, <2>3, <3>6
        <4> QED
          BY <4>1, <4>2 DEF Before
      <3>8. ~(rank[b] < rank[chosen])
        <4>1. rank[chosen] = k - 1 /\ k \in Nat
          BY <2>7
        <4> HIDE DEF rank
        <4> QED
          BY <3>2, <3>5, <4>1
      <3> QED
        BY <1>3, <2>4, <2>7, <3>7, <3>8
    <2> QED
      BY <2>9, <2>10 DEF b
  <1> QED
    BY <1>9, <1>10 DEF OrderedAsNamed, chosen

-----------------------------------------------------------------------------
(* Sums and products *)

\* A set that has 0, and each number up to n if it has the one before it, has
\* the numbers up to n.
LEMMA UpTo ==
  ASSUME NEW n \in Nat, NEW A, 0 \in A, \A i \in 1..n : i - 1 \in A => i \in A
  PROVE  \A i \in 0..n : i \in A
  <1> DEFINE missing == {i \in 0..n : i \notin A}
  <1> SUFFICES ASSUME missing # {}
               PROVE  FALSE
    OBVIOUS
  <1> DEFINE m == Min(missing)
  <1>1. m \in missing /\ \A i \in missing : m <= i
    <2>1. missing \in SUBSET Nat
      OBVIOUS
    <2> HIDE DEF missing
    <2> QED
      BY <2>1, LeastExists
  <1> HIDE DEF m
  <1>2. m \in 1..n /\ m \notin A
    BY <1>1
  <1>3. m - 1 \in 0..n /\ ~(m <= m - 1)
    BY <1>2
  <1>4. m - 1 \in A
    BY <1>1, <1>3
  <1> QED
    BY <1>2, <1>4

\* What is computed of a number and the result before it, from the first number on.
Computed(s, n, base, step) == s[0] = base /\ \A i \in 1..n : s[i] = step[i][s[i - 1]]

LEMMA Partial ==
  ASSUME NEW n \in Nat, NEW B, NEW base \in B, NEW step \in [1..n -> [B -> B]]
  PROVE  \E s \in [0..n -> B] : Computed(s, n, base, step)
  <1> DEFINE Good(m) == \E s \in [0..m -> B] : s[0] = base /\ \A i \in 1..m : s[i] = step[i][s[i - 1]]
             A == {m \in 0..n : Good(m)}
  <1>1. Good(0)
    <2> DEFINE s == [i \in 0..0 |-> base]
    <2>1. s \in [0..0 -> B] /\ s[0] = base
      OBVIOUS
    <2> QED
      <3>1. \A i \in 1..0 : FALSE
        OBVIOUS
      <3> HIDE DEF s
      <3> QED
        BY <2>1, <3>1
  <1>2. ASSUME NEW i \in 1..n, Good(i - 1)
        PROVE  Good(i)
    <2>1. PICK s \in [0..(i - 1) -> B] :
                s[0] = base /\ \A j \in 1..(i - 1) : s[j] = step[j][s[j - 1]]
      BY <1>2
    <2> DEFINE t == [j \in 0..i |-> IF j = i THEN step[i][s[i - 1]] ELSE s[j]]
    <2>2. step[i][s[i - 1]] \in B
      <3>1. i - 1 \in 0..(i - 1) /\ step[i] \in [B -> B]
        OBVIOUS
      <3>2. s[i - 1] \in B
        BY <2>1, <3>1
      <3> QED
        BY <3>1, <3>2
    <2>3. \A j \in 0..(i - 1) : j \in 0..i /\ j # i /\ t[j] = s[j] /\ s[j] \in B
      <3>1. \A j \in 0..(i - 1) : j \in 0..i /\ j # i
        OBVIOUS
      <3>2. \A j \in 0..(i - 1) : t[j] = s[j]
        BY <3>1
      <3>3. \A j \in 0..(i - 1) : s[j] \in B
        BY <2>1
      <3> HIDE DEF t
      <3> QED
        BY <3>1, <3>2, <3>3
    <2>4. t[i] = step[i][s[i - 1]]
      OBVIOUS
    <2>5. t \in [0..i -> B]
      <3>1. \A j \in 0..i : t[j] \in B
        <4>1. \A j \in 0..i : j = i \/ j \in 0..(i - 1)
          OBVIOUS
        <4>2. t[i] \in B
          BY <2>2, <2>4
        <4> HIDE DEF t
        <4> QED
          BY <2>3, <4>1, <4>2
      <3> QED
        BY <3>1
    <2> HIDE DEF t
    <2>6. t[0] = base
      <3>1. 0 \in 0..(i - 1)
        OBVIOUS
      <3> QED
        BY <2>1, <2>3, <3>1
    <2>7. ASSUME NEW j \in 1..i
          PROVE  t[j] = step[j][t[j - 1]]
      <3>1. j - 1 \in 0..(i - 1) /\ t[j - 1] = s[j - 1]
        <4>1. j - 1 \in 0..(i - 1)
          OBVIOUS
        <4> QED
          BY <2>3, <4>1
      <3>2. CASE j = i
        BY <2>4, <3>1, <3>2
      <3>3. CASE j # i
        <4>1. j \in 1..(i - 1) /\ j \in 0..(i - 1)
          BY <3>3
        <4>2. t[j] = s[j]
          BY <2>3, <4>1
        <4> QED
          BY <2>1, <3>1, <4>1, <4>2
      <3> QED
        BY <3>2, <3>3
    <2> QED
      BY <2>5, <2>6, <2>7
  <1> HIDE DEF Good
  <1>3. 0 \in A /\ \A i \in 1..n : i - 1 \in A => i \in A
    BY <1>1, <1>2
  <1> HIDE DEF A
  <1>4. \A m \in 0..n : m \in A
    BY <1>3, UpTo
  <1> QED
    <2>1. Good(n)
      <3>1. n \in A
        BY <1>4
      <3> QED
        BY <3>1 DEF A
    <2> QED
      BY <2>1 DEF Good, Computed

\* The sums of the first numbers, and their products.
LEMMA Totals ==
  ASSUME NEW n \in Nat, NEW f \in [1..n -> Int]
  PROVE  \E s \in [0..n -> Int] :
            s[0] = 0 /\ (\A i \in 1..n : s[i] = s[i - 1] + f[i]) /\ Total(f, n) = s[n]
  <1> DEFINE P(s) == s = [i \in 0..n |-> IF i = 0 THEN 0 ELSE s[i - 1] + f[i]]
             step == [i \in 1..n |-> [x \in Int |-> x + f[i]]]
             c == CHOOSE s : P(s)
             A == {i \in 0..n : c[i] \in Int}
  <1>1. Total(f, n) = c[n]
    BY DEF Total
  <1>2. P(c)
    <2>1. step \in [1..n -> [Int -> Int]] /\ \A i \in 1..n, x \in Int : step[i][x] = x + f[i]
      OBVIOUS
    <2> HIDE DEF step
    <2> DEFINE B == Int
    <2>a. PICK s \in [0..n -> B] : Computed(s, n, 0, step)
      <3>1. 0 \in B /\ step \in [1..n -> [B -> B]]
        BY <2>1
      <3> HIDE DEF B, step
      <3> QED
        BY <3>1, Partial
    <2>2. s[0] = 0 /\ (\A i \in 1..n : s[i] = step[i][s[i - 1]]) /\ s \in [0..n -> Int]
      BY <2>a DEF Computed
    <2>3. \A i \in 1..n : s[i] = s[i - 1] + f[i]
      <3>1. \A i \in 1..n : i - 1 \in 0..n
        OBVIOUS
      <3>2. \A i \in 1..n : s[i - 1] \in Int
        BY <2>2, <3>1
      <3> QED
        BY <2>1, <2>2, <3>2
    <2>4. s = [i \in 0..n |-> s[i]]
      BY <2>2
    <2>5. \A i \in 0..n : i # 0 => i \in 1..n
      OBVIOUS
    <2>6. P(s)
      BY <2>2, <2>3, <2>4, <2>5
    <2> HIDE DEF P
    <2> QED
      BY <2>6
  <1> HIDE DEF c
  <1>3. DOMAIN c = 0..n /\ c[0] = 0 /\ \A i \in 1..n : c[i] = c[i - 1] + f[i]
    BY <1>2
  <1>4. 0 \in A /\ \A i \in 1..n : i - 1 \in A => i \in A
    BY <1>3
  <1>5. \A i \in 0..n : c[i] \in Int
    <2> HIDE DEF A
    <2>1. \A i \in 0..n : i \in A
      BY <1>4, UpTo
    <2> QED
      BY <2>1 DEF A
  <1>6. c \in [0..n -> Int]
    BY <1>2, <1>5
  <1> HIDE DEF P
  <1> QED
    BY <1>1, <1>3, <1>6

LEMMA Products ==
  ASSUME NEW n \in Nat, NEW f \in [1..n -> Int]
  PROVE  \E s \in [0..n -> Int] :
            s[0] = 1 /\ (\A i \in 1..n : s[i] = s[i - 1] * f[i]) /\ Product(f, n) = s[n]
  <1> DEFINE P(s) == s = [i \in 0..n |-> IF i = 0 THEN 1 ELSE s[i - 1] * f[i]]
             step == [i \in 1..n |-> [x \in Int |-> x * f[i]]]
             c == CHOOSE s : P(s)
             A == {i \in 0..n : c[i] \in Int}
  <1>1. Product(f, n) = c[n]
    BY DEF Product
  <1>2. P(c)
    <2>1. step \in [1..n -> [Int -> Int]] /\ \A i \in 1..n, x \in Int : step[i][x] = x * f[i]
      OBVIOUS
    <2> HIDE DEF step
    <2> DEFINE B == Int
    <2>a. PICK s \in [0..n -> B] : Computed(s, n, 1, step)
      <3>1. 1 \in B /\ step \in [1..n -> [B -> B]]
        BY <2>1
      <3> HIDE DEF B, step
      <3> QED
        BY <3>1, Partial
    <2>2. s[0] = 1 /\ (\A i \in 1..n : s[i] = step[i][s[i - 1]]) /\ s \in [0..n -> Int]
      BY <2>a DEF Computed
    <2>3. \A i \in 1..n : s[i] = s[i - 1] * f[i]
      <3>1. \A i \in 1..n : i - 1 \in 0..n
        OBVIOUS
      <3>2. \A i \in 1..n : s[i - 1] \in Int
        BY <2>2, <3>1
      <3> QED
        BY <2>1, <2>2, <3>2
    <2>4. s = [i \in 0..n |-> s[i]]
      BY <2>2
    <2>5. \A i \in 0..n : i # 0 => i \in 1..n
      OBVIOUS
    <2>6. P(s)
      BY <2>2, <2>3, <2>4, <2>5
    <2> HIDE DEF P
    <2> QED
      BY <2>6
  <1> HIDE DEF c
  <1>3. DOMAIN c = 0..n /\ c[0] = 1 /\ \A i \in 1..n : c[i] = c[i - 1] * f[i]
    BY <1>2
  <1>4. 0 \in A /\ \A i \in 1..n : i - 1 \in A => i \in A
    BY <1>3
  <1>5. \A i \in 0..n : c[i] \in Int
    <2> HIDE DEF A
    <2>1. \A i \in 0..n : i \in A
      BY <1>4, UpTo
    <2> QED
      BY <2>1 DEF A
  <1>6. c \in [0..n -> Int]
    BY <1>2, <1>5
  <1> HIDE DEF P
  <1> QED
    BY <1>1, <1>3, <1>6

LEMMA Added ==
  ASSUME NEW a \in Int, NEW b \in Int, NEW c \in Int, NEW d \in Int, a <= b, c <= d
  PROVE  a + c <= b + d /\ (a < b \/ c < d => a + c < b + d)
  OBVIOUS

\* Sums of numbers that are no less are no less, and larger if one number is.
LEMMA TotalGrows ==
  ASSUME NEW n \in Nat, NEW f \in [1..n -> Int], NEW g \in [1..n -> Int], NEW k \in 1..n,
         \A i \in 1..n : f[i] <= g[i], f[k] < g[k]
  PROVE  Total(f, n) < Total(g, n)
  <1>1. PICK s \in [0..n -> Int] :
              s[0] = 0 /\ (\A i \in 1..n : s[i] = s[i - 1] + f[i]) /\ Total(f, n) = s[n]
    BY Totals
  <1>2. PICK t \in [0..n -> Int] :
              t[0] = 0 /\ (\A i \in 1..n : t[i] = t[i - 1] + g[i]) /\ Total(g, n) = t[n]
    BY Totals
  <1> DEFINE A == {i \in 0..n : s[i] <= t[i] /\ (k <= i => s[i] < t[i])}
  <1>3. 0 \in A
    BY <1>1, <1>2
  <1>4. ASSUME NEW i \in 1..n, i - 1 \in A
        PROVE  i \in A
    <2>1. i - 1 \in 0..n /\ i \in 0..n
      OBVIOUS
    <2>2. s[i - 1] \in Int /\ t[i - 1] \in Int /\ f[i] \in Int /\ g[i] \in Int /\ f[i] <= g[i]
      BY <1>1, <1>2, <2>1
    <2>3. s[i] = s[i - 1] + f[i] /\ t[i] = t[i - 1] + g[i]
      BY <1>1, <1>2
    <2>4. s[i - 1] <= t[i - 1] /\ (k <= i - 1 => s[i - 1] < t[i - 1])
      BY <1>4
    <2>5. k <= i => k <= i - 1 \/ f[i] < g[i]
      OBVIOUS
    <2>6. s[i] <= t[i] /\ (k <= i => s[i] < t[i])
      <3>1. /\ s[i - 1] + f[i] <= t[i - 1] + g[i]
            /\ s[i - 1] < t[i - 1] \/ f[i] < g[i] => s[i - 1] + f[i] < t[i - 1] + g[i]
        BY <2>2, <2>4, Added
      <3> QED
        BY <2>3, <2>4, <2>5, <3>1
    <2> QED
      BY <2>1, <2>6
  <1> HIDE DEF A
  <1>5. \A i \in 0..n : i \in A
    BY <1>3, <1>4, UpTo
  <1>6. n \in A /\ k <= n
    BY <1>5
  <1> QED
    BY <1>1, <1>2, <1>6 DEF A

\* A sum of zeros and one number is that number.
LEMMA TotalOfOne ==
  ASSUME NEW n \in Nat, NEW k \in 1..n, NEW x \in Int
  PROVE  Total([i \in 1..n |-> IF i = k THEN x ELSE 0], n) = x
  <1> DEFINE f == [i \in 1..n |-> IF i = k THEN x ELSE 0]
  <1>1. f \in [1..n -> Int] /\ \A i \in 1..n : f[i] = IF i = k THEN x ELSE 0
    OBVIOUS
  <1> HIDE DEF f
  <1>2. PICK s \in [0..n -> Int] :
              s[0] = 0 /\ (\A i \in 1..n : s[i] = s[i - 1] + f[i]) /\ Total(f, n) = s[n]
    BY <1>1, Totals
  <1> DEFINE A == {i \in 0..n : s[i] = IF k <= i THEN x ELSE 0}
  <1>3. 0 \in A
    BY <1>2
  <1>4. ASSUME NEW i \in 1..n, i - 1 \in A
        PROVE  i \in A
    <2>1. i - 1 \in 0..n /\ i \in 0..n
      OBVIOUS
    <2>2. s[i] = s[i - 1] + f[i] /\ f[i] = IF i = k THEN x ELSE 0
      BY <1>1, <1>2
    <2>3. s[i - 1] = IF k <= i - 1 THEN x ELSE 0
      BY <1>4
    <2>4. s[i] = IF k <= i THEN x ELSE 0
      BY <2>2, <2>3
    <2> QED
      BY <2>1, <2>4
  <1> HIDE DEF A
  <1>5. \A i \in 0..n : i \in A
    BY <1>3, <1>4, UpTo
  <1>6. n \in A /\ k <= n
    BY <1>5
  <1>7. Total(f, n) = x
    BY <1>2, <1>6 DEF A
  <1> QED
    BY <1>7 DEF f

LEMMA Exchange ==
  ASSUME NEW a \in Int, NEW b \in Int, NEW c \in Int
  PROVE  (a * b) * c = a * (b * c)
  OBVIOUS

LEMMA Positive ==
  ASSUME NEW a \in Int, NEW b \in Int, a >= 1, b >= 1
  PROVE  a * b >= 1
  OBVIOUS

\* The product of positive numbers without one of them, times that one.
LEMMA ProductWithout ==
  ASSUME NEW n \in Nat, NEW f \in [1..n -> Int], \A i \in 1..n : f[i] >= 1, NEW k \in 1..n
  PROVE  LET w == Product([i \in 1..n |-> IF i = k THEN 1 ELSE f[i]], n)
         IN  w \in Int /\ w >= 1 /\ Product(f, n) = f[k] * w
  <1> DEFINE g == [i \in 1..n |-> IF i = k THEN 1 ELSE f[i]]
  <1>1. g \in [1..n -> Int] /\ \A i \in 1..n : g[i] = IF i = k THEN 1 ELSE f[i]
    OBVIOUS
  <1> HIDE DEF g
  <1>2. PICK s \in [0..n -> Int] :
              s[0] = 1 /\ (\A i \in 1..n : s[i] = s[i - 1] * f[i]) /\ Product(f, n) = s[n]
    BY Products
  <1>3. PICK t \in [0..n -> Int] :
              t[0] = 1 /\ (\A i \in 1..n : t[i] = t[i - 1] * g[i]) /\ Product(g, n) = t[n]
    BY <1>1, Products
  <1> DEFINE A == {i \in 0..n : t[i] >= 1 /\ s[i] = IF k <= i THEN f[k] * t[i] ELSE t[i]}
  <1>4. 0 \in A
    BY <1>2, <1>3
  <1>5. ASSUME NEW i \in 1..n, i - 1 \in A
        PROVE  i \in A
    <2>1. i - 1 \in 0..n /\ i \in 0..n
      OBVIOUS
    <2>2. /\ s[i - 1] \in Int /\ t[i - 1] \in Int /\ f[i] \in Int /\ f[i] >= 1
          /\ f[k] \in Int
      BY <1>2, <1>3, <2>1
    <2>3. s[i] = s[i - 1] * f[i] /\ t[i] = t[i - 1] * g[i] /\ g[i] = IF i = k THEN 1 ELSE f[i]
      BY <1>1, <1>2, <1>3
    <2>4. t[i - 1] >= 1 /\ s[i - 1] = IF k <= i - 1 THEN f[k] * t[i - 1] ELSE t[i - 1]
      BY <1>5
    <2>5. CASE i = k
      <3>1. t[i] = t[i - 1] /\ s[i - 1] = t[i - 1]
        BY <2>2, <2>3, <2>4, <2>5
      <3>2. s[i] = f[k] * t[i] /\ t[i] >= 1
        BY <2>2, <2>3, <2>4, <2>5, <3>1
      <3> QED
        BY <2>1, <2>5, <3>2
    <2>6. CASE i # k
      <3>1. t[i] = t[i - 1] * f[i]
        BY <2>3, <2>6
      <3>2. t[i] >= 1
        BY <2>2, <2>4, <3>1, Positive
      <3>3. k <= i - 1 => s[i] = f[k] * t[i]
        <4>1. (f[k] * t[i - 1]) * f[i] = f[k] * (t[i - 1] * f[i])
          BY <2>2, Exchange
        <4> QED
          BY <2>3, <2>4, <3>1, <4>1
      <3>4. ~(k <= i - 1) => s[i] = t[i]
        BY <2>3, <2>4, <3>1
      <3>5. k <= i <=> k <= i - 1
        BY <2>6
      <3> QED
        BY <2>1, <3>2, <3>3, <3>4, <3>5
    <2> QED
      BY <2>5, <2>6
  <1> HIDE DEF A
  <1>6. \A i \in 0..n : i \in A
    BY <1>4, <1>5, UpTo
  <1>7. n \in A /\ k <= n /\ n \in 0..n
    BY <1>6
  <1>8. t[n] \in Int /\ t[n] >= 1 /\ s[n] = f[k] * t[n]
    BY <1>3, <1>7 DEF A
  <1>9. Product(g, n) \in Int /\ Product(g, n) >= 1 /\ Product(f, n) = f[k] * Product(g, n)
    BY <1>2, <1>3, <1>8
  <1> QED
    BY <1>9 DEF g

-----------------------------------------------------------------------------
(* The fusion *)

\* A finite set of numbers has a largest one.
LEMMA LargestOfFinite ==
  ASSUME NEW S \in SUBSET Int, S # {}, IsFiniteSet(S)
  PROVE  Max(S) \in S /\ \A m \in S : m <= Max(S)
  <1> DEFINE n == Cardinality(S)
             last == Ascending(S)[n]
  <1>1. /\ n \in Nat
        /\ Ascending(S) \in [1..n -> S]
        /\ \A j, k \in 1..n : j < k => Ascending(S)[j] < Ascending(S)[k]
        /\ \A i \in S : \E k \in 1..n : Ascending(S)[k] = i
    BY AscendingOrder
  <1>2. n \in 1..n
    <2> HIDE DEF n
    <2>1. PICK i \in S : TRUE
      OBVIOUS
    <2>2. PICK k \in 1..n : Ascending(S)[k] = i
      BY <1>1
    <2> QED
      BY <1>1, <2>2
  <1> HIDE DEF n
  <1>3. last \in S
    BY <1>1, <1>2
  <1>4. ASSUME NEW m \in S
        PROVE  m <= last
    <2>1. PICK k \in 1..n : Ascending(S)[k] = m
      BY <1>1
    <2>2. k = n \/ k < n
      BY <1>2, <2>1
    <2>3. k = n => m = last
      BY <2>1
    <2>4. k < n => m < last
      BY <1>1, <1>2, <2>1
    <2>5. m \in Int /\ last \in Int
      BY <1>3
    <2> HIDE DEF last
    <2> QED
      BY <2>2, <2>3, <2>4, <2>5
  <1> HIDE DEF last
  <1> QED
    BY <1>3, <1>4 DEF Max

\* The best score of a pool that has a positive one.
LEMMA BestOfPool ==
  ASSUME NEW pool \in Pools, \E c \in DOMAIN pool : pool[c] > 0
  PROVE  /\ Best(pool) \in Int /\ Best(pool) >= 1 /\ Scale(pool) = Best(pool)
         /\ \A c \in DOMAIN pool : pool[c] \in Int /\ pool[c] <= Best(pool)
  <1> DEFINE scores == {pool[c] : c \in DOMAIN pool}
             best == Max(scores)
  <1>1. IsFiniteSet(DOMAIN pool) /\ pool \in [DOMAIN pool -> Int]
    BY PoolsAssumption
  <1>2. \A c \in DOMAIN pool : pool[c] \in Int
    BY <1>1
  <1>3. IsFiniteSet(scores)
    <2>1. pool \in Surjection(DOMAIN pool, scores)
      BY <1>1 DEF Surjection
    <2> HIDE DEF scores
    <2> QED
      BY <1>1, <2>1, FS_Surjection
  <1>4. scores \in SUBSET Int /\ \E x \in scores : x > 0
    BY <1>2
  <1>5. best \in scores /\ \A x \in scores : x <= best
    <2> HIDE DEF scores
    <2> QED
      BY <1>3, <1>4, LargestOfFinite
  <1>6. \A c \in DOMAIN pool : pool[c] <= best
    <2>1. \A c \in DOMAIN pool : pool[c] \in scores
      OBVIOUS
    <2> HIDE DEF scores
    <2> QED
      BY <1>5, <2>1
  <1>7. best \in Int /\ best >= 1
    <2>1. PICK x \in scores : x > 0
      BY <1>4
    <2> HIDE DEF scores, best
    <2>2. x \in Int /\ best \in Int /\ x <= best
      BY <1>4, <1>5, <2>1
    <2> QED
      BY <2>1, <2>2
  <1>8. Best(pool) = best
    <2>1. Best(pool) = IF best = 0 THEN 1 ELSE best
      BY DEF Best
    <2> HIDE DEF best
    <2> QED
      BY <1>7, <2>1
  <1> HIDE DEF best
  <1> QED
    BY <1>2, <1>6, <1>7, <1>8 DEF Scale

LEMMA Scaled ==
  ASSUME NEW a \in Int, NEW b \in Int, NEW w \in Int, w >= 1
  PROVE  a * w \in Int /\ (a <= b => a * w <= b * w) /\ (a < b => a * w < b * w)
  OBVIOUS

\* What each list weighs.
Weight(lists, k) ==
    Product([j \in 1..Len(lists) |-> IF j = k THEN 1 ELSE Scale(lists[j])], Len(lists))
Weighted(lists, c) == [k \in 1..Len(lists) |-> Share(lists, c, k) * Weight(lists, k)]

\* The weights are positive, and each is the same number of scales; a fused score
\* is the sum of the weighted shares.
LEMMA FusedSums ==
  ASSUME NEW lists \in Seq(Pools), Comparable(lists)
  PROVE  /\ DOMAIN lists = 1..Len(lists) /\ Len(lists) \in Nat
         /\ \A k \in 1..Len(lists) :
               /\ Weight(lists, k) \in Int /\ Weight(lists, k) >= 1
               /\ Scale(lists[k]) \in Int
               /\ Scale(lists[k]) * Weight(lists, k) =
                     Product([j \in 1..Len(lists) |-> Scale(lists[j])], Len(lists))
         /\ \A c, k : k \in 1..Len(lists) => Share(lists, c, k) \in Int
         /\ \A c : Weighted(lists, c) \in [1..Len(lists) -> Int]
         /\ \A c \in DOMAIN Fused(lists) :
               Fused(lists)[c] = Total(Weighted(lists, c), Len(lists))
  <1> DEFINE n == Len(lists)
             scale == [j \in 1..n |-> Scale(lists[j])]
  <1>1. DOMAIN lists = 1..n /\ n \in Nat /\ \A k \in 1..n : lists[k] \in Pools
    BY LenProperties
  <1> HIDE DEF n
  <1>2. ASSUME NEW k \in 1..n
        PROVE  Scale(lists[k]) \in Int /\ Scale(lists[k]) >= 1
    <2>1. CASE DOMAIN lists[k] = {}
      BY <2>1 DEF Scale
    <2>2. CASE DOMAIN lists[k] # {}
      <3>1. \E c \in DOMAIN lists[k] : lists[k][c] > 0
        BY <1>1, <2>2 DEF Comparable
      <3> QED
        BY <1>1, <3>1, BestOfPool
    <2> QED
      BY <2>1, <2>2
  <1>3. scale \in [1..n -> Int] /\ \A k \in 1..n : scale[k] = Scale(lists[k]) /\ scale[k] >= 1
    BY <1>2
  <1>4. ASSUME NEW k \in 1..n
        PROVE  /\ Weight(lists, k) \in Int /\ Weight(lists, k) >= 1
               /\ Scale(lists[k]) * Weight(lists, k) = Product(scale, n)
    <2>1. [j \in 1..n |-> IF j = k THEN 1 ELSE Scale(lists[j])] =
             [j \in 1..n |-> IF j = k THEN 1 ELSE scale[j]]
      OBVIOUS
    <2> HIDE DEF scale
    <2>2. LET w == Product([j \in 1..n |-> IF j = k THEN 1 ELSE scale[j]], n)
          IN  w \in Int /\ w >= 1 /\ Product(scale, n) = scale[k] * w
      BY <1>1, <1>3, ProductWithout
    <2>3. Weight(lists, k) = Product([j \in 1..n |-> IF j = k THEN 1 ELSE scale[j]], n)
      BY <2>1 DEF Weight, n
    <2> QED
      BY <1>3, <2>2, <2>3
  <1>5. ASSUME NEW c, NEW k \in 1..n
        PROVE  Share(lists, c, k) \in Int
    <2>1. CASE c \in DOMAIN lists[k]
      <3>1. lists[k] \in [DOMAIN lists[k] -> Int]
        BY <1>1, PoolsAssumption
      <3>2. lists[k][c] \in Int
        BY <2>1, <3>1
      <3> QED
        BY <2>1, <3>2 DEF Share
    <2>2. CASE c \notin DOMAIN lists[k]
      BY <2>2 DEF Share
    <2> QED
      BY <2>1, <2>2
  <1>6. ASSUME NEW c
        PROVE  Weighted(lists, c) \in [1..n -> Int]
    <2>1. \A k \in 1..n : Share(lists, c, k) * Weight(lists, k) \in Int
      BY <1>4, <1>5, Scaled
    <2> QED
      BY <2>1 DEF Weighted, n
  <1>7. ASSUME NEW c \in DOMAIN Fused(lists)
        PROVE  Fused(lists)[c] = Total(Weighted(lists, c), n)
    <2>1. Fused(lists)[c] = Total([k \in 1..n |-> Relative(lists, k, c)], n)
      BY <1>1 DEF Fused, n
    <2>2. ASSUME NEW k \in 1..n
          PROVE  Relative(lists, k, c) = Share(lists, c, k) * Weight(lists, k)
      <3> DEFINE others == [j \in DOMAIN lists |-> IF j = k THEN 1 ELSE Magnitude(Scale(lists[j]))]
                 sign == IF Scale(lists[k]) < 0 THEN -1 ELSE 1
      <3>1. sign = 1
        BY <1>2
      <3>2. \A j \in 1..n : Magnitude(Scale(lists[j])) = Scale(lists[j])
        BY <1>2 DEF Magnitude
      <3>3. others = [j \in 1..n |-> IF j = k THEN 1 ELSE Scale(lists[j])]
        BY <1>1, <3>2
      <3>4. Product(others, Len(lists)) = Weight(lists, k)
        BY <3>3 DEF Weight, n
      <3>5. Relative(lists, k, c) =
               IF c \in DOMAIN lists[k] THEN sign * lists[k][c] * Product(others, Len(lists)) ELSE 0
        BY DEF Relative
      <3> HIDE DEF others, sign
      <3>6. Relative(lists, k, c) =
               IF c \in DOMAIN lists[k] THEN 1 * lists[k][c] * Weight(lists, k) ELSE 0
        BY <3>1, <3>4, <3>5
      <3>7. c \in DOMAIN lists[k] => lists[k][c] \in Int /\ Share(lists, c, k) = lists[k][c]
        BY <1>5 DEF Share
      <3>8. CASE c \in DOMAIN lists[k]
        <4>1. 1 * lists[k][c] = lists[k][c]
          BY <3>7, <3>8
        <4> QED
          BY <3>6, <3>7, <3>8, <4>1
      <3>9. CASE c \notin DOMAIN lists[k]
        <4>1. Share(lists, c, k) = 0
          BY <3>9 DEF Share
        <4>2. Weight(lists, k) \in Int
          BY <1>4
        <4>3. 0 * Weight(lists, k) = 0
          BY <4>2
        <4> QED
          BY <3>6, <3>9, <4>1, <4>3
      <3> QED
        BY <3>8, <3>9
    <2>3. [k \in 1..n |-> Relative(lists, k, c)] = Weighted(lists, c)
      BY <2>2 DEF Weighted, n
    <2> QED
      BY <2>1, <2>3
  <1> QED
    BY <1>1, <1>2, <1>4, <1>5, <1>6, <1>7 DEF n

\* A chunk the lists agree on gets a larger score.
LEMMA ConsensusScores ==
  ASSUME NEW lists \in Seq(Pools), NEW c \in DOMAIN Fused(lists), NEW d \in DOMAIN Fused(lists),
         Comparable(lists), Dominates(lists, c, d) \/ Agreed(lists, c, d)
  PROVE  /\ Fused(lists)[c] \in Int /\ Fused(lists)[d] \in Int
         /\ Fused(lists)[d] < Fused(lists)[c]
  <1> DEFINE n == Len(lists)
             w(k) == Weight(lists, k)
             T == Product([j \in 1..n |-> Scale(lists[j])], n)
             share(x, k) == Share(lists, x, k)
  <1>1. /\ DOMAIN lists = 1..n /\ n \in Nat
        /\ \A k \in 1..n : w(k) \in Int /\ w(k) >= 1 /\ Scale(lists[k]) \in Int /\ Scale(lists[k]) * w(k) = T
        /\ \A x, k : k \in 1..n => share(x, k) \in Int
        /\ \A x : Weighted(lists, x) \in [1..n -> Int]
        /\ Fused(lists)[c] = Total(Weighted(lists, c), n)
        /\ Fused(lists)[d] = Total(Weighted(lists, d), n)
    BY FusedSums
  <1>2. \A x : \A k \in 1..n : Weighted(lists, x)[k] = share(x, k) * w(k)
    BY DEF Weighted
  <1>a. \A k \in 1..n : lists[k] \in Pools /\ (DOMAIN lists[k] # {} => \E x \in DOMAIN lists[k] : lists[k][x] > 0)
    BY <1>1, LenProperties DEF Comparable
  <1> HIDE DEF n, w, T, share
  <1>3. Fused(lists)[c] \in Int /\ Fused(lists)[d] \in Int
    <2>1. Total(Weighted(lists, c), n) \in Int
      <3>1. Weighted(lists, c) \in [1..n -> Int]
        BY <1>1
      <3>2. PICK s \in [0..n -> Int] : Total(Weighted(lists, c), n) = s[n]
        BY <1>1, <3>1, Totals
      <3> QED
        BY <1>1, <3>2
    <2>2. Total(Weighted(lists, d), n) \in Int
      <3>1. Weighted(lists, d) \in [1..n -> Int]
        BY <1>1
      <3>2. PICK s \in [0..n -> Int] : Total(Weighted(lists, d), n) = s[n]
        BY <1>1, <3>1, Totals
      <3> QED
        BY <1>1, <3>2
    <2> QED
      BY <1>1, <2>1, <2>2
  <1>4. ASSUME Dominates(lists, c, d)
        PROVE  Fused(lists)[d] < Fused(lists)[c]
    <2>1. /\ \A k \in 1..n : share(d, k) <= share(c, k)
          /\ \E k \in 1..n : share(d, k) < share(c, k)
      <3>1. /\ \A k \in 1..n : share(c, k) >= share(d, k)
            /\ \E k \in 1..n : share(c, k) > share(d, k)
        BY <1>1, <1>4 DEF Dominates, share
      <3> QED
        BY <1>1, <3>1
    <2>2. PICK k \in 1..n : share(d, k) < share(c, k)
      BY <2>1
    <2>3. ASSUME NEW i \in 1..n
          PROVE  Weighted(lists, d)[i] <= Weighted(lists, c)[i]
      <3>1. share(d, i) \in Int /\ share(c, i) \in Int /\ w(i) \in Int /\ w(i) >= 1
        BY <1>1
      <3>2. share(d, i) * w(i) <= share(c, i) * w(i)
        BY <2>1, <3>1, Scaled
      <3> QED
        BY <1>2, <3>2
    <2>4. Weighted(lists, d)[k] < Weighted(lists, c)[k]
      <3>1. share(d, k) \in Int /\ share(c, k) \in Int /\ w(k) \in Int /\ w(k) >= 1
        BY <1>1
      <3>2. share(d, k) * w(k) < share(c, k) * w(k)
        BY <2>2, <3>1, Scaled
      <3> QED
        BY <1>2, <3>2
    <2>5. Weighted(lists, d) \in [1..n -> Int] /\ Weighted(lists, c) \in [1..n -> Int]
      BY <1>1
    <2> QED
      BY <1>1, <2>3, <2>4, <2>5, TotalGrows
  <1>5. ASSUME Agreed(lists, c, d)
        PROVE  Fused(lists)[d] < Fused(lists)[c]
    <2>1. PICK k2 \in 1..n, k \in 1..n :
                k2 # k /\ c \in DOMAIN lists[k] /\ share(c, k) = Best(lists[k]) /\ share(c, k2) > 0
      BY <1>1, <1>5 DEF Agreed, Recalling, share
    <2>2. \A i \in 1..n : share(c, i) >= 0
      BY <1>1, <1>5 DEF Agreed, share
    <2>3. PICK m \in 1..n : Recalling(lists, d) = {m}
      <3>1. Recalling(lists, d) \in SUBSET (1..n) /\ IsFiniteSet(1..n)
        BY <1>1, FS_Interval DEF Recalling
      <3>2. IsFiniteSet(Recalling(lists, d)) /\ Cardinality(Recalling(lists, d)) = 1
        BY <1>5, <3>1, FS_Subset DEF Agreed
      <3>3. \E x : Recalling(lists, d) = {x}
        BY <3>2, FS_Singleton
      <3> QED
        BY <3>1, <3>3
    <2>4. T \in Int /\ share(c, k) * w(k) = T
      <3>1. lists[k] \in Pools /\ \E x \in DOMAIN lists[k] : lists[k][x] > 0
        BY <1>a, <2>1
      <3>2. Scale(lists[k]) = Best(lists[k])
        BY <3>1, BestOfPool
      <3> QED
        BY <1>1, <2>1, <3>2
    <2>5. share(d, m) * w(m) <= T
      <3>1. d \in DOMAIN lists[m] /\ lists[m] \in Pools /\ \E x \in DOMAIN lists[m] : lists[m][x] > 0
        BY <1>a, <2>3 DEF Recalling
      <3>2. share(d, m) <= Scale(lists[m])
        BY <3>1, BestOfPool DEF Share, share
      <3>3. share(d, m) * w(m) <= Scale(lists[m]) * w(m)
        BY <1>1, <3>2, Scaled
      <3> QED
        BY <1>1, <3>3
    <2>6. Fused(lists)[d] = share(d, m) * w(m)
      <3> DEFINE x == share(d, m) * w(m)
                 f == [i \in 1..n |-> IF i = m THEN x ELSE 0]
      <3>1. \A i \in 1..n : i # m => share(d, i) = 0
        BY <1>1, <2>3 DEF Recalling, Share, share
      <3>2. \A i \in 1..n : Weighted(lists, d)[i] = f[i]
        <4>1. \A i \in 1..n : i # m => share(d, i) * w(i) = 0
          BY <1>1, <3>1
        <4> QED
          BY <1>2, <4>1
      <3>3. Weighted(lists, d) = f
        BY <1>1, <3>2
      <3>4. x \in Int
        BY <1>1, Scaled
      <3> HIDE DEF x
      <3>5. Total(f, n) = x
        BY <1>1, <3>4, TotalOfOne
      <3> QED
        BY <1>1, <3>3, <3>5 DEF x
    <2>7. T < Fused(lists)[c]
      <3> DEFINE f == [i \in 1..n |-> IF i = k THEN T ELSE 0]
                 g == Weighted(lists, c)
      <3>1. f \in [1..n -> Int] /\ g \in [1..n -> Int]
        BY <1>1, <2>4
      <3>2. \A i \in 1..n : g[i] \in Int /\ g[i] >= 0
        <4>1. \A i \in 1..n : 0 * w(i) <= share(c, i) * w(i)
          <5>1. 0 \in Int
            OBVIOUS
          <5> QED
            BY <1>1, <2>2, <5>1, Scaled
        <4>2. \A i \in 1..n : 0 * w(i) = 0
          BY <1>1
        <4>3. \A i \in 1..n : share(c, i) * w(i) \in Int
          BY <1>1, Scaled
        <4>4. \A i \in 1..n : share(c, i) * w(i) >= 0
          BY <4>1, <4>2, <4>3
        <4> QED
          BY <1>2, <3>1, <4>4
      <3>3. g[k2] > 0
        <4>1. share(c, k2) >= 1
          <5>1. k2 \in 1..n /\ share(c, k2) > 0
            BY <2>1
          <5>2. share(c, k2) \in Int
            BY <1>1, <5>1
          <5> HIDE DEF share
          <5> QED
            BY <5>1, <5>2
        <4>2. share(c, k2) * w(k2) >= 1
          BY <1>1, <4>1, Positive
        <4> QED
          BY <1>1, <1>2, <4>2
      <3>4. g[k] = T
        BY <1>2, <2>4
      <3> HIDE DEF g
      <3>5. \A i \in 1..n : f[i] <= g[i]
        BY <2>4, <3>2, <3>4
      <3>6. f[k2] < g[k2]
        BY <2>1, <3>3
      <3> HIDE DEF f
      <3>7. Total(f, n) < Total(g, n)
        BY <1>1, <3>1, <3>5, <3>6, TotalGrows
      <3>8. Total(f, n) = T
        BY <1>1, <2>4, TotalOfOne DEF f
      <3> QED
        BY <1>1, <3>7, <3>8 DEF g
    <2>8. share(d, m) * w(m) \in Int
      BY <1>1, Scaled
    <2> QED
      BY <1>3, <2>4, <2>5, <2>6, <2>7, <2>8
  <1> QED
    BY <1>3, <1>4, <1>5

\* The chunks the lists recall are finitely many.
LEMMA RecalledFinite ==
  ASSUME NEW lists \in Seq(Pools)
  PROVE  IsFiniteSet(DOMAIN Fused(lists))
  <1> DEFINE n == Len(lists)
             f == [k \in 1..n |-> DOMAIN lists[k]]
             T == {DOMAIN lists[k] : k \in DOMAIN lists}
  <1>1. DOMAIN lists = 1..n /\ n \in Nat /\ \A k \in 1..n : lists[k] \in Pools
    BY LenProperties
  <1>2. f \in Surjection(1..n, T)
    <2>1. f \in [1..n -> T]
      BY <1>1
    <2>2. \A t \in T : \E k \in 1..n : f[k] = t
      BY <1>1
    <2> HIDE DEF f, T
    <2> QED
      BY <2>1, <2>2 DEF Surjection
  <1>3. IsFiniteSet(1..n)
    BY <1>1, FS_Interval
  <1>4. \A t \in T : IsFiniteSet(t)
    BY <1>1, PoolsAssumption
  <1>5. DOMAIN Fused(lists) = UNION T
    BY DEF Fused
  <1> HIDE DEF n, f, T
  <1>6. IsFiniteSet(T)
    BY <1>2, <1>3, FS_Surjection
  <1> QED
    BY <1>4, <1>5, <1>6, FS_UNION

\* A sort has each chunk once, and one with a larger score earlier.
LEMMA SortedByScore ==
  ASSUME NEW scores, IsFiniteSet(DOMAIN scores), NEW s \in Sorted(scores)
  PROVE  /\ Cardinality(DOMAIN scores) \in Nat
         /\ s \in [1..Cardinality(DOMAIN scores) -> DOMAIN scores]
         /\ \A c \in DOMAIN scores : \E i \in 1..Cardinality(DOMAIN scores) : s[i] = c
         /\ \A i, j \in 1..Cardinality(DOMAIN scores) :
               /\ scores[s[i]] \in Int /\ scores[s[j]] \in Int
               /\ scores[s[i]] < scores[s[j]]
               => j < i
  <1> DEFINE C == DOMAIN scores
             n == Cardinality(C)
  <1>1. n \in Nat
    BY FS_CardinalityType
  <1>2. /\ s \in [1..n -> C]
        /\ \A i, j \in 1..n : i # j => s[i] # s[j]
        /\ \A i, j \in 1..n : i < j => scores[s[i]] >= scores[s[j]]
    BY DEF Sorted, SetToSeqs
  <1>3. \A c \in C : \E i \in 1..n : s[i] = c
    <2>1. s \in Injection(1..n, C)
      BY <1>2 DEF Injection, IsInjective
    <2>2. IsFiniteSet(1..n) /\ Cardinality(1..n) = n
      BY <1>1, FS_Interval
    <2>3. s \in Surjection(1..n, C)
      BY <2>1, <2>2, FS_Injection
    <2> QED
      BY <2>3 DEF Surjection
  <1>4. ASSUME NEW i \in 1..n, NEW j \in 1..n, scores[s[i]] \in Int, scores[s[j]] \in Int,
               scores[s[i]] < scores[s[j]]
        PROVE  j < i
    <2>1. ~(i < j)
      <3>1. i < j => scores[s[i]] >= scores[s[j]]
        BY <1>2
      <3> QED
        BY <1>4, <3>1
    <2>2. i # j
      BY <1>4
    <2> QED
      BY <2>1, <2>2
  <1> QED
    BY <1>1, <1>2, <1>3, <1>4

LEMMA LesserOfTwo ==
  ASSUME NEW a \in Int, NEW b \in Int
  PROVE  Min({a, b}) = IF a <= b THEN a ELSE b
  BY DEF Min

\* The results are of distinct sources, and what is before one of them in the
\* sort has a result of its source before it.
FirstOfSources(s, n, r) ==
    /\ \A i, j \in DOMAIN r : i # j => Source[r[i]] # Source[r[j]]
    /\ \A i \in DOMAIN r : \E x \in 1..n :
          /\ r[i] = s[x]
          /\ \A y \in 1..(x - 1) : \E j \in 1..(i - 1) : Source[r[j]] = Source[s[y]]

\* What _dedup_by_source keeps of a sort.
LEMMA DistinctSources ==
  ASSUME NEW n \in Nat, NEW C, NEW s \in [1..n -> C], NEW top_k \in Int
  PROVE  FirstOfSources(s, n, Distinct(s, top_k))
  <1> DEFINE new(x) == \A y \in 1..(x - 1) : Source[s[y]] # Source[s[x]]
             first == {x \in 1..n : new(x)}
             m == Cardinality(first)
             A == Ascending(first)
             p == Min({m, Max({top_k, 1})})
             r == Distinct(s, top_k)
  <1>1. IsFiniteSet(first) /\ first \in SUBSET Int
    <2>1. IsFiniteSet(1..n) /\ first \in SUBSET (1..n) /\ 1..n \in SUBSET Int
      BY FS_Interval
    <2> HIDE DEF first
    <2>2. IsFiniteSet(first)
      BY <2>1, FS_Subset
    <2> QED
      BY <2>1, <2>2
  <1> HIDE DEF new
  <1>2. /\ m \in Nat /\ A \in [1..m -> first]
        /\ \A j, k \in 1..m : j < k => A[j] < A[k]
        /\ \A x \in first : \E k \in 1..m : A[k] = x
    <2> HIDE DEF first
    <2> QED
      BY <1>1, AscendingOrder
  <1>3. r = [k \in 1..p |-> s[A[k]]]
    <2>1. first = {x \in DOMAIN s : \A y \in 1..(x - 1) : Source[s[y]] # Source[s[x]]}
      BY DEF new
    <2> HIDE DEF first
    <2> QED
      BY <2>1 DEF Distinct
  <1> HIDE DEF A, m, r
  <1>4. p \in Nat /\ p <= m
    <2> DEFINE q == Max({top_k, 1})
    <2>1. q \in Int /\ q >= 1
      BY DEF Max
    <2> HIDE DEF q
    <2>2. Min({m, q}) \in Nat /\ Min({m, q}) <= m
      <3>1. m \in Int /\ m \in Nat
        BY <1>2
      <3>2. Min({m, q}) = IF m <= q THEN m ELSE q
        BY <2>1, <3>1, LesserOfTwo
      <3> QED
        BY <2>1, <3>1, <3>2
    <2> QED
      BY <2>2 DEF q
  <1> HIDE DEF p
  <1>5. \A i \in 1..p : i \in 1..m /\ A[i] \in first /\ A[i] \in 1..n /\ r[i] = s[A[i]]
    <2>1. \A i \in 1..p : i \in 1..m
      BY <1>2, <1>4
    <2> QED
      BY <1>2, <1>3, <2>1
  <1>6. ASSUME NEW i \in 1..p, NEW j \in 1..p, i < j
        PROVE  Source[r[i]] # Source[r[j]]
    <2>1. A[i] \in 1..n /\ A[j] \in first /\ A[j] \in 1..n /\ A[i] < A[j]
      BY <1>2, <1>5, <1>6
    <2>2. A[i] \in 1..(A[j] - 1)
      BY <2>1
    <2>3. new(A[j])
      BY <2>1
    <2>4. Source[s[A[i]]] # Source[s[A[j]]]
      BY <2>2, <2>3 DEF new
    <2> QED
      BY <1>5, <2>4
  <1>7. ASSUME NEW i \in 1..p, NEW y \in 1..(A[i] - 1)
        PROVE  \E j \in 1..(i - 1) : Source[r[j]] = Source[s[y]]
    <2>1. A[i] \in 1..n
      BY <1>5
    <2>2. y \in 1..n /\ y < A[i]
      BY <2>1
    <2> DEFINE same == {x \in 1..n : Source[s[x]] = Source[s[y]]}
               z == Min(same)
    <2>3. z \in same /\ \A x \in same : z <= x
      <3>1. same \in SUBSET Nat /\ same # {}
        BY <2>2
      <3> HIDE DEF same
      <3> QED
        BY <3>1, LeastExists
    <2> HIDE DEF z
    <2>4. z \in first
      <3>1. ASSUME NEW x \in 1..(z - 1)
            PROVE  Source[s[x]] # Source[s[z]]
        <4>1. x \in 1..n /\ ~(z <= x)
          BY <2>3
        <4> QED
          BY <2>3, <4>1
      <3> QED
        BY <2>3, <3>1 DEF new
    <2>5. z <= y /\ Source[s[z]] = Source[s[y]]
      BY <2>2, <2>3
    <2>6. PICK j \in 1..m : A[j] = z
      BY <1>2, <2>4
    <2>7. j < i
      <3>1. A[j] < A[i]
        <4>1. z \in Int
          BY <2>3
        <4> HIDE DEF same
        <4> QED
          BY <2>1, <2>2, <2>5, <2>6, <4>1
      <3>2. j # i /\ ~(i < j)
        <4>1. i \in 1..m /\ (i < j => A[i] < A[j])
          BY <1>2, <1>5, <2>6
        <4>2. A[j] \in Int
          BY <2>3, <2>6
        <4> HIDE DEF same
        <4> QED
          BY <2>1, <3>1, <4>1, <4>2
      <3> QED
        BY <2>6, <3>2
    <2>8. j \in 1..p /\ j \in 1..(i - 1)
      BY <1>4, <2>6, <2>7
    <2>9. r[j] = s[z]
      BY <1>5, <2>6, <2>8
    <2> QED
      BY <2>5, <2>8, <2>9
  <1>8. DOMAIN r = 1..p
    BY <1>3
  <1>9. \A i, j \in 1..p : i # j => Source[r[i]] # Source[r[j]]
    <2>1. \A i, j \in 1..p : i # j => i < j \/ j < i
      BY <1>4
    <2> QED
      BY <1>6, <2>1
  <1>10. \A i \in 1..p : \E x \in 1..n :
            r[i] = s[x] /\ \A y \in 1..(x - 1) : \E j \in 1..(i - 1) : Source[r[j]] = Source[s[y]]
    BY <1>5, <1>7
  <1> QED
    BY <1>8, <1>9, <1>10 DEF FirstOfSources, r

\* Whatever the pools, the sort and the number of results asked for.
LEMMA ConsensusFound ==
  ASSUME NEW lists \in Seq(Pools), NEW top_k \in Int
  PROVE  ConsensusWins(lists, top_k)
  <1> DEFINE F == Fused(lists)
             n == Cardinality(DOMAIN F)
  <1> SUFFICES ASSUME NEW r \in Results(lists, top_k)
               PROVE  /\ \A i, j \in DOMAIN r : i # j => Source[r[i]] # Source[r[j]]
                      /\ Comparable(lists) => \A i \in DOMAIN r : \A c \in DOMAIN F :
                            Dominates(lists, c, r[i]) \/ Agreed(lists, c, r[i]) =>
                                \E j \in 1..(i - 1) : Source[r[j]] = Source[c]
    BY DEF ConsensusWins
  <1>1. PICK s \in Sorted(F) : r = Distinct(s, top_k)
    BY DEF Results
  <1>2. IsFiniteSet(DOMAIN F)
    BY RecalledFinite
  <1> HIDE DEF F
  <1>3. /\ n \in Nat /\ s \in [1..n -> DOMAIN F]
        /\ \A c \in DOMAIN F : \E i \in 1..n : s[i] = c
        /\ \A i, j \in 1..n : F[s[i]] \in Int /\ F[s[j]] \in Int /\ F[s[i]] < F[s[j]] => j < i
    BY <1>1, <1>2, SortedByScore
  <1> HIDE DEF n
  <1>4. /\ \A i, j \in DOMAIN r : i # j => Source[r[i]] # Source[r[j]]
        /\ \A i \in DOMAIN r : \E x \in 1..n :
              /\ r[i] = s[x]
              /\ \A y \in 1..(x - 1) : \E j \in 1..(i - 1) : Source[r[j]] = Source[s[y]]
    <2>1. n \in Nat /\ s \in [1..n -> DOMAIN F]
      BY <1>3
    <2>2. FirstOfSources(s, n, Distinct(s, top_k))
      BY <2>1, DistinctSources
    <2>3. FirstOfSources(s, n, r)
      BY <1>1, <2>2
    <2> QED
      BY <2>3 DEF FirstOfSources
  <1>5. ASSUME Comparable(lists), NEW i \in DOMAIN r, NEW c \in DOMAIN F,
               Dominates(lists, c, r[i]) \/ Agreed(lists, c, r[i])
        PROVE  \E j \in 1..(i - 1) : Source[r[j]] = Source[c]
    <2>1. PICK x \in 1..n : /\ r[i] = s[x]
                            /\ \A y \in 1..(x - 1) :
                                  \E j \in 1..(i - 1) : Source[r[j]] = Source[s[y]]
      BY <1>4
    <2>2. PICK y \in 1..n : s[y] = c
      BY <1>3
    <2>3. r[i] \in DOMAIN F
      BY <1>3, <2>1
    <2>4. F[c] \in Int /\ F[r[i]] \in Int /\ F[r[i]] < F[c]
      BY <1>5, <2>3, ConsensusScores DEF F
    <2>5. y < x
      BY <1>3, <2>1, <2>2, <2>4
    <2>6. y \in 1..(x - 1)
      BY <1>3, <2>1, <2>2, <2>5
    <2> QED
      BY <2>1, <2>2, <2>6
  <1> QED
    BY <1>4, <1>5

-----------------------------------------------------------------------------
(* The variants of a query *)

LEMMA PickedText ==
  ASSUME NEW T, NEW s \in Seq(T), NEW S \in SUBSET (1..Len(s))
  PROVE  /\ Picked(s, S) \in Seq(T) /\ Len(Picked(s, S)) = Cardinality(S)
         /\ Cardinality(S) \in Nat /\ Cardinality(S) <= Len(s)
         /\ Ascending(S) \in [1..Cardinality(S) -> S]
         /\ \A j, k \in 1..Cardinality(S) : j < k => Ascending(S)[j] < Ascending(S)[k]
         /\ \A i \in S : \E k \in 1..Cardinality(S) : Ascending(S)[k] = i
         /\ \A k \in 1..Cardinality(S) : Picked(s, S)[k] = s[Ascending(S)[k]]
  <1> DEFINE n == Cardinality(S)
             A == Ascending(S)
             p == Picked(s, S)
  <1>1. Len(s) \in Nat /\ \A i \in 1..Len(s) : s[i] \in T
    BY LenProperties
  <1>2. IsFiniteSet(1..Len(s)) /\ Cardinality(1..Len(s)) = Len(s) /\ S \in SUBSET Int
    <2>1. IsFiniteSet(1..Len(s)) /\ Cardinality(1..Len(s)) = Len(s)
      <3> DEFINE m == Len(s)
      <3>1. m \in Nat
        BY <1>1
      <3> HIDE DEF m
      <3>2. IsFiniteSet(1..m) /\ Cardinality(1..m) = m
        BY <3>1, FS_Interval
      <3> QED
        BY <3>2 DEF m
    <2>2. 1..Len(s) \subseteq Int
      OBVIOUS
    <2> QED
      BY <2>1, <2>2
  <1>3. IsFiniteSet(S) /\ n \in Nat /\ n <= Len(s)
    <2>1. IsFiniteSet(S) /\ Cardinality(S) <= Cardinality(1..Len(s))
      BY <1>2, FS_Subset
    <2> QED
      BY <1>2, <2>1, FS_CardinalityType
  <1>4. /\ A \in [1..n -> S]
        /\ \A j, k \in 1..n : j < k => A[j] < A[k]
        /\ \A i \in S : \E k \in 1..n : A[k] = i
    BY <1>2, <1>3, AscendingOrder
  <1> HIDE DEF n, A
  <1>5. p = [k \in 1..n |-> s[A[k]]]
    BY <1>4 DEF Picked, A
  <1>6. p \in [1..n -> T]
    BY <1>1, <1>4, <1>5
  <1>7. p \in Seq(T) /\ DOMAIN p = 1..n
    BY <1>3, <1>6, SeqDef
  <1>8. Len(p) = n /\ \A k \in 1..n : p[k] = s[A[k]]
    <2>1. Len(p) \in Nat /\ DOMAIN p = 1..Len(p)
      BY <1>7, LenProperties
    <2> HIDE DEF p
    <2>2. Len(p) = n
      BY <1>3, <1>7, <2>1
    <2> QED
      BY <1>5, <2>2
  <1> QED
    BY <1>3, <1>4, <1>7, <1>8 DEF n, A

\* The positions Tidy keeps.
Kept(q) ==
    Content(q) \union {i \in DOMAIN q : i - 1 \in Content(q) /\ \E j \in Content(q) : j > i}

LEMMA TidyText ==
  ASSUME NEW T, NEW q \in Seq(T)
  PROVE  /\ Tidy(q) \in Seq(T) /\ Tidy(q) = Picked(q, Kept(q))
         /\ Kept(q) \in SUBSET (1..Len(q)) /\ ToSet(Tidy(q)) \subseteq ToSet(q)
  <1>1. DOMAIN q = 1..Len(q) /\ Len(q) \in Nat
    BY LenProperties
  <1>2. Kept(q) \in SUBSET (1..Len(q))
    BY <1>1 DEF Kept, Content
  <1>3. Tidy(q) = Picked(q, Kept(q))
    BY DEF Tidy, Kept
  <1> DEFINE n == Cardinality(Kept(q))
  <1>4. /\ Picked(q, Kept(q)) \in Seq(T) /\ Len(Picked(q, Kept(q))) = n
        /\ Ascending(Kept(q)) \in [1..n -> Kept(q)]
        /\ \A k \in 1..n : Picked(q, Kept(q))[k] = q[Ascending(Kept(q))[k]]
    BY <1>2, PickedText
  <1> HIDE DEF n
  <1>5. ASSUME NEW c \in ToSet(Tidy(q))
        PROVE  c \in ToSet(q)
    <2>1. PICK k \in DOMAIN Tidy(q) : Tidy(q)[k] = c
      BY DEF ToSet
    <2>2. k \in 1..n
      BY <1>3, <1>4, <2>1, LenProperties
    <2>3. c = q[Ascending(Kept(q))[k]] /\ Ascending(Kept(q))[k] \in 1..Len(q)
      BY <1>2, <1>3, <1>4, <2>1, <2>2
    <2> QED
      BY <1>1, <2>3 DEF ToSet
  <1> QED
    BY <1>2, <1>3, <1>4, <1>5

\* A text that is tidy is not changed by another pass.
LEMMA TidyTwice ==
  ASSUME NEW T, NEW q \in Seq(T)
  PROVE  Tidy(Tidy(q)) = Tidy(q)
  <1> DEFINE S == Kept(q)
             n == Cardinality(S)
             A == Ascending(S)
             t == Tidy(q)
  <1>1. t \in Seq(T) /\ t = Picked(q, S) /\ S \in SUBSET (1..Len(q)) /\ DOMAIN q = 1..Len(q)
    BY TidyText, LenProperties
  <1>2. /\ Len(t) = n /\ n \in Nat
        /\ A \in [1..n -> S]
        /\ \A j, k \in 1..n : j < k => A[j] < A[k]
        /\ \A i \in S : \E k \in 1..n : A[k] = i
        /\ \A k \in 1..n : t[k] = q[A[k]]
    BY <1>1, PickedText
  <1>3. DOMAIN t = 1..n
    BY <1>1, <1>2, LenProperties
  <1>4. \A i \in S : q[i] = " " => i - 1 \in Content(q) /\ \E j \in Content(q) : j > i
    BY DEF Kept, Content
  <1>5. Content(q) \subseteq S
    BY DEF Kept
  <1> HIDE DEF S, n, A, t
  <1>b. \A i \in 1..n : A[i] \in S /\ A[i] \in Int
    <2>1. 1..Len(q) \subseteq Int
      OBVIOUS
    <2>2. \A i \in S : i \in Int
      BY <1>1, <2>1
    <2> QED
      BY <1>2, <2>2
  <1>6. ASSUME NEW k \in 1..n, t[k] = " "
        PROVE  k - 1 \in Content(t) /\ \E l \in Content(t) : l > k
    <2>1. A[k] \in S /\ A[k] \in Int /\ q[A[k]] = " "
      BY <1>2, <1>6, <1>b
    <2>2. A[k] - 1 \in Content(q) /\ \E j \in Content(q) : j > A[k]
      BY <1>4, <2>1
    <2>3. PICK j \in 1..n : A[j] = A[k] - 1
      BY <1>2, <1>5, <2>2
    <2>4. PICK l \in 1..n : A[l] \in Content(q) /\ A[l] > A[k]
      <3>1. PICK i \in Content(q) : i > A[k]
        BY <2>2
      <3>2. PICK l \in 1..n : A[l] = i
        BY <1>2, <1>5, <3>1
      <3> QED
        BY <3>1, <3>2
    <2>5. \A i \in 1..n : A[i] \in Int
      BY <1>b
    <2>6. j = k - 1
      <3>1. j < k
        <4>1. k < j => A[k] < A[j]
          BY <1>2
        <4>2. j # k /\ ~(A[k] < A[j])
          <5>1. \A x \in Int : x - 1 # x /\ ~(x < x - 1)
            OBVIOUS
          <5>2. A[j] # A[k] /\ ~(A[k] < A[j])
            BY <2>1, <2>3, <5>1
          <5> QED
            BY <5>2
        <4> QED
          BY <4>1, <4>2
      <3>2. ~(j < k - 1)
        <4>1. ASSUME j < k - 1
              PROVE  FALSE
          <5>1. k - 1 \in 1..n /\ k - 1 < k
            BY <1>2, <4>1
          <5>2. A[j] < A[k - 1] /\ A[k - 1] < A[k] /\ A[k - 1] \in Int
            BY <1>2, <2>5, <4>1, <5>1
          <5>3. \A x, y \in Int : ~(x - 1 < y /\ y < x)
            OBVIOUS
          <5>4. A[k] - 1 < A[k - 1]
            BY <2>3, <5>2
          <5> QED
            BY <2>1, <5>2, <5>3, <5>4
        <4> QED
          BY <4>1
      <3> QED
        BY <3>1, <3>2
    <2>7. j \in Content(t)
      <3>1. t[j] = q[A[j]] /\ q[A[j]] # " "
        BY <1>2, <2>2, <2>3 DEF Content
      <3> QED
        BY <1>3, <3>1 DEF Content
    <2>8. l \in Content(t) /\ l > k
      <3>1. t[l] = q[A[l]] /\ q[A[l]] # " "
        BY <1>2, <2>4 DEF Content
      <3>2. l > k
        <4>1. l < k => A[l] < A[k]
          BY <1>2
        <4>2. l # k /\ ~(A[l] < A[k])
          <5>1. \A x, y \in Int : x > y => x # y /\ ~(x < y)
            OBVIOUS
          <5>2. A[l] \in Int /\ A[k] \in Int /\ A[l] > A[k]
            BY <2>1, <2>4, <2>5
          <5>3. A[l] # A[k] /\ ~(A[l] < A[k])
            BY <5>1, <5>2
          <5> QED
            BY <5>3
        <4> QED
          BY <4>1, <4>2
      <3> QED
        BY <1>3, <3>1, <3>2 DEF Content
    <2> QED
      BY <2>6, <2>7, <2>8
  <1>7. Kept(t) = 1..n
    BY <1>3, <1>6 DEF Kept, Content
  <1>8. Ascending(1..n) = [k \in 1..n |-> k]
    BY <1>2, AscendingInterval
  <1>9. Tidy(t) = [k \in 1..n |-> t[k]]
    <2>1. Tidy(t) = Picked(t, 1..n)
      BY <1>1, <1>7, TidyText
    <2> QED
      BY <1>8, <2>1 DEF Picked
  <1>10. t = [k \in 1..n |-> t[k]]
    BY <1>1, <1>3, LenProperties
  <1> QED
    BY <1>9, <1>10 DEF t

\* Sequences of no, one and two elements.
LEMMA NoneOf ==
  ASSUME NEW X
  PROVE  <<>> \in Seq(X) /\ Len(<<>>) = 0
  OBVIOUS

LEMMA OneOf ==
  ASSUME NEW X, NEW x \in X
  PROVE  <<x>> \in Seq(X) /\ Len(<<x>>) = 1 /\ <<x>>[1] = x
  OBVIOUS

LEMMA TwoOf ==
  ASSUME NEW X, NEW x \in X, NEW y \in X
  PROVE  <<x, y>> \in Seq(X)
  OBVIOUS


\* A part of a sequence.
LEMMA PartOf ==
  ASSUME NEW T, NEW s \in Seq(T), NEW a \in 1..Len(s), NEW b \in a..Len(s)
  PROVE  SubSeq(s, a, b) \in Seq(T)
  <1>1. Len(s) \in Nat /\ \A i \in 1..Len(s) : s[i] \in T
    BY LenProperties
  <1>2. \A i \in a..b : s[i] \in T
    BY <1>1
  <1> QED
    BY <1>2, SubSeqProperties

LEMMA PiecesText ==
  ASSUME NEW T, NEW q \in Seq(T), NEW cuts
  PROVE  Pieces(q, cuts) \in Seq(Seq(T)) /\ Len(Pieces(q, cuts)) <= Len(q)
  <1> DEFINE cut(i) == i \notin DOMAIN q \/ q[i] \in cuts
             S == {i \in DOMAIN q : cut(i - 1) /\ ~cut(i)}
             n == Cardinality(S)
             A == Ascending(S)
             stop(i) == Min({j \in i..Len(q) : cut(j + 1)})
             p == Pieces(q, cuts)
  <1>1. Len(q) \in Nat /\ DOMAIN q = 1..Len(q)
    BY LenProperties
  <1>2. S \in SUBSET (1..Len(q))
    BY <1>1
  <1>3. ASSUME NEW i \in 1..Len(q)
        PROVE  stop(i) \in i..Len(q)
    <2> DEFINE stops == {j \in i..Len(q) : cut(j + 1)}
    <2>1. Len(q) + 1 \notin DOMAIN q /\ Len(q) \in i..Len(q)
      BY <1>1
    <2>2. stops \in SUBSET Nat /\ Len(q) \in stops
      BY <1>1, <2>1
    <2>3. stops \subseteq i..Len(q)
      OBVIOUS
    <2> HIDE DEF stops
    <2>4. Min(stops) \in stops
      BY <2>2, LeastExists
    <2> QED
      BY <2>3, <2>4 DEF stops
  <1>4. n \in Nat /\ n <= Len(q) /\ A \in [1..n -> S]
    <2> HIDE DEF S
    <2> QED
      BY <1>2, PickedText
  <1>5. p = [k \in 1..n |-> SubSeq(q, A[k], stop(A[k]))]
    <2>1. p = [k \in DOMAIN A |-> SubSeq(q, A[k], stop(A[k]))]
      BY DEF Pieces
    <2>2. DOMAIN A = 1..n
      BY <1>4
    <2> QED
      BY <2>1, <2>2
  <1> HIDE DEF stop, A, S, n
  <1>6. ASSUME NEW k \in 1..n
        PROVE  SubSeq(q, A[k], stop(A[k])) \in Seq(T)
    <2> DEFINE a == A[k]
               b == stop(a)
    <2>1. a \in 1..Len(q)
      BY <1>2, <1>4
    <2>2. b \in a..Len(q)
      BY <1>3, <2>1
    <2> HIDE DEF a, b
    <2>3. SubSeq(q, a, b) \in Seq(T)
      BY <2>1, <2>2, PartOf
    <2> QED
      BY <2>3 DEF a, b
  <1>7. p \in [1..n -> Seq(T)]
    BY <1>5, <1>6
  <1> HIDE DEF p
  <1>8. p \in Seq(Seq(T)) /\ Len(p) = n
    <2>1. p \in Seq(Seq(T)) /\ DOMAIN p = 1..n
      BY <1>4, <1>7, SeqDef
    <2>2. Len(p) \in Nat /\ DOMAIN p = 1..Len(p)
      BY <2>1, LenProperties
    <2> QED
      BY <1>4, <2>1, <2>2
  <1> QED
    BY <1>4, <1>8 DEF p

\* What is put behind a sequence leaves its first element there.
LEMMA ConcatFront ==
  ASSUME NEW T, NEW s \in Seq(T), NEW t \in Seq(T), Len(s) >= 1
  PROVE  s \o t \in Seq(T) /\ Len(s \o t) = Len(s) + Len(t) /\ (s \o t)[1] = s[1]
  <1>1. Len(s) \in Nat /\ Len(t) \in Nat
    BY LenProperties
  <1>2. 1 \in 1..(Len(s) + Len(t)) /\ 1 <= Len(s)
    BY <1>1
  <1> QED
    BY <1>2, ConcatProperties

\* A text whose words are parted by blanks.
IsQuery(T, q) == " " \in T /\ q \in Seq(T)

\* What is asked for is made of the query, which comes first; of less than two
\* characters and no clauses there is nothing else.
LEMMA AskedTexts ==
  ASSUME NEW T, NEW q, IsQuery(T, q)
  PROVE  /\ Asked(q) \in Seq(Seq(T)) /\ Len(Asked(q)) \in Nat /\ Len(Asked(q)) >= 1
         /\ Asked(q)[1] = q
         /\ Len(q) < 2 /\ "," \notin ToSet(q) => Len(Asked(q)) = 1
  <1> DEFINE X == Seq(T)
             words == Pieces(q, {" "})
             n == Len(words)
             tail == IF n >= 3 THEN <<words[n - 1] \o <<" ">> \o words[n], words[n]>> ELSE <<>>
             clauses == IF "," \in ToSet(q) THEN Pieces(q, {","}) ELSE <<>>
             compact == IF n >= 3 THEN <<Picked(q, Content(q))>> ELSE <<>>
             m == Len(q)
  <1>a. " " \in T /\ q \in X
    BY DEF IsQuery
  <1>1. words \in Seq(X)
    BY <1>a, PiecesText
  <1>b. n <= m /\ m \in Nat
    BY <1>a, PiecesText, LenProperties
  <1>2. q \in X
    BY <1>a
  <1>3. ASSUME NEW r \in X, NEW s \in X
        PROVE  r \o <<" ">> \o s \in X
    <2>1. <<" ">> \in Seq(T)
      BY <1>a, OneOf
    <2>2. r \o <<" ">> \in Seq(T)
      BY <2>1, ConcatProperties
    <2> QED
      BY <2>2, ConcatProperties
  <1>4. Picked(q, Content(q)) \in X
    <2>1. DOMAIN q = 1..Len(q) /\ Content(q) \in SUBSET (1..Len(q))
      BY <1>a, LenProperties DEF Content
    <2> QED
      BY <1>a, <2>1, PickedText
  <1>5. Pieces(q, {","}) \in Seq(X)
    BY <1>a, PiecesText
  <1>6. Asked(q) = <<q>> \o tail \o clauses \o compact
    BY DEF Asked
  <1> HIDE DEF words, m, X
  <1>7. n \in Nat /\ \A i \in 1..n : words[i] \in X
    BY <1>1, LenProperties
  <1> HIDE DEF n
  <1>8. tail \in Seq(X) /\ (n < 3 => tail = <<>>)
    <2>1. ASSUME n >= 3
          PROVE  tail \in Seq(X)
      <3>1. n - 1 \in 1..n /\ n \in 1..n
        BY <1>7, <2>1
      <3> DEFINE x == words[n - 1] \o <<" ">> \o words[n]
                 y == words[n]
      <3>2. x \in X /\ y \in X
        BY <1>3, <1>7, <3>1
      <3>3. tail = <<x, y>>
        BY <2>1
      <3> HIDE DEF tail, x, y
      <3> QED
        BY <3>2, <3>3, TwoOf
    <2>2. ASSUME ~(n >= 3)
          PROVE  tail \in Seq(X) /\ tail = <<>>
      BY <2>2, NoneOf
    <2>3. n < 3 => ~(n >= 3)
      BY <1>7
    <2> QED
      BY <2>1, <2>2, <2>3
  <1>9. clauses \in Seq(X) /\ ("," \notin ToSet(q) => clauses = <<>>)
    BY <1>5, NoneOf
  <1>10. compact \in Seq(X) /\ (n < 3 => compact = <<>>)
    <2>1. ASSUME n >= 3
          PROVE  compact \in Seq(X)
      <3> DEFINE x == Picked(q, Content(q))
      <3>1. x \in X /\ compact = <<x>>
        BY <1>4, <2>1
      <3> HIDE DEF x, compact
      <3> QED
        BY <3>1, OneOf
    <2>2. ASSUME ~(n >= 3)
          PROVE  compact \in Seq(X) /\ compact = <<>>
      BY <2>2, NoneOf
    <2>3. n < 3 => ~(n >= 3)
      BY <1>7
    <2> QED
      BY <2>1, <2>2, <2>3
  <1> HIDE DEF tail, clauses, compact
  <1> DEFINE h1 == <<q>>
             h2 == h1 \o tail
             h3 == h2 \o clauses
             h4 == h3 \o compact
  <1>11. h1 \in Seq(X) /\ Len(h1) = 1 /\ h1[1] = q
    BY <1>2, OneOf
  <1>12. Asked(q) = h4
    BY <1>6
  <1> HIDE DEF h1
  <1>13. /\ Len(tail) \in Nat /\ Len(clauses) \in Nat /\ Len(compact) \in Nat
    BY <1>8, <1>9, <1>10, LenProperties
  <1>14. h2 \in Seq(X) /\ Len(h2) = Len(h1) + Len(tail) /\ h2[1] = h1[1] /\ Len(h2) >= 1
    <2>1. Len(h1) >= 1
      BY <1>11
    <2>2. h2 \in Seq(X) /\ Len(h2) = Len(h1) + Len(tail) /\ h2[1] = h1[1]
      BY <1>8, <1>11, <2>1, ConcatFront
    <2> HIDE DEF h2
    <2>3. Len(h2) >= 1
      BY <1>11, <1>13, <2>2
    <2> QED
      BY <2>2, <2>3
  <1> HIDE DEF h2
  <1>15. h3 \in Seq(X) /\ Len(h3) = Len(h2) + Len(clauses) /\ h3[1] = h2[1] /\ Len(h3) >= 1
    <2>2. h3 \in Seq(X) /\ Len(h3) = Len(h2) + Len(clauses) /\ h3[1] = h2[1]
      BY <1>9, <1>14, ConcatFront
    <2> HIDE DEF h3
    <2>3. Len(h3) >= 1
      BY <1>11, <1>13, <1>14, <2>2
    <2> QED
      BY <2>2, <2>3
  <1> HIDE DEF h3
  <1>16. h4 \in Seq(X) /\ Len(h4) = Len(h3) + Len(compact) /\ h4[1] = h3[1]
    BY <1>10, <1>15, ConcatFront
  <1> HIDE DEF h4
  <1>17. Len(h4) \in Nat /\ Len(h4) >= 1 /\ h4[1] = q
    BY <1>11, <1>13, <1>14, <1>15, <1>16
  <1>18. ASSUME m < 2, "," \notin ToSet(q)
         PROVE  Len(h4) = 1
    <2>a. m < 2 /\ n <= m /\ m \in Nat /\ n \in Nat
      BY <1>b, <1>7, <1>18
    <2>1. n < 3
      BY <2>a
    <2>2. Len(tail) = 0 /\ Len(clauses) = 0 /\ Len(compact) = 0
      <3>1. tail = <<>> /\ clauses = <<>> /\ compact = <<>>
        BY <1>8, <1>9, <1>10, <1>18, <2>1
      <3> QED
        BY <3>1, NoneOf
    <2> QED
      BY <1>11, <1>13, <1>14, <1>15, <1>16, <2>2
  <1> QED
    BY <1>12, <1>16, <1>17, <1>18 DEF X, m

\* Variants that are worth it, no two the same.
Found(X, out) ==
    /\ out \in Seq(X)
    /\ \A i \in 1..Len(out) : Worth(out[i]) /\ \A j \in 1..Len(out) : out[i] = out[j] => i = j

LEMMA NoneFound ==
  ASSUME NEW X
  PROVE  Found(X, <<>>)
  <1>1. <<>> \in Seq(X) /\ Len(<<>>) = 0
    BY NoneOf
  <1>2. 1..0 = {}
    OBVIOUS
  <1> QED
    BY <1>1, <1>2 DEF Found

\* A variant is put behind those there are, or not at all.
StartsAs(new, out) == out # <<>> => new # <<>> /\ new[1] = out[1]

LEMMA VariantAdded ==
  ASSUME NEW X, NEW out, NEW v \in X, Found(X, out)
  PROVE  /\ Found(X, AddVariant(out, v))
         /\ StartsAs(AddVariant(out, v), out)
         /\ ~Worth(v) => AddVariant(out, v) = out
  <1> DEFINE n == Len(out)
             new == Append(out, v)
  <1>1. out \in Seq(X) /\ n \in Nat /\ (out # <<>> => n # 0)
    <2>1. out \in Seq(X)
      BY DEF Found
    <2> QED
      BY <2>1, LenProperties, EmptySeq
  <1>2. \A i \in 1..n : Worth(out[i]) /\ \A j \in 1..n : out[i] = out[j] => i = j
    BY DEF Found
  <1>3. ASSUME Worth(v), \A i \in 1..n : out[i] # v
        PROVE  Found(X, new) /\ new # <<>> /\ (out # <<>> => new[1] = out[1])
    <2>1. /\ new \in Seq(X) /\ new # <<>> /\ Len(new) = n + 1
          /\ (\A i \in 1..n : new[i] = out[i]) /\ new[n + 1] = v
      BY <1>1, AppendProperties
    <2> HIDE DEF new, n
    <2>2. \A i \in 1..(n + 1) : i \in 1..n \/ i = n + 1
      BY <1>1
    <2>3. \A i \in 1..(n + 1) : Worth(new[i])
      BY <1>2, <1>3, <2>1, <2>2
    <2>4. \A i, j \in 1..(n + 1) : new[i] = new[j] => i = j
      BY <1>2, <1>3, <2>1, <2>2
    <2>5. Found(X, new)
      BY <2>1, <2>3, <2>4 DEF Found
    <2>6. out # <<>> => 1 \in 1..n
      BY <1>1
    <2> QED
      BY <2>1, <2>5, <2>6
  <1>4. AddVariant(out, v) = IF Worth(v) /\ (\A i \in 1..n : out[i] # v) THEN new ELSE out
    BY DEF AddVariant, Contains
  <1> DEFINE known == AddVariant(out, v)
             fresh == Worth(v) /\ \A i \in 1..n : out[i] # v
  <1>5. fresh => known = new /\ Worth(v)
    BY <1>4
  <1>6. ~fresh => known = out
    BY <1>4
  <1>7. fresh => Found(X, new) /\ StartsAs(new, out)
    BY <1>3 DEF StartsAs
  <1>8. StartsAs(out, out)
    BY DEF StartsAs
  <1> HIDE DEF fresh, new, n, known
  <1>9. Found(X, known) /\ StartsAs(known, out) /\ (~Worth(v) => known = out)
    BY <1>5, <1>6, <1>7, <1>8
  <1> QED
    BY <1>9 DEF known

\* How the variants are collected of what is asked for.
Collects(c, X, q) ==
    /\ c[0] = <<>>
    /\ \A i \in 1..Len(Asked(q)) :
          c[i] = AddVariant(c[i - 1], Tidy(Asked(q)[i])) /\ Tidy(Asked(q)[i]) \in X
    /\ \A i \in 0..Len(Asked(q)) : Found(X, c[i])

\* The variants of a query are the first five that are collected.
VariantsOf(T, q, query) ==
    \E c : /\ Collects(c, Seq(T), q)
           /\ QueryVariants(query) =
                 SubSeq(c[Len(Asked(q))], 1, Min({5, Len(c[Len(Asked(q))])}))

LEMMA Collected ==
  ASSUME NEW T, NEW q, NEW query, IsQuery(T, q), q = Tidy(query)
  PROVE  VariantsOf(T, q, query)
  <1> DEFINE X == Seq(T)
             m == Len(Asked(q))
             v(i) == Tidy(Asked(q)[i])
             P(s) == s = [i \in 0..m |-> IF i = 0 THEN <<>> ELSE AddVariant(s[i - 1], v(i))]
             c == CHOOSE s : P(s)
             B == {out \in Seq(X) : Found(X, out)}
             step == [i \in 1..m |-> [out \in B |-> AddVariant(out, v(i))]]
  <1>1. m \in Nat /\ Asked(q) \in Seq(X)
    BY AskedTexts
  <1>2. QueryVariants(query) = SubSeq(c[m], 1, Min({5, Len(c[m])}))
    BY DEF QueryVariants
  <1>3. ASSUME NEW i \in 1..m
        PROVE  v(i) \in X
    <2>1. Asked(q)[i] \in Seq(T)
      BY <1>1, LenProperties
    <2> QED
      BY <2>1, TidyText
  <1>4. \A out \in B : Found(X, out)
    OBVIOUS
  <1>5. \A out : Found(X, out) => out \in B
    BY DEF Found
  <1> HIDE DEF X, m, v, B, P
  <1>6. ASSUME NEW i \in 1..m, NEW out, Found(X, out)
        PROVE  Found(X, AddVariant(out, v(i)))
    <2> DEFINE w == v(i)
    <2>1. w \in X
      BY <1>3
    <2> HIDE DEF w
    <2>2. Found(X, AddVariant(out, w))
      BY <1>6, <2>1, VariantAdded
    <2> QED
      BY <2>2 DEF w
  <1>7. \A i \in 1..m : i - 1 \in 0..m /\ i # 0 /\ i \in 0..m
    BY <1>1
  <1>8. P(c)
    <2>1. step \in [1..m -> [B -> B]] /\ <<>> \in B
      BY <1>4, <1>5, <1>6, NoneFound
    <2>2. \A i \in 1..m, out \in B : step[i][out] = AddVariant(out, v(i))
      OBVIOUS
    <2> HIDE DEF step
    <2>3. PICK s \in [0..m -> B] : Computed(s, m, <<>>, step)
      BY <1>1, <2>1, Partial
    <2>4. s[0] = <<>> /\ \A i \in 1..m : s[i] = AddVariant(s[i - 1], v(i))
      BY <1>7, <2>2, <2>3 DEF Computed
    <2>5. s = [i \in 0..m |-> s[i]]
      BY <2>3
    <2>6. \A i \in 0..m : i # 0 => i \in 1..m
      BY <1>1
    <2>7. P(s)
      BY <2>4, <2>5, <2>6 DEF P
    <2> QED
      BY <2>7
  <1> HIDE DEF c
  <1>9. c[0] = <<>> /\ \A i \in 1..m : c[i] = AddVariant(c[i - 1], v(i))
    <2>1. 0 \in 0..m
      BY <1>1
    <2>2. c = [i \in 0..m |-> IF i = 0 THEN <<>> ELSE AddVariant(c[i - 1], v(i))]
      BY <1>8 DEF P
    <2> QED
      BY <1>7, <2>1, <2>2
  <1>10. \A i \in 0..m : Found(X, c[i])
    <2> DEFINE A == {i \in 0..m : Found(X, c[i])}
    <2>1. 0 \in A
      BY <1>1, <1>9, NoneFound
    <2>2. \A i \in 1..m : i - 1 \in A => i \in A
      BY <1>6, <1>7, <1>9
    <2> HIDE DEF A
    <2>3. \A i \in 0..m : i \in A
      BY <1>1, <2>1, <2>2, UpTo
    <2> QED
      BY <2>3 DEF A
  <1>11. Collects(c, X, q)
    BY <1>3, <1>9, <1>10 DEF Collects, m, v
  <1> QED
    BY <1>2, <1>11 DEF X, m, VariantsOf

\* What is worth it has something besides these.
Idle == {"?", ",", " "}

LEMMA IdleNotWorth ==
  ASSUME NEW v \in Seq(Idle)
  PROVE  ~Worth(v)
  <1>1. DOMAIN v = 1..Len(v) /\ \A i \in 1..Len(v) : v[i] \in Idle
    BY LenProperties
  <1>2. ToSet(v) \subseteq Idle
    BY <1>1 DEF ToSet
  <1> QED
    BY <1>2 DEF Worth, Idle

\* A query that is worth it is the first to be collected.
LEMMA WorthFirst ==
  ASSUME NEW T, NEW q, NEW c, IsQuery(T, q), Tidy(q) = q, Worth(q), Collects(c, Seq(T), q)
  PROVE  c[Len(Asked(q))] # <<>> /\ c[Len(Asked(q))][1] = q
  <1> DEFINE m == Len(Asked(q))
             A == {i \in 0..m : i >= 1 => c[i] # <<>> /\ c[i][1] = q}
             v(i) == Tidy(Asked(q)[i])
  <1>1. m \in Nat /\ m >= 1 /\ Asked(q)[1] = q
    BY AskedTexts
  <1>2. c[0] = <<>> /\ \A i \in 1..m : c[i] = AddVariant(c[i - 1], v(i))
    BY DEF Collects
  <1>3. \A i \in 1..m : v(i) \in Seq(T)
    BY DEF Collects
  <1>4. \A i \in 0..m : Found(Seq(T), c[i])
    BY DEF Collects
  <1>5. v(1) = q
    BY <1>1
  <1> HIDE DEF m, v
  <1>6. 0 \in A
    BY <1>1
  <1>7. ASSUME NEW i \in 1..m, i - 1 \in A
        PROVE  i \in A
    <2>1. i \in 0..m /\ i - 1 \in 0..m
      BY <1>1
    <2>2. c[i] = AddVariant(c[i - 1], v(i))
      BY <1>2
    <2>3. ASSUME i = 1
          PROVE  c[i] # <<>> /\ c[i][1] = q
      <3>1. c[i] = AddVariant(<<>>, q)
        BY <1>2, <1>5, <2>2, <2>3
      <3>2. ~Contains(<<>>, q)
        <4>1. Len(<<>>) = 0 /\ 1..0 = {}
          OBVIOUS
        <4> QED
          BY <4>1 DEF Contains
      <3>3. c[i] = Append(<<>>, q)
        BY <3>1, <3>2 DEF AddVariant
      <3>4. Append(<<>>, q) = <<q>>
        OBVIOUS
      <3>5. Len(<<q>>) = 1 /\ <<q>>[1] = q /\ Len(<<>>) = 0
        OBVIOUS
      <3> QED
        BY <3>3, <3>4, <3>5
    <2>4. ASSUME i # 1
          PROVE  c[i] # <<>> /\ c[i][1] = q
      <3>1. i - 1 >= 1
        BY <1>1, <2>4
      <3>2. c[i - 1] # <<>> /\ c[i - 1][1] = q
        BY <1>7, <3>1
      <3> DEFINE u == v(i)
                 d == c[i - 1]
      <3>3. u \in Seq(T) /\ Found(Seq(T), d)
        BY <1>3, <1>4, <2>1
      <3>4. c[i] = AddVariant(d, u) /\ d # <<>> /\ d[1] = q
        BY <2>2, <3>2
      <3> HIDE DEF u, d
      <3>5. StartsAs(AddVariant(d, u), d)
        BY <3>3, VariantAdded
      <3> QED
        BY <3>4, <3>5 DEF StartsAs
    <2> QED
      BY <2>1, <2>3, <2>4
  <1> HIDE DEF A
  <1>8. m \in A
    <2>1. \A i \in 0..m : i \in A
      BY <1>1, <1>6, <1>7, UpTo
    <2> QED
      BY <1>1, <2>1
  <1> QED
    BY <1>1, <1>8 DEF A, m

\* Where nothing asked for is worth it, nothing is collected.
LEMMA IdleNothing ==
  ASSUME NEW T, NEW q, NEW c, IsQuery(T, q), Collects(c, Seq(T), q),
         \A i \in 1..Len(Asked(q)) : ~Worth(Tidy(Asked(q)[i]))
  PROVE  c[Len(Asked(q))] = <<>>
  <1> DEFINE m == Len(Asked(q))
             A == {i \in 0..m : c[i] = <<>>}
             v(i) == Tidy(Asked(q)[i])
  <1>1. m \in Nat
    BY AskedTexts
  <1>2. c[0] = <<>> /\ \A i \in 1..m : c[i] = AddVariant(c[i - 1], v(i))
    BY DEF Collects
  <1>3. \A i \in 1..m : ~Worth(v(i))
    OBVIOUS
  <1> HIDE DEF m, v
  <1>4. 0 \in A
    BY <1>1, <1>2
  <1>5. ASSUME NEW i \in 1..m, i - 1 \in A
        PROVE  i \in A
    <2>1. i \in 0..m
      BY <1>1
    <2>2. c[i] = c[i - 1]
      BY <1>2, <1>3 DEF AddVariant
    <2> QED
      BY <1>5, <2>1, <2>2
  <1> HIDE DEF A
  <1>6. m \in A
    <2>1. \A i \in 0..m : i \in A
      BY <1>1, <1>4, <1>5, UpTo
    <2> QED
      BY <1>1, <2>1
  <1> QED
    BY <1>6 DEF A, m

\* A query that is not worth it: no part of it is.
LEMMA PartsNotWorth ==
  ASSUME NEW T, NEW q, IsQuery(T, q), Tidy(q) = q, ~Worth(q)
  PROVE  \A i \in 1..Len(Asked(q)) : ~Worth(Tidy(Asked(q)[i]))
  <1>1. q \in Seq(T)
    BY DEF IsQuery
  <1>2. Len(q) \in Nat /\ DOMAIN q = 1..Len(q)
    BY <1>1, LenProperties
  <1>3. ASSUME ToSet(q) \subseteq Idle, NEW i \in 1..Len(Asked(q))
        PROVE  ~Worth(Tidy(Asked(q)[i]))
    <2>1. q \in [1..Len(q) -> Idle]
      <3>1. \A j \in 1..Len(q) : q[j] \in Idle
        BY <1>2, <1>3 DEF ToSet
      <3>2. q = [j \in 1..Len(q) |-> q[j]]
        BY <1>1, <1>2, LenProperties
      <3> QED
        BY <3>1, <3>2
    <2>2. q \in Seq(Idle) /\ " " \in Idle
      BY <1>2, <2>1, SeqDef DEF Idle
    <2>3. IsQuery(Idle, q)
      BY <2>2 DEF IsQuery
    <2>4. Asked(q) \in Seq(Seq(Idle))
      BY <2>3, AskedTexts
    <2>5. Asked(q)[i] \in Seq(Idle)
      BY <1>3, <2>4, LenProperties
    <2>6. Tidy(Asked(q)[i]) \in Seq(Idle)
      BY <2>5, TidyText
    <2> QED
      BY <2>6, IdleNotWorth
  <1>4. ASSUME Len(q) < 2, NEW c \in ToSet(q) \ Idle, NEW i \in 1..Len(Asked(q))
        PROVE  ~Worth(Tidy(Asked(q)[i]))
    <2>1. PICK k \in 1..Len(q) : q[k] = c
      BY <1>2, <1>4 DEF ToSet
    <2>2. \A j \in 1..Len(q) : j = k
      <3> DEFINE n == Len(q)
      <3>1. n \in Nat /\ n < 2 /\ k \in 1..n
        BY <1>2, <1>4, <2>1
      <3> HIDE DEF n
      <3>2. \A j \in 1..n : j = k
        BY <3>1
      <3> QED
        BY <3>2 DEF n
    <2>3. "," \notin ToSet(q)
      BY <1>2, <1>4, <2>1, <2>2 DEF ToSet, Idle
    <2>4. Len(Asked(q)) = 1 /\ Asked(q)[1] = q
      BY <1>4, <2>3, AskedTexts
    <2>5. i = 1
      BY <1>4, <2>4
    <2> QED
      BY <2>4, <2>5
  <1>5. Len(q) < 2 \/ ToSet(q) \subseteq Idle
    <2> DEFINE n == Len(q)
    <2>1. n \in Nat
      BY <1>2
    <2>2. ~(n >= 2) \/ ToSet(q) \subseteq Idle
      BY DEF Worth, Idle
    <2> HIDE DEF n
    <2>3. n >= 2 \/ n < 2
      BY <2>1
    <2> QED
      BY <2>2, <2>3 DEF n
  <1> QED
    BY <1>3, <1>4, <1>5

\* Of what is found the first five are taken.
LEMMA FirstFive ==
  ASSUME NEW X, NEW all, Found(X, all)
  PROVE  /\ Found(X, SubSeq(all, 1, Min({5, Len(all)})))
         /\ StartsAs(SubSeq(all, 1, Min({5, Len(all)})), all)
         /\ all = <<>> => SubSeq(all, 1, Min({5, Len(all)})) = <<>>
  <1> DEFINE n == Len(all)
             k == Min({5, n})
             v == SubSeq(all, 1, k)
  <1>1. all \in Seq(X)
    BY DEF Found
  <1>2. n \in Nat /\ (all # <<>> => n # 0) /\ (all = <<>> => n = 0)
    BY <1>1, LenProperties, EmptySeq
  <1>3. \A i \in 1..n : all[i] \in X
    BY <1>1, LenProperties
  <1>4. \A i \in 1..n : Worth(all[i]) /\ \A j \in 1..n : all[i] = all[j] => i = j
    BY DEF Found
  <1> HIDE DEF n
  <1>5. k \in 0..n /\ (n # 0 => k >= 1)
    <2>1. 5 \in Int /\ n \in Int
      BY <1>2
    <2>2. k = IF 5 <= n THEN 5 ELSE n
      BY <2>1, LesserOfTwo
    <2> HIDE DEF k
    <2> QED
      BY <1>2, <2>2
  <1> HIDE DEF k
  <1>6. k \in Nat /\ \A i \in 1..k : i \in 1..n
    BY <1>2, <1>5
  <1>7. v \in Seq(X) /\ Len(v) = k /\ \A i \in 1..k : v[i] = all[i]
    <2>1. 1 \in Int /\ k \in Int /\ \A i \in 1..k : all[i] \in X
      BY <1>3, <1>6
    <2>2. /\ v \in Seq(X) /\ Len(v) = (IF 1 <= k THEN k - 1 + 1 ELSE 0)
          /\ \A i \in 1..(k - 1 + 1) : v[i] = all[1 + i - 1]
      BY <2>1, SubSeqProperties
    <2> HIDE DEF v
    <2>3. k - 1 + 1 = k /\ (1 <= k \/ k = 0)
      BY <1>6
    <2>4. \A i \in 1..k : 1 + i - 1 = i
      BY <1>6
    <2>5. Len(v) = k
      BY <2>2, <2>3
    <2> QED
      BY <2>2, <2>3, <2>4, <2>5
  <1> HIDE DEF v
  <1>8. Found(X, v)
    <2>1. \A i \in 1..k : Worth(v[i]) /\ \A j \in 1..k : v[i] = v[j] => i = j
      BY <1>4, <1>6, <1>7
    <2> QED
      BY <1>7, <2>1 DEF Found
  <1>9. StartsAs(v, all)
    <2> SUFFICES ASSUME all # <<>>
                 PROVE  v # <<>> /\ v[1] = all[1]
      BY DEF StartsAs
    <2>1. k >= 1
      BY <1>2, <1>5
    <2>2. 1 \in 1..k /\ k # 0
      BY <1>6, <2>1
    <2>3. Len(v) # 0
      BY <1>7, <2>2
    <2> QED
      BY <1>7, <2>2, <2>3, EmptySeq
  <1>10. all = <<>> => v = <<>>
    <2> SUFFICES ASSUME all = <<>>
                 PROVE  v = <<>>
      OBVIOUS
    <2>1. k = 0
      BY <1>2, <1>5
    <2> QED
      BY <1>7, <2>1, EmptySeq
  <1>11. Found(X, v) /\ StartsAs(v, all) /\ (all = <<>> => v = <<>>)
    BY <1>8, <1>9, <1>10
  <1> QED
    BY <1>11 DEF v, k, n

LEMMA QueryIsFirst ==
  ASSUME NEW T, NEW query \in Seq(T)
  PROVE  QueryComesFirst(query)
  <1> DEFINE B == T \union {" "}
             X == Seq(B)
             q == Tidy(query)
             v == QueryVariants(query)
  <1>1. query \in Seq(B)
    <2>1. Len(query) \in Nat /\ query \in [1..Len(query) -> T]
      BY LenProperties
    <2>2. query \in [1..Len(query) -> B]
      BY <2>1
    <2> HIDE DEF B
    <2> QED
      BY <2>1, <2>2, SeqDef
  <1>2. IsQuery(B, q) /\ Tidy(q) = q
    <2>1. " " \in B
      OBVIOUS
    <2> HIDE DEF B
    <2>2. q \in Seq(B) /\ Tidy(q) = q
      BY <1>1, TidyText, TidyTwice
    <2> QED
      BY <2>1, <2>2 DEF IsQuery
  <1>a. q = Tidy(query)
    OBVIOUS
  <1> HIDE DEF B, q
  <1>3. PICK c : /\ Collects(c, X, q)
                 /\ v = SubSeq(c[Len(Asked(q))], 1, Min({5, Len(c[Len(Asked(q))])}))
    <2>1. VariantsOf(B, q, query)
      BY <1>2, <1>a, Collected
    <2> QED
      BY <2>1 DEF VariantsOf
  <1> DEFINE m == Len(Asked(q))
             all == c[m]
  <1>4. m \in Nat /\ m \in 0..m
    <2>1. m \in Nat
      BY <1>2, AskedTexts
    <2> HIDE DEF m
    <2> QED
      BY <2>1
  <1>5. Found(X, all)
    BY <1>3, <1>4 DEF Collects
  <1>6. Worth(q) => all # <<>> /\ all[1] = q
    BY <1>2, <1>3, WorthFirst
  <1>7. ~Worth(q) => all = <<>>
    BY <1>2, <1>3, PartsNotWorth, IdleNothing
  <1>8. v = SubSeq(all, 1, Min({5, Len(all)}))
    BY <1>3
  <1> HIDE DEF all, X, m, v
  <1>9. Found(X, v) /\ StartsAs(v, all) /\ (all = <<>> => v = <<>>)
    BY <1>5, <1>8, FirstFive
  <1>10. v \in Seq(X) /\ DOMAIN v = 1..Len(v)
    <2>1. v \in Seq(X)
      BY <1>9 DEF Found
    <2> QED
      BY <2>1, LenProperties
  <1>11. \A i \in DOMAIN v : Worth(v[i]) /\ \A j \in DOMAIN v : v[i] = v[j] => i = j
    BY <1>9, <1>10 DEF Found
  <1>12. IF Worth(q) THEN v # <<>> /\ v[1] = q ELSE v = <<>>
    BY <1>6, <1>7, <1>9 DEF StartsAs
  <1> QED
    BY <1>11, <1>12 DEF QueryComesFirst, v, q

-----------------------------------------------------------------------------
(* The windows of a text *)

\* A cut is where it is without a separator, or behind one that ends in the part
\* that is searched.
LEMMA CutWithin ==
  ASSUME NEW text \in Seq(Marks), NEW first \in Nat, NEW end \in Nat, NEW low \in Nat,
         NEW otherwise
  PROVE  LET cut == CutBehind(text, Separators, first, end, low, otherwise)
         IN  cut = otherwise \/ (cut \in Nat /\ low < cut /\ cut <= end)
  <1> DEFINE found == {k \in DOMAIN Separators :
                         /\ Places(text, Separators[k], first, end) # {}
                         /\ Max(Places(text, Separators[k], first, end)) > low}
             m == Min(found)
             P == Places(text, Separators[m], first, end)
             cut == CutBehind(text, Separators, first, end, low, otherwise)
  <1>1. cut = IF found = {} THEN otherwise ELSE Max(P) + Len(Separators[m])
    BY DEF CutBehind
  <1>2. \A k \in DOMAIN Separators : Len(Separators[k]) \in {1, 2}
    <2>1. Len(<<Newline, Newline>>) = 2 /\ \A x : Len(<<x>>) = 1
      OBVIOUS
    <2>2. \A k \in DOMAIN Separators :
             Separators[k] = <<Newline, Newline>> \/ \E x : Separators[k] = <<x>>
      <3>1. DOMAIN Separators = 1..5
        BY DEF Separators
      <3>2. /\ Separators[1] = <<Newline, Newline>> /\ Separators[2] = <<Newline>>
            /\ Separators[3] = <<".">> /\ Separators[4] = <<",">> /\ Separators[5] = <<" ">>
        BY DEF Separators
      <3>3. \A k \in 1..5 : k \in {1, 2, 3, 4, 5}
        OBVIOUS
      <3> HIDE DEF Separators
      <3> QED
        BY <3>1, <3>2, <3>3
    <2> QED
      BY <2>1, <2>2
  <1>3. DOMAIN Separators \in SUBSET Nat
    BY DEF Separators
  <1> SUFFICES ASSUME found # {}
               PROVE  cut \in Nat /\ low < cut /\ cut <= end
    BY <1>1
  <1>4. m \in found
    <2>1. found \in SUBSET Nat
      BY <1>3
    <2> HIDE DEF found
    <2> QED
      BY <2>1, LeastExists
  <1>5. m \in DOMAIN Separators /\ P # {} /\ Max(P) > low
    BY <1>4
  <1> DEFINE l == Len(Separators[m])
  <1>6. l \in {1, 2}
    BY <1>2, <1>5
  <1>7. \A p \in P : p \in Nat /\ p <= end /\ p + l <= end
    <2>1. P \subseteq first..(end - l)
      BY DEF Places
    <2> HIDE DEF P, l
    <2> QED
      BY <1>6, <2>1
  <1>8. P # {} /\ Max(P) > low /\ cut = Max(P) + l
    BY <1>1, <1>5
  <1> HIDE DEF P, l, cut
  <1>9. Max(P) \in P
    BY <1>7, <1>8, LargestExists
  <1>10. Max(P) \in Nat /\ Max(P) + l <= end
    BY <1>7, <1>9
  <1> HIDE DEF m, found
  <1> DEFINE x == Max(P)
  <1>11. x \in Nat /\ x + l <= end /\ x > low /\ cut = x + l
    BY <1>8, <1>10
  <1> HIDE DEF x
  <1> QED
    BY <1>6, <1>11 DEF cut

\* A window is not empty, not too long and does not reach over the text.
LEMMA WindowEnds ==
  ASSUME NEW text \in Seq(Marks), NEW start \in Nat, start < Len(text)
  PROVE  LET best == WindowEnd(text, start)
         IN  /\ best \in Nat /\ start < best /\ best <= Len(text) /\ best - start <= chunk_size
             /\ IF start + chunk_size >= Len(text) THEN best = Len(text) ELSE best < Len(text)
  <1> DEFINE end == start + chunk_size
             lowest == Max({start, end - chunk_size \div 5})
             best == WindowEnd(text, start)
             L == Len(text)
  <1>1. best = IF end >= L THEN L ELSE CutBehind(text, Separators, lowest, end, start, end)
    BY DEF WindowEnd
  <1>2. L \in Nat
    BY LenProperties
  <1>3. chunk_size \in Nat /\ chunk_size > 0
    BY ChunkAssumption
  <1>4. end \in Nat /\ end - start = chunk_size /\ start < end
    BY <1>3
  <1>5. lowest \in Nat
    <2>1. chunk_size \div 5 \in Nat /\ chunk_size \div 5 <= chunk_size
      BY <1>3
    <2> DEFINE d == chunk_size \div 5
    <2>2. d \in Nat /\ d <= chunk_size
      BY <2>1
    <2> HIDE DEF d
    <2>3. end - d \in Nat
      BY <1>3, <2>2
    <2> DEFINE S == {start, end - d}
    <2>4. S \in SUBSET Nat /\ S # {} /\ \A n \in S : n <= end
      BY <1>3, <2>2, <2>3
    <2> HIDE DEF S
    <2>5. Max(S) \in S
      BY <1>4, <2>4, LargestExists
    <2> QED
      BY <2>4, <2>5 DEF S, d
  <1> HIDE DEF lowest, L, best, end
  <1>6. CASE end >= L
    BY <1>1, <1>2, <1>3, <1>6 DEF end, L, best
  <1>7. CASE ~(end >= L)
    <2>1. best = end \/ (best \in Nat /\ start < best /\ best <= end)
      BY <1>1, <1>4, <1>5, <1>7, CutWithin
    <2>2. best \in Nat /\ start < best /\ best <= end
      BY <1>4, <2>1
    <2> HIDE DEF best
    <2> QED
      BY <1>2, <1>3, <1>7, <2>2 DEF end, L, best
  <1> QED
    BY <1>6, <1>7

\* Where the next window starts.
LEMMA NextFollows ==
  ASSUME NEW start \in Nat, NEW best \in Nat, start < best
  PROVE  /\ NextStart(start, best) \in Nat /\ NextStart(start, best) <= best
         /\ Follows(<<start, best>>, NextStart(start, best))
  <1> DEFINE next == NextStart(start, best)
  <1>1. chunk_overlap \in Nat
    BY ChunkAssumption
  <1>2. next = IF best - chunk_overlap > start THEN best - chunk_overlap ELSE best
    BY DEF NextStart
  <1> HIDE DEF next
  <1>3. next \in Nat /\ start < next /\ next <= best /\ best - next <= chunk_overlap
    BY <1>1, <1>2
  <1>4. next \in (start + 1)..best
    BY <1>3
  <1> QED
    BY <1>3, <1>4 DEF Follows, next

\* Another window of a text that is covered so far.
LEMMA CoveredStep ==
  ASSUME NEW text \in Seq(Marks), NEW start \in Nat, start < Len(text),
         NEW windows \in Seq(Nat \X Nat), Covered(text, start, windows),
         NEW best, best = WindowEnd(text, start),
         NEW next,
         next = IF start + chunk_size >= Len(text) THEN Len(text) ELSE NextStart(start, best)
  PROVE  LET new == Append(windows, <<start, best>>)
         IN  next \in Nat /\ new \in Seq(Nat \X Nat) /\ Covered(text, next, new)
  <1> DEFINE w == <<start, best>>
             new == Append(windows, w)
             n == Len(windows)
  <1>1. /\ best \in Nat /\ start < best /\ best <= Len(text) /\ best - start <= chunk_size
        /\ IF start + chunk_size >= Len(text) THEN best = Len(text) ELSE best < Len(text)
    BY WindowEnds
  <1>2. Len(text) \in Nat /\ n \in Nat
    BY LenProperties
  <1>3. w \in Nat \X Nat /\ w[1] = start /\ w[2] = best
    BY <1>1
  <1> HIDE DEF w
  <1>4. /\ new \in Seq(Nat \X Nat) /\ Len(new) = n + 1 /\ new[n + 1] = w
        /\ \A k \in 1..n : new[k] = windows[k]
    BY <1>3, AppendProperties
  <1>5. new # <<>> /\ DOMAIN new = 1..(n + 1) /\ DOMAIN windows = 1..n
    <2>1. DOMAIN new = 1..Len(new) /\ DOMAIN windows = 1..n
      BY <1>4, LenProperties
    <2>2. n + 1 # 0
      BY <1>2
    <2> QED
      BY <1>4, <2>1, <2>2, NoneOf
  <1>6. n = 0 <=> windows = <<>>
    BY EmptySeq, LenProperties
  <1> HIDE DEF new
  <1>7. next \in Nat /\ IF next < Len(text) THEN Follows(w, next) ELSE w[2] = Len(text)
    <2>1. CASE start + chunk_size >= Len(text)
      BY <1>1, <1>2, <1>3, <2>1
    <2>2. CASE ~(start + chunk_size >= Len(text))
      <3>1. next \in Nat /\ next <= best /\ Follows(w, next)
        BY <1>1, <2>2, NextFollows DEF w
      <3>2. next < Len(text)
        BY <1>1, <1>2, <2>2, <3>1
      <3> QED
        BY <3>1, <3>2
    <2> QED
      BY <2>1, <2>2
  <1>8. new[1][1] = 0
    <2>1. CASE n = 0
      <3>1. start = 0
        BY <1>6, <2>1 DEF Covered
      <3> QED
        BY <1>3, <1>4, <2>1, <3>1
    <2>2. CASE n # 0
      <3>1. windows[1][1] = 0 /\ 1 \in 1..n
        BY <1>2, <1>6, <2>2 DEF Covered
      <3> QED
        BY <1>4, <3>1
    <2> QED
      BY <2>1, <2>2
  <1>9. ASSUME NEW k \in DOMAIN new
        PROVE  /\ new[k][1] < new[k][2] /\ new[k][2] <= Len(text)
               /\ new[k][2] - new[k][1] <= chunk_size
    <2>1. k \in 1..n \/ k = n + 1
      BY <1>2, <1>5
    <2>2. CASE k \in 1..n
      BY <1>4, <1>5, <2>2 DEF Covered
    <2>3. CASE k = n + 1
      BY <1>1, <1>3, <1>4, <2>3
    <2> QED
      BY <2>1, <2>2, <2>3
  <1>10. ASSUME NEW k \in 1..(Len(new) - 1)
         PROVE  Follows(new[k], new[k + 1][1])
    <2>1. k \in 1..n /\ (k \in 1..(n - 1) \/ k = n)
      BY <1>2, <1>4
    <2>2. CASE k \in 1..(n - 1)
      <3>1. k + 1 \in 1..n
        BY <1>2, <2>2
      <3>2. new[k] = windows[k] /\ new[k + 1] = windows[k + 1]
        BY <1>4, <2>1, <3>1
      <3> QED
        BY <2>2, <3>2 DEF Covered
    <2>3. CASE k = n
      <3>1. windows # <<>>
        BY <1>2, <1>6, <2>1, <2>3
      <3>2. Follows(windows[n], start)
        BY <3>1 DEF Covered
      <3> QED
        BY <1>3, <1>4, <2>1, <2>3, <3>2
    <2> QED
      BY <2>1, <2>2, <2>3
  <1>11. new[Len(new)] = w
    BY <1>4
  <1>12. Covered(text, next, new)
    BY <1>5, <1>7, <1>8, <1>9, <1>10, <1>11 DEF Covered
  <1> QED
    BY <1>4, <1>7, <1>12 DEF new, w

\* A text in which something can be seen is not blank when it is stripped.
LEMMA StripVisible ==
  ASSUME NEW T, NEW text \in Seq(T), NEW i \in Visible(text)
  PROVE  Strip(text) # <<>>
  <1> DEFINE V == Visible(text)
             first == Min(V)
             last == Max(V)
             L == Len(text)
  <1>1. V \subseteq 1..L /\ L \in Nat
    BY LenProperties DEF Visible
  <1>2. V # {} /\ V \in SUBSET Nat /\ \A j \in V : j <= L
    BY <1>1
  <1>3. Strip(text) = SubSeq(text, first, last)
    BY <1>2 DEF Strip
  <1> HIDE DEF V, L
  <1>4. first \in V /\ \A j \in V : first <= j
    BY <1>2, LeastExists
  <1>5. last \in V
    BY <1>1, <1>2, LargestExists
  <1> HIDE DEF first, last
  <1>6. first \in 1..L /\ last \in 1..L /\ first <= last
    BY <1>1, <1>4, <1>5
  <1>7. Len(SubSeq(text, first, last)) = last - first + 1
    BY <1>6, SubSeqProperties DEF L
  <1>8. last - first + 1 # 0
    BY <1>1, <1>6
  <1> QED
    BY <1>3, <1>7, <1>8, NoneOf

\* What can be seen of a text that is covered to its end is in a chunk.
LEMMA CoveredKept ==
  ASSUME NEW text \in Seq(Marks), NEW start \in Nat, NEW windows \in Seq(Nat \X Nat),
         Covered(text, start, windows)
  PROVE  NothingLost(text, start, windows)
  <1> SUFFICES ASSUME start >= Len(text), NEW i \in Visible(text)
               PROVE  \E w \in ChunkWindows(text, windows) : i \in (w[1] + 1)..w[2]
    BY DEF NothingLost
  <1> DEFINE n == Len(windows)
             L == Len(text)
             S == {k \in 1..n : windows[k][2] >= i}
             m == Min(S)
  <1>1. i \in 1..L /\ L \in Nat /\ n \in Nat /\ DOMAIN windows = 1..n /\ text[i] \notin Blanks
    BY LenProperties DEF Visible
  <1>2. \A k \in 1..n : windows[k] \in Nat \X Nat
    BY <1>1, LenProperties
  <1>a. \A k \in 1..n : windows[k][1] \in Nat /\ windows[k][2] \in Nat
    BY <1>2
  <1>3. windows # <<>>
    <2>1. start # 0
      BY <1>1
    <2> QED
      BY <2>1 DEF Covered
  <1>4. n \in 1..n
    <2>1. n # 0
      BY <1>3, EmptySeq, LenProperties
    <2> HIDE DEF n
    <2> QED
      BY <1>1, <2>1
  <1>5. windows[n][2] = L
    <2>1. ~(start < L)
      BY <1>1
    <2> QED
      BY <1>3, <2>1 DEF Covered
  <1>6. n \in S
    BY <1>1, <1>4, <1>5
  <1>7. S \in SUBSET Nat /\ S # {}
    BY <1>6
  <1>8. m \in S /\ \A k \in S : m <= k
    <2> HIDE DEF S
    <2> QED
      BY <1>7, LeastExists
  <1> HIDE DEF m
  <1>9. m \in 1..n /\ windows[m][2] >= i
    BY <1>8
  <1> DEFINE first == windows[m][1]
             last == windows[m][2]
  <1>10. first \in Nat /\ last \in Nat /\ last <= L /\ last >= i
    BY <1>1, <1>9, <1>a DEF Covered
  <1>11. first < i
    <2>1. CASE m = 1
      <3>1. first = 0
        BY <1>3, <2>1 DEF Covered
      <3> QED
        BY <1>1, <3>1
    <2>2. CASE m # 1
      <3>1. m - 1 \in 1..n /\ m - 1 \in 1..(n - 1) /\ (m - 1) + 1 = m /\ ~(m <= m - 1)
        <4> HIDE DEF n
        <4> QED
          BY <1>1, <1>9, <2>2
      <3>2. ~(windows[m - 1][2] >= i)
        BY <1>8, <3>1
      <3>3. Follows(windows[m - 1], windows[(m - 1) + 1][1])
        BY <3>1 DEF Covered
      <3>4. first <= windows[m - 1][2]
        BY <3>1, <3>3, <1>a DEF Follows
      <3>5. windows[m - 1][2] \in Nat
        BY <1>a, <3>1
      <3> DEFINE e == windows[m - 1][2]
      <3> HIDE DEF e, first
      <3> QED
        BY <1>1, <1>10, <3>2, <3>4, <3>5 DEF e
    <2> QED
      BY <2>1, <2>2
  <1> HIDE DEF first, last
  <1>12. i \in (first + 1)..last
    BY <1>1, <1>10, <1>11
  <1>13. Strip(SubSeq(text, first + 1, last)) # <<>>
    <2> DEFINE part == SubSeq(text, first + 1, last)
               j == i - first
    <2>1. first + 1 \in 1..(L + 1) /\ first + 1 <= last /\ last \in 1..L
      BY <1>1, <1>10, <1>11
    <2>2. /\ part \in Seq(Marks) /\ Len(part) = last - (first + 1) + 1
          /\ \A k \in 1..(last - (first + 1) + 1) : part[k] = text[first + 1 + k - 1]
      <3>1. \A k \in 1..L : text[k] \in Marks
        BY LenProperties DEF L
      <3>2. first + 1 \in Int /\ last \in Int /\ \A k \in (first + 1)..last : k \in 1..L
        BY <1>1, <2>1
      <3> DEFINE from == first + 1
      <3> HIDE DEF L, from
      <3>3. /\ from \in Int /\ last \in Int /\ from <= last
            /\ \A k \in from..last : text[k] \in Marks
        BY <2>1, <3>1, <3>2 DEF from
      <3> QED
        BY <3>3, SubSeqProperties DEF from
    <2>3. j \in 1..(last - (first + 1) + 1) /\ first + 1 + j - 1 = i
      BY <1>1, <1>10, <1>11
    <2>4. DOMAIN part = 1..Len(part)
      BY <2>2, LenProperties
    <2> HIDE DEF part, j
    <2>5. j \in Visible(part)
      BY <1>1, <2>2, <2>3, <2>4 DEF Visible
    <2> QED
      BY <2>2, <2>5, StripVisible DEF part
  <1>14. windows[m] \in ChunkWindows(text, windows)
    BY <1>1, <1>9, <1>13 DEF ChunkWindows, ToSet, first, last
  <1> QED
    BY <1>12, <1>14 DEF first, last

-----------------------------------------------------------------------------
(* Theorems *)

LEMMA Initially == Init => IInv
  <1> SUFFICES ASSUME Init
               PROVE  IInv
    OBVIOUS
  <1>1. sample.kind = "none"
    BY DEF Init
  <1> QED
    BY <1>1 DEF IInv, TypeOK, IndexConsistent, WindowsCover

\* The empty index.
LEMMA EmptyKept == EmptyIndex.docs \in Seq(Document) /\ FrequenciesKept(EmptyIndex)
  <1>1. EmptyIndex.docs = <<>> /\ EmptyIndex.df = <<>> /\ EmptyIndex.N = 0
    BY DEF EmptyIndex
  <1>2. <<>> \in Seq(Document) /\ Len(<<>>) = 0
    BY EmptySeq
  <1>3. DOMAIN EmptyIndex.docs = {} /\ DOMAIN EmptyIndex.df = {}
    BY <1>1
  <1>4. \A t : Having(EmptyIndex.docs, t) = {}
    BY <1>3 DEF Having
  <1> HIDE DEF EmptyIndex
  <1> QED
    BY <1>1, <1>2, <1>3, <1>4, FrequencyOfEach

LEMMA ChangeKept ==
  ASSUME NEW index, index.docs \in Seq(Document), FrequenciesKept(index),
         NEW changed \in Changes(index)
  PROVE  changed.docs \in Seq(Document) /\ FrequenciesKept(changed)
  <1>1. CASE \E id \in ChunkIds, terms \in SUBSET Terms : changed = Add(index, id, terms)
    BY <1>1, AddKeeps
  <1>2. CASE \E id \in ChunkIds : changed = RemoveId(index, id)
    BY <1>2, RemoveKeeps
  <1> QED
    BY <1>1, <1>2 DEF Changes

LEMMA Step == IInv /\ [Next]_sample => IInv'
  <1> SUFFICES ASSUME IInv, [Next]_sample
               PROVE  IInv'
    OBVIOUS
  <1> USE DEF IInv
  <1>1. CASE BeginSearch
    <2>1. PICK pool \in Pools : sample' = [kind |-> "pool", lists |-> <<pool>>]
      BY <1>1 DEF BeginSearch
    <2>2. sample'.kind = "pool" /\ sample'.lists \in Seq(Pools)
      BY <2>1
    <2> QED
      BY <2>2 DEF TypeOK, IndexConsistent, WindowsCover
  <1>2. CASE RecallVariant
    <2>1. sample.lists \in Seq(Pools)
      BY <1>2 DEF RecallVariant, TypeOK
    <2>2. PICK pool \in Pools : sample' = [kind |-> "pool", lists |-> Append(sample.lists, pool)]
      BY <1>2 DEF RecallVariant
    <2>3. sample'.kind = "pool" /\ sample'.lists \in Seq(Pools)
      BY <2>1, <2>2, AppendProperties
    <2> QED
      BY <2>3 DEF TypeOK, IndexConsistent, WindowsCover
  <1>12. CASE Fuse
    <2>1. sample.lists \in Seq(Pools)
      BY <1>12 DEF Fuse, TypeOK
    <2>2. PICK top_k \in TopKs :
             sample' = [kind |-> "search", lists |-> sample.lists, top_k |-> top_k]
      BY <1>12 DEF Fuse
    <2>3. sample'.kind = "search" /\ sample'.lists \in Seq(Pools) /\ sample'.top_k \in TopKs
      BY <2>1, <2>2
    <2> QED
      BY <2>3 DEF TypeOK, IndexConsistent, WindowsCover
  <1>3. CASE BeginQuery
    <2>1. sample'.kind = "query" /\ sample'.query = <<>>
      BY <1>3 DEF BeginQuery
    <2>2. sample'.query \in Seq(Characters)
      BY <2>1, NoneOf
    <2> QED
      BY <2>1, <2>2 DEF TypeOK, IndexConsistent, WindowsCover
  <1>4. CASE Type
    <2>1. sample.query \in Seq(Characters)
      BY <1>4 DEF Type, TypeOK
    <2>2. PICK c \in Characters : sample' = [kind |-> "query", query |-> Append(sample.query, c)]
      BY <1>4 DEF Type
    <2>3. sample'.kind = "query" /\ sample'.query \in Seq(Characters)
      BY <2>1, <2>2, AppendProperties
    <2> QED
      BY <2>3 DEF TypeOK, IndexConsistent, WindowsCover
  <1>5. CASE BeginIndex
    <2>1. sample'.kind = "index" /\ sample'.index = EmptyIndex /\ sample'.steps = 0
      BY <1>5 DEF BeginIndex
    <2>2. 0 \in 0..MaxChanges
      BY ChangesAssumption
    <2> QED
      BY <2>1, <2>2, EmptyKept DEF TypeOK, IndexConsistent, WindowsCover
  <1>6. CASE ChangeIndex
    <2>1. /\ sample.kind = "index" /\ sample.steps < MaxChanges
          /\ sample.steps \in 0..MaxChanges /\ sample.index.docs \in Seq(Document)
          /\ FrequenciesKept(sample.index)
      BY <1>6 DEF ChangeIndex, TypeOK, IndexConsistent, WindowsCover
    <2>2. PICK index \in Changes(sample.index) :
             sample' = [kind |-> "index", index |-> index, steps |-> sample.steps + 1]
      BY <1>6 DEF ChangeIndex
    <2>3. sample'.kind = "index" /\ sample'.index = index /\ sample'.steps = sample.steps + 1
      BY <2>2
    <2>4. sample.steps + 1 \in 0..MaxChanges
      BY <2>1, ChangesAssumption
    <2>5. index.docs \in Seq(Document) /\ FrequenciesKept(index)
      BY <2>1, ChangeKept
    <2> QED
      BY <2>3, <2>4, <2>5 DEF TypeOK, IndexConsistent, WindowsCover
  <1>7. CASE BeginNames
    <2>1. sample'.kind = "names" /\ sample' \in NamesSample
      BY <1>7 DEF BeginNames, NamesSample
    <2> QED
      BY <2>1 DEF TypeOK, IndexConsistent, WindowsCover
  <1>8. CASE Order
    <2>1. sample.kind = "names" /\ sample.name \in [ProductIds -> Names]
      BY <1>8 DEF Order, TypeOK, NamesSample
    <2>2. sample'.kind = "order" /\ sample' \in OrderSample
      BY <1>8, <2>1 DEF Order, OrderSample
    <2> QED
      BY <2>2 DEF TypeOK, IndexConsistent, WindowsCover
  <1>9. CASE BeginShipment
    <2>1. sample'.kind = "record" /\ sample' \in RecordSample
      BY <1>9 DEF BeginShipment, RecordSample
    <2> QED
      BY <2>1 DEF TypeOK, IndexConsistent, WindowsCover
  <1>10. CASE LookTwice
    <2>1. sample.record \in Records /\ sample.raw \in Overrides
      BY <1>10 DEF LookTwice, TypeOK, RecordSample
    <2>2. sample'.kind = "shipment" /\ sample' \in ShipmentSample
      BY <1>10, <2>1 DEF LookTwice, ShipmentSample
    <2> QED
      BY <2>2 DEF TypeOK, IndexConsistent, WindowsCover
  <1>13. CASE BeginText
    <2>1. PICK text \in Texts :
             sample' = [kind |-> "text", text |-> text, start |-> 0, windows |-> <<>>]
      BY <1>13 DEF BeginText
    <2>2. text \in Seq(Marks) /\ <<>> \in Seq(Nat \X Nat)
      BY TextsAssumption, NoneOf
    <2>3. sample' \in TextSample
      BY <2>1, <2>2 DEF TextSample
    <2>4. Covered(text, 0, <<>>)
      <3>1. DOMAIN <<>> = {} /\ Len(<<>>) = 0
        OBVIOUS
      <3>2. 1..(Len(<<>>) - 1) = {}
        BY <3>1
      <3> QED
        BY <3>1, <3>2 DEF Covered
    <2>5. NothingLost(text, 0, <<>>)
      BY <2>2, <2>4, CoveredKept
    <2>6. sample'.kind = "text" /\ WindowsCover'
      BY <2>1, <2>4, <2>5 DEF WindowsCover
    <2> QED
      BY <2>3, <2>6 DEF TypeOK, IndexConsistent
  <1>14. CASE CutWindow
    <2> DEFINE text == sample.text
               best == WindowEnd(text, sample.start)
               next == IF sample.start + chunk_size >= Len(text) THEN Len(text)
                       ELSE NextStart(sample.start, best)
               new == Append(sample.windows, <<sample.start, best>>)
    <2>1. /\ sample.kind = "text" /\ sample.start < Len(text)
          /\ sample' = [kind |-> "text", text |-> text, start |-> next, windows |-> new]
      BY <1>14 DEF CutWindow
    <2>2. /\ text \in Texts /\ sample.start \in Nat /\ sample.windows \in Seq(Nat \X Nat)
          /\ Covered(text, sample.start, sample.windows)
      BY <2>1 DEF TypeOK, TextSample, WindowsCover
    <2>3. text \in Seq(Marks)
      BY <2>2, TextsAssumption
    <2>4. next \in Nat /\ new \in Seq(Nat \X Nat) /\ Covered(text, next, new)
      BY <2>1, <2>2, <2>3, CoveredStep
    <2> HIDE DEF next, new
    <2>5. NothingLost(text, next, new)
      BY <2>3, <2>4, CoveredKept
    <2>6. sample' \in TextSample
      BY <2>1, <2>2, <2>4 DEF TextSample
    <2>7. sample'.kind = "text" /\ WindowsCover'
      BY <2>1, <2>4, <2>5 DEF WindowsCover
    <2> QED
      BY <2>6, <2>7 DEF TypeOK, IndexConsistent
  <1>11. CASE UNCHANGED sample
    BY <1>11 DEF TypeOK, IndexConsistent, WindowsCover
  <1> QED
    BY <1>1, <1>2, <1>3, <1>4, <1>5, <1>6, <1>7, <1>8, <1>9, <1>10, <1>11, <1>12, <1>13, <1>14
    DEF Next

\* The inputs are what they are taken from; an index is consistent after any
\* additions and removals of BM25Index; and the windows of _fallback_split lose
\* nothing of a text, whatever its length, chunk_size and chunk_overlap.
THEOREM Invariance == Spec => []IInv
  BY Initially, Step, PTL DEF Spec

\* generate_query_variants asks a query that is worth it first and as it is, no
\* variant twice and none that is idle, for queries of any length and characters.
THEOREM QueryFirst == Spec => []QueriesKept
  <1>1. IInv => QueriesKept
    <2> SUFFICES ASSUME IInv, sample.kind = "query"
                 PROVE  QueryComesFirst(sample.query)
      BY DEF QueriesKept
    <2>1. sample.query \in Seq(Characters)
      BY DEF IInv, TypeOK
    <2> QED
      BY <2>1, QueryIsFirst
  <1> QED
    BY <1>1, Invariance, PTL

\* search_multi asks the query first, returns distinct sources and puts consensus
\* first, whatever its variants recall, however a sort breaks its ties, and however
\* many results are asked for.
THEOREM ConsensusFirst == Spec => []SearchRanks
  <1>1. IInv /\ QueriesKept => SearchRanks
    <2> SUFFICES ASSUME IInv, sample.kind = "search"
                 PROVE  ConsensusWins(sample.lists, sample.top_k)
      BY DEF SearchRanks
    <2>1. sample.lists \in Seq(Pools) /\ sample.top_k \in TopKs
      BY DEF IInv, TypeOK
    <2>2. sample.top_k \in Int
      BY <2>1, PoolsAssumption
    <2> QED
      BY <2>1, <2>2, ConsensusFound
  <1> QED
    BY <1>1, Invariance, QueryFirst, PTL

\* place_order orders the product the name is of, for every finite catalogue,
\* every name and every limit.
THEOREM NamesRight == Spec => []NamesOrderRight
  <1>1. IInv => NamesOrderRight
    <2> SUFFICES ASSUME IInv, sample.kind = "order"
                 PROVE  OrderedAsNamed(sample.keyword, sample.onSale, sample.name)
      BY DEF NamesOrderRight
    <2>1. /\ sample.name \in [ProductIds -> Names] /\ sample.keyword \in Keywords
          /\ sample.onSale \in SUBSET ProductIds
      BY DEF IInv, TypeOK, OrderSample
    <2>2. ProductIds \subseteq Nat /\ IsFiniteSet(ProductIds)
      BY CatalogueAssumption
    <2>3. IsFiniteSet(sample.onSale) /\ sample.onSale \in SUBSET Nat
      BY <2>1, <2>2, FS_Subset
    <2>4. sample.keyword \in Seq(Letters) /\ \A p \in sample.onSale : sample.name[p] \in Seq(Letters)
      BY <2>1, CatalogueAssumption
    <2> QED
      BY <2>3, <2>4, ChosenAsNamed
  <1> QED
    BY <1>1, Invariance, PTL

\* derive_logistics never takes back what a customer has seen, whatever record
\* it derives, whatever the minutes configured, whenever it is looked at.
THEOREM ShipmentsOnlyAdvance == Spec => []ShipmentsAdvance
  <1>1. IInv => ShipmentsAdvance
    <2> SUFFICES ASSUME IInv, sample.kind = "shipment"
                 PROVE  ShipmentOnlyAdvances(sample.record, sample.raw, sample.early, sample.late)
      BY DEF ShipmentsAdvance
    <2>1. /\ sample.record \in Records /\ sample.raw \in Overrides
          /\ sample.early \in Clock /\ sample.late \in Clock
      BY DEF IInv, TypeOK, ShipmentSample
    <2>2. /\ sample.record \in Shipment /\ sample.raw \in Seq(Int)
          /\ sample.early \in Int /\ sample.late \in Int
      BY <2>1, ShipmentsAssumption
    <2> QED
      BY <2>2, AdvancesOnly
  <1> QED
    BY <1>1, Invariance, PTL

=============================================================================
