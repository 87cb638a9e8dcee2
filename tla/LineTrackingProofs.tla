-------------------------- MODULE LineTrackingProofs --------------------------
(***************************************************************************)
(* Proofs about the traversal, for every size of the buckets and of the    *)
(* columns, every content of the columns, every reach and all gains of the *)
(* predictors.  A set of trackers is counted in each of the containers     *)
(* (Occ): what an action moves is counted before and after.                *)
(***************************************************************************)
EXTENDS LineTracking, DataLemmas

(* The buckets of two positions that are less than a bucket apart. *)
LEMMA BucketsAreClose ==
    ASSUME NEW a \in Nat, NEW b \in Nat, a <= b + 2 * BucketSize
    PROVE  BucketNumber(a) <= BucketNumber(b) + 1
<1>1. BucketSize \in Nat \ {0} /\ BucketCount \in Int
  BY LineTrackingAssumption DEF BucketCount
<1> DEFINE x == a \div 2
           y == b \div 2
           p == x \div BucketSize
           q == y \div BucketSize
<1>2. x \in Int /\ y \in Int /\ x <= y + BucketSize
  BY <1>1
<1> HIDE DEF x, y
<1>3. p <= q + 1
  BY <1>1, <1>2, QuotientsAreClose
<1>4. p \in Int /\ q \in Int
  BY <1>1, <1>2, DivisionBounds
<1> HIDE DEF p, q
<1>5. /\ Min({BucketCount - 1, p}) = IF BucketCount - 1 <= p THEN BucketCount - 1 ELSE p
      /\ Min({BucketCount - 1, q}) = IF BucketCount - 1 <= q THEN BucketCount - 1 ELSE q
  BY <1>1, <1>4, MinOfTwo
<1>6. BucketNumber(a) = Min({BucketCount - 1, p}) /\ BucketNumber(b) = Min({BucketCount - 1, q})
  BY DEF BucketNumber, p, q, x, y
<1>7. QED
  BY <1>1, <1>3, <1>4, <1>5, <1>6

(* The bucket of a position is one of the buckets. *)
LEMMA BucketExists ==
    ASSUME NEW a \in Nat
    PROVE  /\ BucketNumber(a) \in Int
           /\ 0 <= BucketNumber(a) /\ BucketNumber(a) <= BucketCount - 1
<1>1. BucketSize \in Nat \ {0} /\ NMax \in Nat /\ BucketSize <= NMax
  BY LineTrackingAssumption
<1>2. BucketCount \in Int /\ 1 <= BucketCount
  <2> DEFINE n == NMax + BucketSize - 1
             c == n \div BucketSize
  <2>1. n \in Int /\ BucketSize <= n
    BY <1>1
  <2>2. c \in Int /\ n < BucketSize * c + BucketSize
    <3> HIDE DEF n
    <3>1. QED
      BY <1>1, <2>1, DivisionBounds
  <2> HIDE DEF n, c
  <2>3. ASSUME c < 1 PROVE FALSE
    <3>1. CASE c = 0
      BY <1>1, <2>1, <2>2, <3>1
    <3>2. CASE c < 0
      <4>1. c * BucketSize < 0 * BucketSize
        BY <1>1, <2>2, <3>2, ProductsGrow
      <4>2. c * BucketSize = BucketSize * c /\ 0 * BucketSize = 0 /\ BucketSize * c \in Int
        BY <1>1, <2>2
      <4>3. QED
        BY <1>1, <2>1, <2>2, <4>1, <4>2
    <3>3. QED
      BY <2>2, <2>3, <3>1, <3>2
  <2>4. QED
    BY <2>2, <2>3 DEF BucketCount, c, n
<1> DEFINE x == a \div 2
           p == x \div BucketSize
<1>3. x \in Nat
  OBVIOUS
<1> HIDE DEF x
<1>4. p \in Nat
  BY <1>1, <1>3
<1> HIDE DEF p
<1>5. Min({BucketCount - 1, p}) = IF BucketCount - 1 <= p THEN BucketCount - 1 ELSE p
  BY <1>2, <1>4, MinOfTwo
<1>6. QED
  BY <1>2, <1>4, <1>5 DEF BucketNumber, p, x

LEMMA BucketsExist == BucketCount \in Nat \ {0}
<1>1. 0 \in Nat
  OBVIOUS
<1>2. BucketNumber(0) \in Int /\ 0 <= BucketNumber(0) /\ BucketNumber(0) <= BucketCount - 1
  BY <1>1, BucketExists
<1>3. BucketCount \in Int
  <2>1. BucketSize \in Nat \ {0} /\ NMax \in Nat
    BY LineTrackingAssumption
  <2> DEFINE n == NMax + BucketSize - 1
  <2>2. n \in Int
    BY <2>1
  <2> HIDE DEF n
  <2>3. n \div BucketSize \in Int
    BY <2>1, <2>2, DivisionBounds
  <2>4. QED
    BY <2>3 DEF BucketCount, n
<1>4. QED
  BY <1>2, <1>3

(***************************************************************************)
(* A tracker that accepts an observation is in a bucket that find_match    *)
(* visits, though the buckets are ordered by the last positions and the    *)
(* search is made around the observation, unless its prediction is more    *)
(* than a bucket away from that position: one more bucket is visited on    *)
(* either side, and no more.                                               *)
(***************************************************************************)
THEOREM WindowCovers ==
    ASSUME NEW f, NEW obs, Position(f) \in Nat, f.predicted \in Int,
           obs.pos \in Nat, obs.thick \in Nat,
           NEW b \in DOMAIN m_container, m_container[b] # <<>>,
           Found(f, obs), ~Strayed(f)
    PROVE  BucketNumber(Position(f)) \in Window(obs)
<1> DEFINE reach == Max({obs.thick, 2 * Sigma})
           low  == Max({obs.pos - reach, 0})
           high == obs.pos + reach
           bucket == BucketNumber(Position(f))
<1>1. /\ Sigma \in Nat /\ BucketSize \in Nat
      /\ f.predicted <= Position(f) + 2 * BucketSize
      /\ Position(f) <= f.predicted + 2 * BucketSize
  <2>1. Sigma \in Nat /\ BucketSize \in Nat
    BY LineTrackingAssumption
  <2>2. ~(Distance(f.predicted, Position(f)) > 2 * BucketSize)
    BY DEF Strayed
  <2>3. QED
    BY <2>1, <2>2 DEF Distance
<1>2. reach = IF obs.thick <= 2 * Sigma THEN 2 * Sigma ELSE obs.thick
  <2>1. 2 * Sigma \in Int /\ obs.thick \in Int
    BY <1>1
  <2>2. QED
    BY <2>1, MaxOfTwo
<1> HIDE DEF reach
<1>3. reach \in Nat /\ 2 * Sigma <= reach
  BY <1>1, <1>2
<1>4. low = IF obs.pos - reach <= 0 THEN 0 ELSE obs.pos - reach
  <2>1. obs.pos - reach \in Int
    BY <1>3
  <2>2. QED
    BY <2>1, MaxOfTwo
<1> HIDE DEF low
<1>5. Distance(f.predicted, obs.pos) <= 2 * Sigma
  BY DEF Found, accepts
<1>6. low \in Nat /\ high \in Nat
      /\ low <= Position(f) + 2 * BucketSize
      /\ Position(f) <= high + 2 * BucketSize
  <2>1. low \in Nat /\ high \in Nat
    BY <1>3, <1>4
  <2>2. obs.pos <= f.predicted + 2 * Sigma /\ f.predicted <= obs.pos + 2 * Sigma
    BY <1>1, <1>5 DEF Distance
  <2>3. Position(f) <= high + 2 * BucketSize
    BY <1>1, <1>3, <2>2
  <2>4. CASE obs.pos - reach <= 0
    <3>1. low = 0
      BY <1>4, <2>4
    <3>2. QED
      BY <1>1, <2>1, <2>3, <3>1
  <2>5. CASE ~(obs.pos - reach <= 0)
    <3>1. low = obs.pos - reach
      BY <1>4, <2>5
    <3>2. obs.pos - reach <= Position(f) + 2 * BucketSize
      BY <1>1, <1>3, <2>2
    <3>3. QED
      BY <2>1, <2>3, <3>1, <3>2
  <2>6. QED
    BY <2>4, <2>5
<1> HIDE DEF high
<1>7. BucketNumber(low) <= bucket + 1 /\ bucket <= BucketNumber(high) + 1
  BY <1>6, BucketsAreClose
<1>8. /\ bucket \in Int /\ 0 <= bucket /\ bucket <= BucketCount - 1
      /\ BucketNumber(low) \in Int /\ BucketNumber(high) \in Int
      /\ BucketCount \in Int
  <2>1. bucket \in Int /\ 0 <= bucket /\ bucket <= BucketCount - 1
    BY BucketExists
  <2>2. BucketNumber(low) \in Int /\ BucketNumber(high) \in Int
    BY <1>6, BucketExists
  <2>3. QED
    BY <2>1, <2>2, BucketsExist
<1> HIDE DEF bucket
<1>9. /\ Max({0, BucketNumber(low) - 1})
               = IF 0 <= BucketNumber(low) - 1 THEN BucketNumber(low) - 1 ELSE 0
      /\ Min({BucketCount - 1, BucketNumber(high) + 1})
            = IF BucketCount - 1 <= BucketNumber(high) + 1
               THEN BucketCount - 1 ELSE BucketNumber(high) + 1
  <2> DEFINE l == BucketNumber(low) - 1
             h == BucketNumber(high) + 1
             m == BucketCount - 1
  <2>1. l \in Int /\ h \in Int /\ m \in Int
    BY <1>8
  <2> HIDE DEF l, h, m
  <2>2. Max({0, l}) = IF 0 <= l THEN l ELSE 0
    BY <2>1, MaxOfTwo
  <2>3. Min({m, h}) = IF m <= h THEN m ELSE h
    BY <2>1, MinOfTwo
  <2>4. QED
    BY <2>2, <2>3 DEF l, h, m
<1>10. bucket \in Max({0, BucketNumber(low) - 1}) .. Min({BucketCount - 1, BucketNumber(high) + 1})
  BY <1>7, <1>8, <1>9
<1>11. (IF \E c \in DOMAIN m_container : m_container[c] # <<>> THEN 2 * Sigma ELSE 0) = 2 * Sigma
  OBVIOUS
<1>12. Window(obs)
             = Max({0, BucketNumber(low) - 1}) .. Min({BucketCount - 1, BucketNumber(high) + 1})
  BY <1>11 DEF Window, reach, low, high
<1>13. QED
  BY <1>10, <1>12 DEF bucket

AreInsertions(v, c, s, n) ==
    /\ v[0] = c
    /\ \A j \in 1 .. n : v[j] = Inserted(v[j - 1], s[j])
    /\ AllInserted(c, s) = v[n]

LEMMA AllInsertedIs ==
    ASSUME NEW S, NEW c \in S, NEW s, NEW n \in Nat, DOMAIN s = 1 .. n,
           \A d \in S, j \in 1 .. n : Inserted(d, s[j]) \in S
    PROVE  \E v \in [0 .. n -> S] : AreInsertions(v, c, s, n)
<1> DEFINE U == 1 .. n
           IsFolded(F) ==
               F = [A \in SUBSET U |-> IF A = {} THEN c ELSE Inserted(F[A \ {Max(A)}], s[Max(A)])]
           iter == CHOOSE F : IsFolded(F)
           g == [e \in U \X S |-> Inserted(e[2], s[e[1]])]
<1>1. AllInserted(c, s) = iter[U]
  BY DEF AllInserted, FoldLeft, MapThenFoldSet
<1>2. \A j \in 1 .. n, d \in S : g[<<j, d>>] = Inserted(d, s[j]) /\ g[<<j, d>>] \in S
  OBVIOUS
<1> HIDE DEF g
<1>3. PICK F \in [SUBSET U -> S] : IsFold(F, g, c, n)
  BY <1>2, FoldExists
<1>4. ASSUME NEW A \in SUBSET U, A # {}
      PROVE  Max(A) \in U /\ A \ {Max(A)} \in SUBSET U
  BY <1>4, GreatestRank
<1>5. IsFolded(F)
  <2>1. F = [A \in SUBSET U |-> F[A]]
    OBVIOUS
  <2>2. \A A \in SUBSET U : F[A] = IF A = {} THEN c ELSE g[<<Max(A), F[A \ {Max(A)}]>>]
    BY <1>3 DEF IsFold
  <2>3. ASSUME NEW A \in SUBSET U
        PROVE  F[A] = IF A = {} THEN c ELSE Inserted(F[A \ {Max(A)}], s[Max(A)])
    <3>1. CASE A = {}
      BY <2>2, <3>1
    <3>2. CASE A # {}
      <4>1. Max(A) \in U /\ F[A \ {Max(A)}] \in S
        BY <1>4, <3>2
      <4>2. QED
        BY <1>2, <2>2, <3>2, <4>1
    <3>3. QED
      BY <3>1, <3>2
  <2>4. QED
    BY <2>1, <2>3
<1>6. IsFolded(iter)
  <2> HIDE DEF IsFolded
  <2>1. QED
    BY <1>5
<1>7. \A A \in SUBSET U : iter[A] = IF A = {} THEN c ELSE Inserted(iter[A \ {Max(A)}], s[Max(A)])
  BY <1>6
<1> HIDE DEF iter
<1> DEFINE v == [j \in 0 .. n |-> iter[1 .. j]]
<1>8. v[0] = c
  <2>1. 1 .. 0 = {}
    OBVIOUS
  <2>2. iter[{}] = c
    BY <1>7
  <2>3. iter[1 .. 0] = c
    BY <2>1, <2>2
  <2>4. 0 \in 0 .. n
    OBVIOUS
  <2>5. QED
    BY <2>3, <2>4
<1>9. ASSUME NEW j \in 1 .. n PROVE v[j] = Inserted(v[j - 1], s[j])
  <2>1. /\ 1 .. j \in SUBSET U /\ 1 .. j # {} /\ Max(1 .. j) = j
        /\ (1 .. j) \ {j} = 1 .. j - 1
    BY GreatestOfFirst
  <2>2. j - 1 \in 0 .. n /\ j \in 0 .. n
    OBVIOUS
  <2>3. iter[1 .. j] = Inserted(iter[1 .. j - 1], s[j])
    BY <1>7, <2>1
  <2>4. QED
    BY <2>2, <2>3
<1>10. AllInserted(c, s) = v[n]
  BY <1>1
<1>11. \A j \in 0 .. n : v[j] \in S
  <2> DEFINE T == {j \in Nat : j \in 0 .. n => v[j] \in S}
  <2> HIDE DEF v
  <2>1. 0 \in T
    BY <1>8
  <2>2. ASSUME NEW j \in T PROVE j + 1 \in T
    <3>1. SUFFICES ASSUME j + 1 \in 0 .. n PROVE v[j + 1] \in S
      OBVIOUS
    <3>2. j \in Nat /\ j \in 0 .. n /\ j + 1 \in 1 .. n /\ (j + 1) - 1 = j
      BY <3>1
    <3>3. v[j] \in S /\ v[j + 1] = Inserted(v[j], s[j + 1])
      BY <1>9, <3>2
    <3>4. QED
      BY <3>2, <3>3
  <2> HIDE DEF T
  <2>3. T = Nat
    BY <2>1, <2>2, SetOfAllNaturals DEF T
  <2>4. QED
    BY <2>3 DEF T
<1>12. v \in [0 .. n -> S]
  BY <1>11
<1> HIDE DEF v
<1>13. QED
  BY <1>8, <1>9, <1>10, <1>12 DEF AreInsertions

(* The types of the records. *)
Span == [t : Nat, obs : Run]

Observed == [obs : Run, match_count : Nat, t : Nat, id : Nat]

Tracker == [name : Nat, first : Nat, last_integration : Nat, spans : Seq(Span) \ {<<>>},
            S : [pos : Int, slope : Int, thick : Int], predicted : Int,
            observation : Observed \cup {NoObservation}, distance : Int,
            same : Seq(Int), under : Int]

Bucket == 0 .. BucketCount - 1

Container == [Bucket -> Seq(Tracker)]

LEMMA PositionIs ==
    ASSUME NEW f \in Tracker
    PROVE  Position(f) \in Nat
           /\ BucketNumber(Position(f)) \in Bucket
<1>1. f.spans \in Seq(Span) /\ f.spans # <<>>
  BY DEF Tracker
<1>2. Last(f.spans) \in Span
  BY <1>1, FrontAndLast
<1>3. Position(f) \in Nat
  BY <1>2 DEF Span, Run, Position
<1>4. BucketNumber(Position(f)) \in Int /\ 0 <= BucketNumber(Position(f))
      /\ BucketNumber(Position(f)) <= BucketCount - 1
  BY <1>3, BucketExists
<1>5. QED
  BY <1>3, <1>4, BucketsExist DEF Bucket

(* A tracker is appended to the bucket of its position. *)
LEMMA InsertedIs ==
    ASSUME NEW c \in Container, NEW f \in Tracker
    PROVE  /\ Inserted(c, f) \in Container
           /\ \A b \in Bucket :
                 Inserted(c, f)[b] = IF b = BucketNumber(Position(f)) THEN Append(c[b], f) ELSE c[b]
<1> DEFINE k == BucketNumber(Position(f))
<1>1. k \in Bucket
  BY PositionIs
<1> HIDE DEF k
<1>2. Inserted(c, f) = [c EXCEPT ![k] = Append(@, f)]
  BY DEF Inserted, k
<1>3. Append(c[k], f) \in Seq(Tracker)
  BY <1>1, AppendProperties DEF Container
<1>4. QED
  BY <1>1, <1>2, <1>3 DEF Container, k

(* What the buckets hold, and where. *)
Held(c) == UNION {Range(c[b]) : b \in Bucket}

Homed(c) == \A b \in Bucket : \A f \in Range(c[b]) : BucketNumber(Position(f)) = b

Cells(c) == [b \in 1 .. BucketCount |-> c[b - 1]]

LEMMA CellsType ==
    ASSUME NEW c \in Container
    PROVE  /\ Cells(c) \in Family(Tracker, BucketCount)
           /\ Released(c) = FlattenSeq(Cells(c))
           /\ Released(c) \in Seq(Tracker)
<1>1. BucketCount \in Nat \ {0}
  BY BucketsExist
<1>2. ASSUME NEW b \in 1 .. BucketCount PROVE b - 1 \in Bucket /\ c[b - 1] \in Seq(Tracker)
  <2>1. b - 1 \in Bucket
    BY <1>1 DEF Bucket
  <2>2. QED
    BY <2>1 DEF Container
<1>3. Cells(c) \in Family(Tracker, BucketCount)
  BY <1>2 DEF Cells, Family
<1>4. FlattenSeq(Cells(c)) \in Seq(Tracker)
  BY <1>1, <1>3, FamilyIs
<1>5. QED
  BY <1>3, <1>4 DEF Released, Cells

LEMMA InsertedHolds ==
    ASSUME NEW c \in Container, NEW f \in Tracker
    PROVE  /\ Inserted(c, f) \in Container
           /\ \A T : Occ(Released(Inserted(c, f)), T)
                    = Occ(Released(c), T) + (IF f \in T THEN 1 ELSE 0)
           /\ Held(Inserted(c, f)) = Held(c) \cup {f}
           /\ Homed(c) => Homed(Inserted(c, f))
<1> DEFINE d == Inserted(c, f)
           k == BucketNumber(Position(f))
<1>1. /\ d \in Container /\ k \in Bucket
      /\ \A b \in Bucket : d[b] = IF b = k THEN Append(c[b], f) ELSE c[b]
  BY InsertedIs, PositionIs
<1>2. \A b \in Bucket : c[b] \in Seq(Tracker) /\ d[b] \in Seq(Tracker)
  BY <1>1 DEF Container
<1> HIDE DEF d
<1>3. ASSUME NEW T
      PROVE  Occ(Released(d), T) = Occ(Released(c), T) + (IF f \in T THEN 1 ELSE 0)
  <2> DEFINE n == BucketCount
             ss == Cells(c)
             rr == Cells(d)
             h == k + 1
             e == IF f \in T THEN 1 ELSE 0
  <2>1. /\ ss \in Family(Tracker, n) /\ Released(c) = FlattenSeq(ss)
        /\ rr \in Family(Tracker, n) /\ Released(d) = FlattenSeq(rr)
    BY <1>1, CellsType
  <2>2. n \in Nat \ {0} /\ h \in 1 .. n /\ e \in Nat
    BY <1>1, BucketsExist DEF Bucket
  <2>3. ASSUME NEW i \in 1 .. n
        PROVE  Occ(rr[i], T) = Occ(ss[i], T) + (IF i = h THEN e ELSE 0)
    <3>1. i - 1 \in Bucket /\ (i = h <=> i - 1 = k) /\ rr[i] = d[i - 1] /\ ss[i] = c[i - 1]
      BY <1>1, <2>2 DEF Bucket, Cells
    <3>2. Occ(ss[i], T) \in Nat
      BY <1>2, <3>1, OccIsNatural
    <3>3. CASE i = h
      <4>1. rr[i] = Append(ss[i], f) /\ ss[i] \in Seq(Tracker)
        BY <1>1, <1>2, <3>1, <3>3
      <4>2. Occ(Append(ss[i], f), T) = Occ(ss[i], T) + (IF f \in T THEN 1 ELSE 0)
        <5> DEFINE r == ss[i]
        <5>1. r \in Seq(Tracker)
          BY <4>1
        <5> HIDE DEF r
        <5>2. Occ(Append(r, f), T) = Occ(r, T) + (IF f \in T THEN 1 ELSE 0)
          BY <5>1, OccAppend
        <5>3. QED
          BY <5>2 DEF r
      <4>3. QED
        BY <3>3, <4>1, <4>2
    <3>4. CASE i # h
      BY <1>1, <3>1, <3>2, <3>4
    <3>5. QED
      BY <3>3, <3>4
  <2> HIDE DEF n, ss, rr, h, e
  <2>6. GrowsAt(rr, ss, n, h, e, T)
    BY <2>3 DEF GrowsAt
  <2>4. Occ(FlattenSeq(rr), T) = Occ(FlattenSeq(ss), T) + e
    <3>1. ss \in Family(Tracker, n) /\ rr \in Family(Tracker, n)
      BY <2>1
    <3> HIDE <2>1, <2>3
    <3>2. QED
      BY <2>2, <2>6, <3>1, FlattenChange, SMTT(30)
  <2>5. QED
    BY <2>1, <2>4 DEF e
<1>4. \A b \in Bucket : Range(d[b]) = IF b = k THEN Range(c[b]) \cup {f} ELSE Range(c[b])
  <2>1. SUFFICES ASSUME NEW b \in Bucket
                 PROVE  Range(d[b]) = IF b = k THEN Range(c[b]) \cup {f} ELSE Range(c[b])
    OBVIOUS
  <2>2. CASE b = k
    <3> DEFINE r == c[b]
    <3>1. r \in Seq(Tracker) /\ d[b] = Append(r, f)
      BY <1>1, <1>2, <2>2
    <3> HIDE DEF r
    <3>2. /\ Len(r) \in Nat /\ DOMAIN r = 1 .. Len(r) /\ DOMAIN Append(r, f) = 1 .. Len(r) + 1
          /\ \A i \in 1 .. Len(r) : Append(r, f)[i] = r[i]
          /\ Append(r, f)[Len(r) + 1] = f
      BY <3>1, LenProperties, AppendProperties
    <3>3. Range(Append(r, f)) = Range(r) \cup {f}
      <4>1. ASSUME NEW i \in 1 .. Len(r) + 1 PROVE Append(r, f)[i] \in Range(r) \cup {f}
        <5>1. CASE i = Len(r) + 1
          BY <3>2, <5>1
        <5>2. CASE i # Len(r) + 1
          <6>1. i \in 1 .. Len(r)
            BY <3>2, <5>2
          <6>2. QED
            BY <3>2, <6>1 DEF Range
        <5>3. QED
          BY <5>1, <5>2
      <4>2. ASSUME NEW i \in 1 .. Len(r) PROVE r[i] \in Range(Append(r, f))
        <5>1. i \in 1 .. Len(r) + 1 /\ Append(r, f)[i] = r[i]
          BY <3>2
        <5>2. QED
          BY <3>2, <5>1 DEF Range
      <4>3. f \in Range(Append(r, f))
        <5>1. Len(r) + 1 \in 1 .. Len(r) + 1
          BY <3>2
        <5>2. QED
          BY <3>2, <5>1 DEF Range
      <4>4. QED
        BY <3>2, <4>1, <4>2, <4>3 DEF Range
    <3>4. QED
      BY <2>2, <3>1, <3>3 DEF r
  <2>3. CASE b # k
    BY <1>1, <2>3
  <2>4. QED
    BY <2>2, <2>3
<1>5. Held(d) = Held(c) \cup {f}
  BY <1>1, <1>4 DEF Held
<1>6. ASSUME Homed(c) PROVE Homed(d)
  <2>1. SUFFICES ASSUME NEW b \in Bucket, NEW g \in Range(d[b]) PROVE BucketNumber(Position(g)) = b
    BY DEF Homed
  <2>2. g \in Range(c[b]) \/ (b = k /\ g = f)
    BY <1>4
  <2>3. QED
    BY <1>6, <2>2 DEF Homed
<1>7. QED
  BY <1>1, <1>3, <1>5, <1>6 DEF d

(* Inserting a sequence of trackers. *)
LEMMA AllInsertedHolds ==
    ASSUME NEW c \in Container, NEW s \in Seq(Tracker)
    PROVE  /\ AllInserted(c, s) \in Container
           /\ \A T : Occ(Released(AllInserted(c, s)), T) = Occ(Released(c), T) + Occ(s, T)
           /\ Held(AllInserted(c, s)) = Held(c) \cup Range(s)
           /\ Homed(c) => Homed(AllInserted(c, s))
<1> DEFINE n == Len(s)
           P(d, j) ==
              /\ \A T : Occ(Released(d), T) = Occ(Released(c), T) + Occ(SubSeq(s, 1, j), T)
              /\ Held(d) = Held(c) \cup {s[i] : i \in 1 .. j}
              /\ Homed(c) => Homed(d)
<1>1. n \in Nat /\ DOMAIN s = 1 .. n /\ \A j \in 1 .. n : s[j] \in Tracker
  BY LenProperties, ElementOfSeq
<1>2. \A d \in Container, j \in 1 .. n : Inserted(d, s[j]) \in Container
  BY <1>1, InsertedHolds
<1> HIDE DEF n
<1>3. PICK v \in [0 .. n -> Container] : AreInsertions(v, c, s, n)
  BY <1>1, <1>2, AllInsertedIs
<1> DEFINE W == {j \in Nat : j \in 0 .. n => P(v[j], j)}
<1>4. P(c, 0)
  <2> DEFINE q == SubSeq(s, 1, 0)
  <2>1. q = <<>>
    BY SubSeqEmpty
  <2> HIDE DEF q
  <2>2. \A T : Occ(Released(c), T) \in Nat
    BY CellsType, OccIsNatural
  <2>3. {s[i] : i \in 1 .. 0} = {}
    OBVIOUS
  <2>4. ASSUME NEW T
        PROVE  Occ(Released(c), T) = Occ(Released(c), T) + Occ(q, T)
    <3>1. Occ(q, T) = 0
      BY <2>1, OccEmpty
    <3>2. QED
      BY <2>2, <3>1
  <2>5. Held(c) = Held(c) \cup {s[i] : i \in 1 .. 0}
    BY <2>3
  <2>6. QED
    BY <2>4, <2>5 DEF q
<1>5. ASSUME NEW j \in 1 .. n, NEW d \in Container, P(d, j - 1)
      PROVE  P(Inserted(d, s[j]), j)
  <2> DEFINE f == s[j]
             r == SubSeq(s, 1, j - 1)
             q == SubSeq(s, 1, j)
  <2>1. f \in Tracker /\ j \in 1 .. Len(s) /\ 1 \in 1 .. Len(s) /\ j \in 1 .. Len(s)
    BY <1>1 DEF n
  <2>2. q = r \o <<f>>
    BY <2>1, SubSeqRecursiveSecond
  <2>3. r \in Seq(Tracker)
    <3>1. \A i \in 1 .. j - 1 : s[i] \in Tracker
      BY <1>1
    <3>2. j - 1 \in Int
      BY <1>1
    <3>3. QED
      BY <3>1, <3>2, SubSeqProperties
  <2>4. <<f>> \in Seq(Tracker)
    BY <2>1
  <2> HIDE DEF f, r, q
  <2>5. ASSUME NEW T
        PROVE  Occ(Released(Inserted(d, f)), T) = Occ(Released(c), T) + Occ(q, T)
    <3> DEFINE e == IF f \in T THEN 1 ELSE 0
    <3>7. e \in Nat
      OBVIOUS
    <3>1. Occ(Released(Inserted(d, f)), T) = Occ(Released(d), T) + e
      BY <2>1, InsertedHolds
    <3>2. Occ(Released(d), T) = Occ(Released(c), T) + Occ(r, T)
      BY <1>5 DEF r
    <3>3. Occ(r \o <<f>>, T) = Occ(r, T) + Occ(<<f>>, T)
      BY <2>3, <2>4, OccConcat
    <3>4. Occ(<<f>>, T) = e
      BY OccSingle
    <3> HIDE DEF e
    <3>5. Occ(Released(c), T) \in Nat /\ Occ(r, T) \in Nat
      BY <2>3, CellsType, OccIsNatural
    <3>6. QED
      BY <2>2, <3>1, <3>2, <3>3, <3>4, <3>5, <3>7
  <2>6. Held(Inserted(d, f)) = Held(c) \cup {s[i] : i \in 1 .. j}
    <3>1. Held(Inserted(d, f)) = Held(d) \cup {f}
      BY <2>1, InsertedHolds
    <3>2. Held(d) = Held(c) \cup {s[i] : i \in 1 .. j - 1}
      BY <1>5
    <3>3. 1 .. j = (1 .. j - 1) \cup {j}
      BY <1>1
    <3>4. QED
      BY <3>1, <3>2, <3>3 DEF f
  <2>7. Homed(c) => Homed(Inserted(d, f))
    BY <1>5, <2>1, InsertedHolds
  <2>8. QED
    BY <2>5, <2>6, <2>7 DEF f, q
<1> HIDE DEF P
<1>6. 0 \in W
  BY <1>3, <1>4 DEF AreInsertions
<1>7. ASSUME NEW j \in W PROVE j + 1 \in W
  <2>1. SUFFICES ASSUME j + 1 \in 0 .. n PROVE P(v[j + 1], j + 1)
    OBVIOUS
  <2>2. j \in 0 .. n /\ j + 1 \in 1 .. n /\ (j + 1) - 1 = j
    BY <1>1, <2>1
  <2>3. v[j] \in Container /\ P(v[j], (j + 1) - 1) /\ v[j + 1] = Inserted(v[j], s[j + 1])
    BY <1>3, <2>2 DEF AreInsertions
  <2>4. P(Inserted(v[j], s[j + 1]), j + 1)
    BY <1>5, <2>2, <2>3
  <2>5. QED
    BY <2>3, <2>4
<1> HIDE DEF W
<1>8. W = Nat
  BY <1>6, <1>7, SetOfAllNaturals DEF W
<1>9. P(v[n], n) /\ v[n] \in Container
  BY <1>1, <1>3, <1>8 DEF W
<1>10. SubSeq(s, 1, n) = s
  BY SubSeqFull DEF n
<1>11. Range(s) = {s[i] : i \in 1 .. n}
  BY <1>1 DEF Range
<1>12. QED
  BY <1>3, <1>9, <1>10, <1>11 DEF P, AreInsertions

LEMMA SelectedIs ==
    ASSUME NEW S, NEW s \in Seq(S), NEW I, NEW T
    PROVE  /\ Selected(s, I) \in Seq({s[a] : a \in I \cap DOMAIN s})
           /\ Selected(s, I) \in Seq(S)
           /\ Occ(Selected(s, I), T) = Cardinality(Ranks(s, I, T))
<1>1. Selected(s, I) = Selection(s, I)
  BY DEF Selected, Selection, IsSelection
<1>2. QED
  BY <1>1, SelectionIs

LEMMA SelectedSplits ==
    ASSUME NEW S, NEW s \in Seq(S), NEW I, NEW J, J = DOMAIN s \ I, NEW T
    PROVE  Occ(s, T) = Occ(Selected(s, I), T) + Occ(Selected(s, J), T)
<1>1. \A K : Selected(s, K) = Selection(s, K)
  BY DEF Selected, Selection, IsSelection
<1>2. QED
  BY <1>1, SelectionSplits

(* What the buckets hold is what is counted in them. *)
LEMMA OccReleased ==
    ASSUME NEW c \in Container, NEW T
    PROVE  /\ Occ(Released(c), T) \in Nat
           /\ Occ(Released(c), T) # 0 <=> \E b \in Bucket : \E f \in Range(c[b]) : f \in T
<1> DEFINE n == BucketCount
           ss == Cells(c)
<1>1. /\ n \in Nat \ {0} /\ ss \in Family(Tracker, n) /\ Released(c) = FlattenSeq(ss)
      /\ Released(c) \in Seq(Tracker)
  BY BucketsExist, CellsType
<1>2. Occ(Released(c), T) \in Nat
  BY <1>1, OccIsNatural
<1>3. \A b \in Bucket : b + 1 \in 1 .. n /\ ss[b + 1] = c[b]
  BY <1>1 DEF Bucket, Cells
<1>4. \A i \in 1 .. n : i - 1 \in Bucket /\ ss[i] = c[i - 1]
  BY <1>1 DEF Bucket, Cells
<1>5. \A i \in 1 .. n : ss[i] \in Seq(Tracker)
  <2> HIDE DEF n, ss
  <2>1. QED
    BY <1>1, FamilyIs
<1>6. ASSUME NEW b \in Bucket, NEW f \in Range(c[b]), f \in T PROVE Occ(Released(c), T) # 0
  <2>1. b + 1 \in 1 .. n /\ ss[b + 1] = c[b]
    BY <1>3
  <2>2. PICK x \in DOMAIN ss[b + 1] : ss[b + 1][x] = f
    BY <1>6, <2>1 DEF Range
  <2> DEFINE k == b + 1
  <2>3. k \in 1 .. n /\ x \in DOMAIN ss[k] /\ ss[k][x] = f
    BY <2>1, <2>2
  <2> HIDE DEF n, ss, k
  <2>4. PICK y \in DOMAIN FlattenSeq(ss) : FlattenSeq(ss)[y] = f
    BY <1>1, <2>3, FlattenHolds
  <2> DEFINE A == {a \in DOMAIN Released(c) : Released(c)[a] \in T}
  <2>5. y \in A
    BY <1>1, <1>6, <2>4
  <2>6. IsFiniteSet(A) /\ Occ(Released(c), T) = Cardinality(A)
    BY <1>1, OccIsNatural DEF Occ
  <2> HIDE DEF A
  <2>7. QED
    BY <2>5, <2>6, FS_EmptySet
<1>7. ASSUME ~ \E b \in Bucket : \E f \in Range(c[b]) : f \in T PROVE Occ(Released(c), T) = 0
  <2>1. ASSUME NEW i \in 1 .. n PROVE Occ(ss[i], T) = 0 /\ Occ(ss[i], {}) = 0
    <3>1. \A a \in DOMAIN ss[i] : ss[i][a] \notin T
      BY <1>4, <1>7 DEF Range
    <3> HIDE DEF ss
    <3>2. Occ(ss[i], T) = 0
      BY <3>1, OccNone
    <3>3. Occ(ss[i], {}) = 0
      BY OccNone
    <3>4. QED
      BY <3>2, <3>3
  <2> HIDE DEF n, ss
  <2>2. Balances(ss, T, ss, {}, ss, {}, n)
    BY <2>1 DEF Balances
  <2>3. Occ(FlattenSeq(ss), T) = Occ(FlattenSeq(ss), {}) + Occ(FlattenSeq(ss), {})
    BY <1>1, <2>2, FlattenBalance
  <2>4. Occ(FlattenSeq(ss), {}) = 0
    BY OccNone
  <2>5. QED
    BY <1>1, <2>3, <2>4
<1>8. QED
  BY <1>2, <1>6, <1>7

LEMMA EmptyBucketsHold ==
    /\ EmptyBuckets \in Container
    /\ \A T : Occ(Released(EmptyBuckets), T) = 0
    /\ Released(EmptyBuckets) = <<>>
    /\ Homed(EmptyBuckets)
<1>1. EmptyBuckets \in Container /\ \A b \in Bucket : EmptyBuckets[b] = <<>>
  <2>1. <<>> \in Seq(Tracker)
    BY EmptySeq
  <2>2. QED
    BY <2>1 DEF EmptyBuckets, Container, Bucket
<1>2. \A b \in Bucket : Range(EmptyBuckets[b]) = {}
  <2>1. Range(<<>>) = {}
    BY DEF Range
  <2>2. QED
    BY <1>1, <2>1
<1>3. \A T : Occ(Released(EmptyBuckets), T) = 0
  BY <1>1, <1>2, OccReleased
<1>4. Released(EmptyBuckets) = <<>>
  <2> DEFINE r == Released(EmptyBuckets)
  <2>1. r \in Seq(Tracker)
    BY <1>1, CellsType
  <2>2. Occ(r, Tracker) = 0
    BY <1>3
  <2> HIDE DEF r
  <2>3. Len(r) = 0
    BY <2>1, <2>2, OccAll
  <2>4. r = <<>>
    BY <2>1, <2>3, EmptySeq
  <2>5. QED
    BY <2>4 DEF r
<1>5. QED
  BY <1>1, <1>2, <1>3, <1>4 DEF Homed

(* Only under changes. *)
LEMMA PassedOverIs ==
    ASSUME NEW f \in Tracker, NEW obs, t \in Nat
    PROVE  /\ PassedOver(f, obs) \in Tracker
           /\ PassedOver(f, obs).name = f.name /\ PassedOver(f, obs).spans = f.spans
           /\ PassedOver(f, obs).predicted = f.predicted /\ PassedOver(f, obs).S = f.S
           /\ PassedOver(f, obs).observation = f.observation
           /\ PassedOver(f, obs).distance = f.distance
           /\ Position(PassedOver(f, obs)) = Position(f)
<1>1. PassedOver(f, obs) \in {f, [f EXCEPT !.under = t]}
  BY DEF PassedOver
<1>2. /\ PassedOver(f, obs) \in Tracker
      /\ PassedOver(f, obs).name = f.name /\ PassedOver(f, obs).spans = f.spans
      /\ PassedOver(f, obs).predicted = f.predicted /\ PassedOver(f, obs).S = f.S
      /\ PassedOver(f, obs).observation = f.observation
      /\ PassedOver(f, obs).distance = f.distance
  <2>1. CASE PassedOver(f, obs) = f
    BY <2>1
  <2>2. CASE PassedOver(f, obs) = [f EXCEPT !.under = t]
    <3> DEFINE g == PassedOver(f, obs)
    <3>1. g = [f EXCEPT !.under = t]
      BY <2>2
    <3> HIDE DEF g
    <3>2. g \in Tracker
      <4>1. t \in Int /\ f \in Tracker
        OBVIOUS
      <4>2. QED
        BY ONLY <3>1, <4>1 DEF Tracker
    <3>3. /\ g.name = f.name /\ g.spans = f.spans
          /\ g.predicted = f.predicted /\ g.S = f.S
          /\ g.observation = f.observation /\ g.distance = f.distance
      BY <3>1 DEF Tracker
    <3>4. QED
      BY <3>2, <3>3 DEF g
  <2>3. QED
    BY <1>1, <2>1, <2>2
<1>3. QED
  BY <1>2 DEF Position

(* A set of trackers that does not look at under. *)
Unmoved(T, obs) == \A f \in Tracker : f \in T <=> PassedOver(f, obs) \in T

HereCells(obs) ==
    [b \in 1 .. BucketCount |-> IF b - 1 \in Window(obs) THEN Here(b - 1, obs) ELSE <<>>]

LEMMA HereIs ==
    ASSUME m_container \in Container, NEW obs
    PROVE  /\ HereCells(obs) \in Family(Tracker, BucketCount)
           /\ Accepted(obs) = FlattenSeq(HereCells(obs))
           /\ Accepted(obs) \in Seq(Tracker)
           /\ \A b \in Bucket : Here(b, obs) \in Seq(Tracker) /\ Left(b, obs) \in Seq(Tracker)
<1>1. BucketCount \in Nat \ {0}
  BY BucketsExist
<1>2. ASSUME NEW b \in Bucket PROVE Here(b, obs) \in Seq(Tracker) /\ Left(b, obs) \in Seq(Tracker)
  <2>1. m_container[b] \in Seq(Tracker)
    BY DEF Container
  <2>2. QED
    BY <2>1, SelectedIs DEF Here, Left
<1>3. HereCells(obs) \in Family(Tracker, BucketCount)
  <2>1. ASSUME NEW i \in 1 .. BucketCount
        PROVE  (IF i - 1 \in Window(obs) THEN Here(i - 1, obs) ELSE <<>>) \in Seq(Tracker)
    <3>1. i - 1 \in Bucket
      BY <1>1 DEF Bucket
    <3>2. <<>> \in Seq(Tracker)
      BY EmptySeq
    <3>3. QED
      BY <1>2, <3>1, <3>2
  <2>2. QED
    BY <2>1 DEF HereCells, Family
<1>4. FlattenSeq(HereCells(obs)) \in Seq(Tracker)
  BY <1>1, <1>3, FamilyIs
<1>5. QED
  BY <1>2, <1>3, <1>4 DEF Accepted, HereCells

(* find_match neither loses nor copies a tracker. *)
LEMMA OthersAre ==
    ASSUME m_container \in Container, t \in Nat, NEW obs
    PROVE  /\ Others(obs) \in Container
           /\ Homed(m_container) => Homed(Others(obs))
           /\ \A T : Unmoved(T, obs) =>
                 Occ(Released(m_container), T)
                       = Occ(Accepted(obs), T) + Occ(Released(Others(obs)), T)
<1> DEFINE c == m_container
           d == Others(obs)
<1>1. DOMAIN m_container = Bucket /\ \A b \in Bucket : c[b] \in Seq(Tracker)
  BY DEF Container
<1>2. \A b \in Bucket : Here(b, obs) \in Seq(Tracker) /\ Left(b, obs) \in Seq(Tracker)
  BY HereIs
<1>3. \A b \in Bucket : d[b] = IF b \in Window(obs)
                              THEN [a \in DOMAIN Left(b, obs) |-> PassedOver(Left(b, obs)[a], obs)]
                              ELSE c[b]
  BY <1>1 DEF Others
<1>4. ASSUME NEW s \in Seq(Tracker)
      PROVE  [a \in DOMAIN s |-> PassedOver(s[a], obs)] \in Seq(Tracker)
  <2>1. Len(s) \in Nat /\ DOMAIN s = 1 .. Len(s) /\ \A a \in 1 .. Len(s) : s[a] \in Tracker
    BY LenProperties, ElementOfSeq
  <2>2. \A a \in 1 .. Len(s) : PassedOver(s[a], obs) \in Tracker
    BY <2>1, PassedOverIs
  <2>3. QED
    BY <2>1, <2>2
<1>5. d \in Container
  <2>1. \A b \in Bucket : d[b] \in Seq(Tracker)
    BY <1>1, <1>2, <1>3, <1>4
  <2>2. d = [b \in Bucket |-> d[b]]
    BY <1>1 DEF Others
  <2>3. QED
    BY <2>1, <2>2 DEF Container
<1> HIDE DEF d
<1>6. ASSUME Homed(c) PROVE Homed(d)
  <2>1. SUFFICES ASSUME NEW b \in Bucket, NEW g \in Range(d[b]) PROVE BucketNumber(Position(g)) = b
    BY DEF Homed
  <2>2. CASE b \in Window(obs)
    <3> DEFINE s == Left(b, obs)
    <3>1. s \in Seq({c[b][a] : a \in (DOMAIN c[b] \ FoundIn(b, obs)) \cap DOMAIN c[b]})
      BY <1>1, SelectedIs DEF Left
    <3>2. PICK a \in DOMAIN s : g = PassedOver(s[a], obs)
      BY <1>3, <2>2 DEF Range
    <3>3. s[a] \in {c[b][x] : x \in DOMAIN c[b]}
      BY <3>1, <3>2
    <3> HIDE DEF s
    <3>4. s[a] \in Range(c[b]) /\ s[a] \in Tracker
      <4>1. \A x \in DOMAIN c[b] : c[b][x] \in Tracker
        BY <1>1, ElementOfSeq, LenProperties
      <4>2. QED
        BY <3>3, <4>1 DEF Range
    <3>5. QED
      BY <1>6, <3>2, <3>4, PassedOverIs DEF Homed
  <2>3. CASE b \notin Window(obs)
    BY <1>3, <1>6, <2>3 DEF Homed
  <2>4. QED
    BY <2>2, <2>3
<1>7. ASSUME NEW T, Unmoved(T, obs)
      PROVE  Occ(Released(c), T) = Occ(Accepted(obs), T) + Occ(Released(d), T)
  <2> DEFINE n == BucketCount
             ss == Cells(c)
             rr == HereCells(obs)
             qq == Cells(d)
  <2>1. ASSUME NEW b \in Bucket, b \in Window(obs)
        PROVE  Occ(c[b], T) = Occ(Here(b, obs), T) + Occ(d[b], T)
    <3> DEFINE s == Left(b, obs)
               r == d[b]
    <3>1. Occ(c[b], T) = Occ(Here(b, obs), T) + Occ(s, T)
      <4>1. \A s1 \in Seq(Tracker) : \A I :
               Occ(s1, T) = Occ(Selected(s1, I), T) + Occ(Selected(s1, DOMAIN s1 \ I), T)
        BY SelectedSplits
      <4>2. QED
        BY <1>1, <4>1 DEF Here, Left
    <3>2. r = [a \in DOMAIN s |-> PassedOver(s[a], obs)] /\ s \in Seq(Tracker)
      BY <1>2, <1>3, <2>1
    <3> HIDE DEF s, r
    <3>3. \A a \in DOMAIN s : s[a] \in T <=> r[a] \in T
      <4>1. \A a \in DOMAIN s : s[a] \in Tracker
        BY <3>2, ElementOfSeq, LenProperties
      <4>2. QED
        BY <1>7, <3>2, <4>1 DEF Unmoved
    <3>4. DOMAIN s = DOMAIN r
      BY <3>2
    <3>5. Occ(s, T) = Occ(r, T)
      BY <3>3, <3>4, OccSame
    <3>6. QED
      BY <3>1, <3>5 DEF r
  <2>2. ASSUME NEW b \in Bucket, b \notin Window(obs)
        PROVE  Occ(c[b], T) = Occ(<<>>, T) + Occ(d[b], T)
    <3>1. Occ(<<>>, T) = 0 /\ d[b] = c[b]
      BY <1>3, <2>2, OccEmpty
    <3>2. Occ(c[b], T) \in Nat
      BY <1>1, OccIsNatural
    <3>3. QED
      BY <3>1, <3>2
  <2>3. n \in Nat \ {0} /\ ss \in Family(Tracker, n) /\ rr \in Family(Tracker, n)
              /\ qq \in Family(Tracker, n)
    BY <1>5, BucketsExist, CellsType, HereIs
  <2>4. ASSUME NEW i \in 1 .. n
        PROVE  Occ(ss[i], T) = Occ(rr[i], T) + Occ(qq[i], T)
    <3>1. i - 1 \in Bucket /\ ss[i] = c[i - 1] /\ qq[i] = d[i - 1]
          /\ rr[i] = IF i - 1 \in Window(obs) THEN Here(i - 1, obs) ELSE <<>>
      BY <2>3 DEF Bucket, Cells, HereCells
    <3> HIDE DEF ss, rr, qq
    <3>2. CASE i - 1 \in Window(obs)
      BY <2>1, <3>1, <3>2
    <3>3. CASE i - 1 \notin Window(obs)
      BY <2>2, <3>1, <3>3
    <3>4. QED
      BY <3>2, <3>3
  <2>5. /\ Released(c) = FlattenSeq(ss) /\ Released(d) = FlattenSeq(qq)
        /\ Accepted(obs) = FlattenSeq(rr)
    BY <1>5, CellsType, HereIs
  <2> HIDE DEF n, ss, rr, qq
  <2>6. Balances(ss, T, rr, T, qq, T, n)
    BY <2>4 DEF Balances
  <2>7. Occ(FlattenSeq(ss), T) = Occ(FlattenSeq(rr), T) + Occ(FlattenSeq(qq), T)
    BY <2>3, <2>6, FlattenBalance
  <2>8. QED
    BY <2>5, <2>7
<1>8. QED
  BY <1>5, <1>6, <1>7 DEF d

(* The trackers of the buckets. *)
LEMMA HeldIs ==
    ASSUME NEW c \in Container
    PROVE  /\ \A f : f \in Held(c) <=> \E b \in Bucket : f \in Range(c[b])
           /\ \A b \in Bucket : \A f \in Range(c[b]) : f \in Tracker /\ c[b] # <<>>
           /\ Held(c) \in SUBSET Tracker
           /\ Range(Released(c)) \in SUBSET Held(c)
<1>1. \A f : f \in Held(c) <=> \E b \in Bucket : f \in Range(c[b])
  BY DEF Held
<1>2. ASSUME NEW b \in Bucket, NEW f \in Range(c[b]) PROVE f \in Tracker /\ c[b] # <<>>
  <2>1. c[b] \in Seq(Tracker)
    BY DEF Container
  <2>2. PICK a \in DOMAIN c[b] : c[b][a] = f
    BY DEF Range
  <2>3. f \in Tracker
    BY <2>1, <2>2, ElementOfSeq, LenProperties
  <2>4. DOMAIN <<>> = {}
    OBVIOUS
  <2>5. QED
    BY <2>2, <2>3, <2>4
<1>3. ASSUME NEW f \in Range(Released(c)) PROVE f \in Held(c)
  <2> DEFINE T == {f}
             r == Released(c)
  <2>1. r \in Seq(Tracker)
    BY CellsType
  <2>2. \E a \in DOMAIN r : r[a] \in T
    BY DEF Range
  <2> HIDE DEF T, r
  <2>3. Occ(r, T) # 0
    BY <2>1, <2>2, OccPositive
  <2>4. \E b \in Bucket : \E g \in Range(c[b]) : g \in T
    BY <2>3, OccReleased DEF r
  <2>5. QED
    BY <1>1, <2>4 DEF T
<1>4. QED
  BY <1>1, <1>2, <1>3

(* What find_match takes from a bucket, and what it leaves. *)
LEMMA HereOrLeft ==
    ASSUME m_container \in Container, NEW obs, NEW b \in Bucket
    PROVE  /\ \A f \in Range(m_container[b]) : Found(f, obs) => f \in Range(Here(b, obs))
           /\ Range(Here(b, obs)) \in SUBSET Range(m_container[b])
           /\ \A f \in Range(Left(b, obs)) : f \in Range(m_container[b]) /\ ~Found(f, obs)
<1> DEFINE s == m_container[b]
           I == FoundIn(b, obs)
           J == DOMAIN s \ I
<1>1. s \in Seq(Tracker) /\ I = {a \in DOMAIN s : Found(s[a], obs)} /\ DOMAIN s = 1 .. Len(s)
  BY LenProperties DEF Container, FoundIn
<1>2. Here(b, obs) = Selected(s, I) /\ Left(b, obs) = Selected(s, J)
  BY DEF Here, Left
<1> HIDE DEF s, I
<1>3. ASSUME NEW K, NEW f \in Range(Selected(s, K)) PROVE \E a \in K \cap DOMAIN s : s[a] = f
  <2> DEFINE V == {s[a] : a \in K \cap DOMAIN s}
             q == Selected(s, K)
  <2>1. q \in Seq(V)
    BY <1>1, SelectedIs
  <2> HIDE DEF V, q
  <2>2. PICK x \in DOMAIN q : q[x] = f
    BY DEF Range, q
  <2>3. f \in V
    BY <2>1, <2>2, ElementOfSeq, LenProperties
  <2>4. QED
    BY <2>3 DEF V
<1>4. ASSUME NEW f \in Range(s), Found(f, obs) PROVE f \in Range(Selected(s, I))
  <2> DEFINE T == {f}
             R == Ranks(s, I, T)
             q == Selected(s, I)
  <2>1. PICK a \in DOMAIN s : s[a] = f
    BY DEF Range
  <2>2. a \in R
    BY <1>1, <1>4, <2>1 DEF Ranks
  <2>3. IsFiniteSet(R)
    <3>1. R \in SUBSET (1 .. Len(s)) /\ IsFiniteSet(1 .. Len(s))
      BY <1>1, FS_Interval, LenProperties DEF Ranks
    <3> HIDE DEF R
    <3>2. QED
      BY <3>1, FS_Subset
  <2>4. Occ(q, T) = Cardinality(R) /\ q \in Seq(Tracker)
    <3> HIDE DEF T
    <3>1. QED
      BY <1>1, SelectedIs
  <2> HIDE DEF R, T
  <2>5. Occ(q, T) # 0
    BY <2>2, <2>3, <2>4, FS_EmptySet
  <2> HIDE DEF q
  <2>6. PICK x \in DOMAIN q : q[x] \in T
    BY <2>4, <2>5, OccPositive
  <2>7. QED
    BY <2>6 DEF T, q, Range
<1>5. Range(Selected(s, I)) \in SUBSET Range(s)
  <2>1. ASSUME NEW f \in Range(Selected(s, I)) PROVE f \in Range(s)
    <3>1. PICK a \in I \cap DOMAIN s : s[a] = f
      BY <1>3
    <3>2. QED
      BY <3>1 DEF Range
  <2>2. QED
    BY <2>1
<1>6. ASSUME NEW f \in Range(Selected(s, J)) PROVE f \in Range(s) /\ ~Found(f, obs)
  <2>1. PICK a \in J \cap DOMAIN s : s[a] = f
    BY <1>3
  <2>2. QED
    BY <1>1, <2>1 DEF Range
<1>7. QED
  BY <1>2, <1>4, <1>5, <1>6 DEF s

(* A tracker is taken from a bucket that is visited. *)
LEMMA AcceptedAre ==
    ASSUME m_container \in Container, NEW obs
    PROVE  /\ Range(Accepted(obs)) \in SUBSET Held(m_container)
           /\ \A b \in Bucket : b \in Window(obs)
                 => Range(Here(b, obs)) \in SUBSET Range(Accepted(obs))
<1> DEFINE n == BucketCount
           rr == HereCells(obs)
           T == Tracker \ Held(m_container)
<1>1. /\ n \in Nat \ {0} /\ rr \in Family(Tracker, n)
      /\ Accepted(obs) = FlattenSeq(rr) /\ Accepted(obs) \in Seq(Tracker)
  BY BucketsExist, HereIs
<1>2. ASSUME NEW i \in 1 .. n
      PROVE  /\ i - 1 \in Bucket
             /\ rr[i] = IF i - 1 \in Window(obs) THEN Here(i - 1, obs) ELSE <<>>
  BY <1>1 DEF Bucket, HereCells
<1>3. Range(Accepted(obs)) \in SUBSET Held(m_container)
  <2>1. ASSUME NEW i \in 1 .. n PROVE Occ(rr[i], T) = 0
    <3>1. i - 1 \in Bucket /\ (rr[i] = Here(i - 1, obs) \/ rr[i] = <<>>)
      BY <1>2
    <3>2. \A f \in Range(Here(i - 1, obs)) : f \in Held(m_container)
      BY <3>1, HereOrLeft, HeldIs
    <3>3. DOMAIN <<>> = {}
      OBVIOUS
    <3>4. \A a \in DOMAIN rr[i] : rr[i][a] \notin T
      BY <3>1, <3>2, <3>3 DEF Range
    <3> HIDE DEF rr, T
    <3>5. QED
      BY <3>4, OccNone
  <2> HIDE DEF n, rr, T
  <2>2. \A i \in 1 .. n : Occ(rr[i], {}) = 0
    BY OccNone
  <2>3. Balances(rr, T, rr, {}, rr, {}, n)
    BY <2>1, <2>2 DEF Balances
  <2>4. Occ(FlattenSeq(rr), T) = Occ(FlattenSeq(rr), {}) + Occ(FlattenSeq(rr), {})
    BY <1>1, <2>3, FlattenBalance
  <2>5. Occ(FlattenSeq(rr), {}) = 0
    BY OccNone
  <2>6. \A a \in DOMAIN Accepted(obs) : Accepted(obs)[a] \notin T
    BY <1>1, <2>4, <2>5, OccPositive
  <2>7. \A a \in DOMAIN Accepted(obs) : Accepted(obs)[a] \in Tracker
    BY <1>1, ElementOfSeq, LenProperties
  <2>8. QED
    BY <2>6, <2>7 DEF Range, T
<1>4. ASSUME NEW b \in Bucket, b \in Window(obs), NEW f \in Range(Here(b, obs))
      PROVE  f \in Range(Accepted(obs))
  <2> DEFINE k == b + 1
  <2>1. k \in 1 .. n /\ k - 1 = b
    BY <1>1 DEF Bucket
  <2>2. rr[k] = Here(b, obs)
    BY <1>2, <1>4, <2>1
  <2>3. PICK x \in DOMAIN rr[k] : rr[k][x] = f
    BY <2>2 DEF Range
  <2> HIDE DEF n, rr, k
  <2>4. PICK y \in DOMAIN FlattenSeq(rr) : FlattenSeq(rr)[y] = f
    BY <1>1, <2>1, <2>3, FlattenHolds
  <2>5. QED
    BY <1>1, <2>4 DEF Range
<1>5. QED
  BY <1>3, <1>4

(* A tracker that accepts an observation and is not found is out of reach. *)
LEMMA MissedAreStrayed ==
    ASSUME m_container \in Container, Homed(m_container), NEW obs \in Run,
           NEW f \in Range(Released(m_container)), Found(f, obs), f \notin Range(Accepted(obs))
    PROVE  Strayed(f)
<1>1. PICK b \in Bucket : f \in Range(m_container[b])
  BY HeldIs
<1>2. f \in Tracker /\ m_container[b] # <<>> /\ BucketNumber(Position(f)) = b
  BY <1>1, HeldIs DEF Homed
<1>3. b \notin Window(obs)
  BY <1>1, HereOrLeft, AcceptedAre
<1>4. Position(f) \in Nat /\ f.predicted \in Int /\ obs.pos \in Nat /\ obs.thick \in Nat
  BY <1>2, PositionIs DEF Tracker, Run
<1>5. DOMAIN m_container = Bucket
  BY DEF Container
<1>6. QED
  BY <1>1, <1>2, <1>3, <1>4, <1>5, WindowCovers

(* What begins, or gets other fields, is a tracker. *)
LEMMA NewTrackerIs ==
    ASSUME NEW name \in Nat, NEW obs \in Run, t \in Nat
    PROVE  /\ NewTracker(name, obs) \in Tracker
           /\ NewTracker(name, obs).name = name
           /\ Last(NewTracker(name, obs).spans).obs = obs
<1> DEFINE sp == [t |-> t, obs |-> obs]
<1>1. sp \in Span
  BY DEF Span
<1>2. NewTracker(name, obs).spans = <<sp>> /\ NewTracker(name, obs).name = name
  BY DEF NewTracker
<1>3. <<sp>> \in Seq(Span) /\ <<sp>> # <<>> /\ Last(<<sp>>) = sp
  <2> HIDE DEF sp
  <2>1. <<sp>> \in Seq(Span) /\ Len(<<sp>>) = 1 /\ <<sp>>[1] = sp
    BY <1>1
  <2>2. QED
    BY <2>1 DEF Last
<1>4. NewTracker(name, obs) \in Tracker
  <2>1. <<>> \in Seq(Int)
    BY EmptySeq
  <2> DEFINE q == <<sp>>
  <2>2. q \in Seq(Span) \ {<<>>}
    BY <1>3
  <2> DEFINE st == [pos |-> obs.pos, slope |-> 0, thick |-> obs.thick]
  <2>3. NewTracker(name, obs) = [name |-> name, first |-> t, last_integration |-> t, spans |-> q,
            S |-> st, predicted |-> 0, observation |-> NoObservation, distance |-> 0,
            same |-> <<>>, under |-> -1]
    BY DEF NewTracker
  <2>4. st \in [pos : Int, slope : Int, thick : Int]
    BY DEF Run
  <2> HIDE DEF q, st
  <2>5. QED
    BY <2>1, <2>2, <2>3, <2>4 DEF Tracker
<1>5. QED
  BY <1>2, <1>3, <1>4

LEMMA PredictedIs ==
    ASSUME NEW f \in Tracker
    PROVE  /\ Predicted(f) \in Tracker
           /\ Predicted(f).name = f.name
           /\ Predicted(f).observation = NoObservation
<1> DEFINE p == f.S.pos + f.S.slope
           q == IF descriptor.tracking_type = "KALMAN" THEN p ELSE f.S.pos
           S == [f.S EXCEPT !.pos = q]
           g == [f EXCEPT !.predicted = p, !.S = S, !.observation = NoObservation]
<1>1. f.S \in [pos : Int, slope : Int, thick : Int]
  BY DEF Tracker
<1>2. p \in Int /\ q \in Int
  BY <1>1
<1>3. Predicted(f) = g
  BY <1>1 DEF Predicted, Tracker
<1>4. S \in [pos : Int, slope : Int, thick : Int]
  <2> HIDE DEF q
  <2>1. QED
    BY <1>1, <1>2
<1> HIDE DEF p, q, S
<1>5. g \in Tracker /\ g.name = f.name /\ g.observation = NoObservation
  BY <1>2, <1>4 DEF Tracker
<1>6. QED
  BY <1>3, <1>5

(* How far a tracker is from an observation, and from the one it holds. *)
Gap(obs, f) == Distance(obs.pos, f.predicted) \div 2

Weighed(f) == f.observation # NoObservation => f.distance = Gap(f.observation.obs, f)

LEMMA ChosenIs ==
    ASSUME NEW f \in Tracker, NEW o \in Observed
    PROVE  /\ Chosen(f, o) \in Tracker
           /\ Chosen(f, o).name = f.name /\ Chosen(f, o).spans = f.spans
           /\ Chosen(f, o).predicted = f.predicted /\ Chosen(f, o).S = f.S
           /\ GivenUp(f, o) \in Observed \cup {NoObservation}
           /\ \/ /\ Chosen(f, o) = f /\ GivenUp(f, o) = o
                 /\ f.observation # NoObservation /\ f.distance <= Gap(o.obs, f)
              \/ /\ Chosen(f, o).observation = o /\ GivenUp(f, o) = f.observation
                 /\ Chosen(f, o).distance = Gap(o.obs, f)
                 /\ f.observation # NoObservation => Gap(o.obs, f) < f.distance
<1> DEFINE d == Distance(o.obs.pos, f.predicted) \div 2
           g == [f EXCEPT !.observation = o, !.distance = d]
<1>1. d \in Int /\ d = Gap(o.obs, f) /\ f.distance \in Int
  <2>1. o.obs.pos \in Nat /\ f.predicted \in Int /\ f.distance \in Int
    BY DEF Observed, Run, Tracker
  <2>2. Distance(o.obs.pos, f.predicted) \in Int
    BY <2>1 DEF Distance
  <2>3. QED
    BY <2>1, <2>2 DEF Gap
<1>2. Chosen(f, o) = IF Nearer(f, o) THEN g ELSE f
  BY DEF Chosen
<1>3. Nearer(f, o) <=> f.observation = NoObservation \/ d < f.distance
  BY DEF Nearer
<1> HIDE DEF d
<1>4. /\ g \in Tracker /\ g.name = f.name /\ g.spans = f.spans /\ g.predicted = f.predicted
      /\ g.S = f.S /\ g.observation = o /\ g.distance = d
  BY <1>1 DEF Tracker
<1>5. f.observation \in Observed \cup {NoObservation}
  BY DEF Tracker
<1> HIDE DEF g
<1>6. CASE Nearer(f, o)
  BY <1>1, <1>2, <1>3, <1>4, <1>5, <1>6 DEF GivenUp
<1>7. CASE ~Nearer(f, o)
  BY <1>1, <1>2, <1>3, <1>7 DEF GivenUp
<1>8. QED
  BY <1>6, <1>7

(* A part of a difference. *)
LEMMA CorrectionIs ==
    ASSUME NEW gain \in 0 .. GainUnit, NEW x \in Int
    PROVE  Correction(gain, x) \in Int
<1>1. gain \in Int /\ GainUnit \in Nat \ {0}
  BY LineTrackingAssumption
<1> DEFINE y == gain * x
<1>2. y \in Int
  BY <1>1
<1> HIDE DEF y
<1>3. y \div GainUnit \in Int
  BY <1>1, <1>2, DivisionBounds
<1>4. QED
  BY <1>3 DEF Correction, y

LEMMA IntegratedIs ==
    ASSUME NEW f \in Tracker, f.observation # NoObservation, t \in Nat,
           descriptor \in Descriptors, NEW gain \in descriptor.gains
    PROVE  /\ Integrated(f, gain) \in Tracker
           /\ Integrated(f, gain).name = f.name
<1>1. /\ f.observation \in Observed /\ f.spans \in Seq(Span) /\ f.same \in Seq(Int)
      /\ f.name \in Nat
  BY DEF Tracker
<1> DEFINE sp == [t |-> t, obs |-> f.observation.obs]
           q == Append(f.spans, sp)
           e == f.observation.id * f.observation.t
           s == IF f.observation.match_count # 1 THEN Append(f.same, e) ELSE <<>>
           o == f.observation.obs
           S == [pos   |-> f.predicted + Correction(gain.pos, o.pos - f.predicted),
                 slope |-> f.S.slope + Correction(gain.slope, o.pos - f.predicted),
                 thick |-> f.S.thick + Correction(gain.pos, o.thick - f.S.thick)]
<1>2. q \in Seq(Span) \ {<<>>}
  <2>1. sp \in Span
    BY <1>1 DEF Span, Observed
  <2> HIDE DEF sp
  <2>2. q \in Seq(Span) /\ Len(q) = Len(f.spans) + 1 /\ Len(f.spans) \in Nat
    BY <1>1, <2>1, AppendProperties, LenProperties
  <2> HIDE DEF q
  <2>3. Len(<<>>) = 0
    OBVIOUS
  <2>4. q # <<>>
    BY <2>2, <2>3
  <2>5. QED
    BY <2>2, <2>4
<1>3. s \in Seq(Int)
  <2>1. e \in Int
    <3>1. f.observation.id \in Nat /\ f.observation.t \in Nat
      BY <1>1 DEF Observed
    <3>2. QED
      BY <3>1
  <2> HIDE DEF e
  <2>2. Append(f.same, e) \in Seq(Int) /\ <<>> \in Seq(Int)
    BY <1>1, <2>1, AppendProperties, EmptySeq
  <2>3. QED
    BY <2>2
<1>4. S \in [pos : Int, slope : Int, thick : Int]
  <2>1. gain.pos \in 0 .. GainUnit /\ gain.slope \in 0 .. GainUnit
    BY LineTrackingAssumption
  <2>2. /\ o.pos \in Int /\ o.thick \in Int /\ f.predicted \in Int
        /\ f.S.slope \in Int /\ f.S.thick \in Int
    BY <1>1 DEF Observed, Run, Tracker
  <2> HIDE DEF o
  <2>3. o.pos - f.predicted \in Int /\ o.thick - f.S.thick \in Int
    BY <2>2
  <2>4. /\ Correction(gain.pos, o.pos - f.predicted) \in Int
        /\ Correction(gain.slope, o.pos - f.predicted) \in Int
        /\ Correction(gain.pos, o.thick - f.S.thick) \in Int
    BY <2>1, <2>3, CorrectionIs
  <2>5. QED
    BY <2>2, <2>4
<1>5. Integrated(f, gain) = [f EXCEPT !.last_integration = t, !.S = S, !.spans = q, !.same = s]
  BY DEF Integrated, Tracker
<1> HIDE DEF q, s, S
<1>6. QED
  BY <1>2, <1>3, <1>4, <1>5 DEF Tracker

(* The spans of a segment are spans. *)
LEMMA SpansOfIs ==
    ASSUME NEW f \in Tracker, NEW k \in Nat
    PROVE  SpansOf(f, k) \in Seq(Span)
<1>1. f.spans \in Seq(Span)
  BY DEF Tracker
<1> DEFINE s == f.spans
<1>2. Len(s) \in Nat /\ \A a \in 1 .. Len(s) : s[a] \in Span
  BY <1>1, LenProperties, ElementOfSeq
<1> DEFINE m == Len(s) - k
<1>3. m \in Int /\ \A a \in 1 .. m : s[a] \in Span
  BY <1>2
<1>4. SpansOf(f, k) = SubSeq(s, 1, m)
  BY DEF SpansOf
<1> HIDE DEF s, m
<1>5. QED
  BY <1>1, <1>3, <1>4, SubSeqProperties

(* The states of the loop of make_potential_fusion. *)
Fusion == [trackers : Seq(Tracker), segments : Seq(Seq(Span)), ended : SUBSET Nat,
           fj : Nat, deleted : BOOLEAN]

LEMMA ErasedIs ==
    ASSUME NEW s \in Fusion, NEW r \in 1 .. Len(s.trackers)
    PROVE  /\ Erased(s, r) \in Fusion
           /\ Erased(s, r).trackers = Without(s.trackers, r)
           /\ Erased(s, r).ended = s.ended \cup {s.trackers[r].name}
           /\ Erased(s, r).fj = s.fj /\ Erased(s, r).deleted = s.deleted
<1> DEFINE f == s.trackers[r]
           w == Without(s.trackers, r)
           e == s.ended \cup {f.name}
           g == IF f.last_integration - f.first - MinimumForFusion > MinLengthEmbryo
                THEN Append(s.segments, SpansOf(f, MinimumForFusion)) ELSE s.segments
<1>1. s.trackers \in Seq(Tracker) /\ s.segments \in Seq(Seq(Span)) /\ s.ended \in SUBSET Nat
      /\ s.fj \in Nat /\ s.deleted \in BOOLEAN
  BY DEF Fusion
<1>2. f \in Tracker /\ f.name \in Nat
  <2>1. f \in Tracker
    BY <1>1, ElementOfSeq
  <2>2. QED
    BY <2>1 DEF Tracker
<1>3. w \in Seq(Tracker)
  BY <1>1, WithoutIs
<1>4. e \in SUBSET Nat
  BY <1>1, <1>2
<1>5. g \in Seq(Seq(Span))
  <2>1. SpansOf(f, MinimumForFusion) \in Seq(Span)
    <3> HIDE DEF f
    <3>1. QED
      BY <1>2, SpansOfIs, LineTrackingAssumption
  <2> HIDE DEF f
  <2>2. Append(s.segments, SpansOf(f, MinimumForFusion)) \in Seq(Seq(Span))
    BY <1>1, <2>1, AppendProperties
  <2>3. QED
    BY <1>1, <2>2
<1>6. Erased(s, r) = [s EXCEPT !.trackers = w, !.ended = e, !.segments = g]
  BY DEF Erased, Without
<1> HIDE DEF w, e, g
<1>7. /\ Erased(s, r) \in Fusion
      /\ Erased(s, r).trackers = w /\ Erased(s, r).ended = e
      /\ Erased(s, r).fj = s.fj /\ Erased(s, r).deleted = s.deleted
  BY <1>1, <1>3, <1>4, <1>5, <1>6 DEF Fusion
<1>8. QED
  BY <1>7 DEF w, e

(* The trackers of a name, and how many a set of ended names leaves. *)
Named(n) == {f \in Tracker : f.name = n}

Alive(n, names) == IF n < born /\ n \notin names THEN 1 ELSE 0

(* How many are not among the trackers that are being selected. *)
Elsewhere(n) ==
    Occ(Released(m_container), Named(n)) + Occ(kept, Named(n)) + Occ(new_trackers, Named(n))

(* What the loop of make_potential_fusion keeps. *)
Safe(s) ==
    /\ fi \in 1 .. Len(s.trackers)
    /\ fi < s.fj
    /\ s.ended \in SUBSET (0 .. born - 1)
    /\ ~s.deleted => s.trackers[fi] = trackers[fi]
    /\ \A n \in Nat : OccFrom(s.trackers, fi, Named(n)) + Elsewhere(n) = Alive(n, s.ended)

LEMMA ErasedKeepsNames ==
    ASSUME NEW s \in Fusion, Safe(s), NEW r \in fi .. Len(s.trackers), born \in Nat,
           \A n \in Nat : Elsewhere(n) \in Nat
    PROVE  /\ Erased(s, r).ended \in SUBSET (0 .. born - 1)
           /\ \A n \in Nat :
                 OccFrom(Erased(s, r).trackers, fi, Named(n)) + Elsewhere(n)
                       = Alive(n, Erased(s, r).ended)
<1> DEFINE q == s.trackers
           f == q[r]
           w == Without(q, r)
           m == f.name
<1>1. q \in Seq(Tracker) /\ fi \in 1 .. Len(q) /\ r \in 1 .. Len(q) /\ Len(q) \in Nat
  BY LenProperties DEF Fusion, Safe
<1>2. f \in Tracker /\ m \in Nat
  <2>1. f \in Tracker
    BY <1>1, ElementOfSeq
  <2>2. QED
    BY <2>1 DEF Tracker
<1>3. Erased(s, r).trackers = w /\ Erased(s, r).ended = s.ended \cup {m}
  BY <1>1, ErasedIs
<1>4. w \in Seq(Tracker)
  <2> HIDE DEF q
  <2>1. QED
    BY <1>1, WithoutIs
<1>5. ASSUME NEW n \in Nat
      PROVE  /\ OccFrom(q, fi, Named(n)) = OccFrom(w, fi, Named(n)) + (IF n = m THEN 1 ELSE 0)
             /\ OccFrom(w, fi, Named(n)) \in Nat
  <2>1. f \in Named(n) <=> n = m
    BY <1>2 DEF Named
  <2>2. OccFrom(q, fi, Named(n)) = OccFrom(w, fi, Named(n)) + (IF f \in Named(n) THEN 1 ELSE 0)
    <3>1. r \in fi .. Len(q)
      OBVIOUS
    <3> DEFINE T == Named(n)
    <3> HIDE DEF q, T
    <3>2. OccFrom(q, fi, T) = OccFrom(Without(q, r), fi, T) + (IF q[r] \in T THEN 1 ELSE 0)
      BY ONLY <1>1, <3>1, WithoutCounts
    <3>3. QED
      BY <3>2 DEF T
  <2>3. OccFrom(w, fi, Named(n)) \in Nat
    <3>1. fi \in Int
      BY <1>1
    <3> HIDE DEF w
    <3>2. QED
      BY <1>4, <3>1, OccFromIsNatural
  <2>4. QED
    BY <2>1, <2>2, <2>3
<1> HIDE DEF w, m
<1>6. \A n \in Nat : OccFrom(q, fi, Named(n)) + Elsewhere(n) = Alive(n, s.ended)
  BY DEF Safe
<1> HIDE DEF q
<1>7. m < born /\ m \notin s.ended
  <2>1. Alive(m, s.ended) > 0
    <3>1. OccFrom(q, fi, Named(m)) = OccFrom(w, fi, Named(m)) + 1
          /\ OccFrom(w, fi, Named(m)) \in Nat /\ Elsewhere(m) \in Nat
      BY <1>2, <1>5
    <3>2. QED
      BY <1>2, <1>6, <3>1
  <2>2. QED
    BY <2>1 DEF Alive
<1>8. ASSUME NEW n \in Nat
      PROVE  OccFrom(w, fi, Named(n)) + Elsewhere(n) = Alive(n, s.ended \cup {m})
  <2>1. /\ OccFrom(q, fi, Named(n)) = OccFrom(w, fi, Named(n)) + (IF n = m THEN 1 ELSE 0)
        /\ OccFrom(w, fi, Named(n)) \in Nat /\ Elsewhere(n) \in Nat
        /\ OccFrom(q, fi, Named(n)) + Elsewhere(n) = Alive(n, s.ended)
    BY <1>5, <1>6
  <2>2. CASE n = m
    <3>1. Alive(n, s.ended) = 1 /\ Alive(n, s.ended \cup {m}) = 0
      BY <1>7, <2>2 DEF Alive
    <3>2. QED
      BY <2>1, <2>2, <3>1
  <2>3. CASE n # m
    <3>1. Alive(n, s.ended) = Alive(n, s.ended \cup {m})
      BY <2>3 DEF Alive
    <3>2. QED
      BY <2>1, <2>3, <3>1
  <2>4. QED
    BY <2>2, <2>3
<1>9. s.ended \cup {m} \in SUBSET (0 .. born - 1)
  <2>1. m \in 0 .. born - 1
    BY <1>2, <1>7
  <2>2. s.ended \in SUBSET (0 .. born - 1)
    BY DEF Safe
  <2>3. QED
    BY <2>1, <2>2
<1>10. QED
  BY <1>3, <1>8, <1>9

(* One turn of the loop. *)
LEMMA FusedKeeps ==
    ASSUME NEW s \in Fusion, Safe(s), born \in Nat, \A n \in Nat : Elsewhere(n) \in Nat
    PROVE  Fused(s) \in Fusion /\ Safe(Fused(s))
<1> DEFINE q == s.trackers
<1>1. q \in Seq(Tracker) /\ fi \in 1 .. Len(q) /\ Len(q) \in Nat /\ s.fj \in Nat /\ fi < s.fj
      /\ s.deleted \in BOOLEAN
  BY LenProperties DEF Fusion, Safe
<1>2. Fused(s) \in {s} \cup
        (IF s.deleted \/ s.fj > Len(q) THEN {}
         ELSE {Erased(s, s.fj), [Erased(s, fi) EXCEPT !.deleted = TRUE], [s EXCEPT !.fj = @ + 1]})
  BY DEF Fused
<1>3. CASE Fused(s) = s
  BY <1>3
<1>4. CASE ~s.deleted /\ ~(s.fj > Len(q)) /\ Fused(s) = Erased(s, s.fj)
  <2> DEFINE r == s.fj
             e == Erased(s, r)
  <2>1. r \in fi .. Len(q) /\ r \in 1 .. Len(q) /\ fi # r /\ fi \in 1 .. Len(q) - 1
    <3>1. ~(r > Len(q))
      BY <1>4
    <3> HIDE DEF q, r
    <3>2. r \in Nat /\ fi < r
      BY <1>1 DEF r
    <3>4. fi \in Nat /\ 1 <= fi /\ Len(q) \in Nat
      BY <1>1
    <3>3. QED
      BY ONLY <3>1, <3>2, <3>4
  <2>2. e \in Fusion /\ e.trackers = Without(q, r) /\ e.fj = s.fj /\ e.deleted = s.deleted
    BY <2>1, ErasedIs
  <2>3. /\ e.ended \in SUBSET (0 .. born - 1)
        /\ \A n \in Nat : OccFrom(e.trackers, fi, Named(n)) + Elsewhere(n) = Alive(n, e.ended)
    BY <2>1, ErasedKeepsNames
  <2> HIDE DEF e, r
  <2>4. Len(Without(q, r)) = Len(q) - 1 /\ Without(q, r)[fi] = q[fi]
    <3> HIDE DEF q
    <3>1. QED
      BY <1>1, <2>1, WithoutIs
  <2>5. q[fi] = trackers[fi]
    BY <1>4 DEF Safe
  <2>6. Safe(e)
    BY <1>1, <2>1, <2>2, <2>3, <2>4, <2>5 DEF Safe
  <2>7. QED
    BY <1>4, <2>2, <2>6 DEF e, r
<1>5. CASE ~s.deleted /\ ~(s.fj > Len(q)) /\ Fused(s) = [Erased(s, fi) EXCEPT !.deleted = TRUE]
  <2> DEFINE e == Erased(s, fi)
             g == [e EXCEPT !.deleted = TRUE]
  <2>1. fi \in fi .. Len(q) /\ fi \in 1 .. Len(q) /\ fi \in 1 .. Len(q) - 1
    BY <1>1, <1>5
  <2>2. e \in Fusion /\ e.trackers = Without(q, fi) /\ e.fj = s.fj
    BY <2>1, ErasedIs
  <2>3. /\ e.ended \in SUBSET (0 .. born - 1)
        /\ \A n \in Nat : OccFrom(e.trackers, fi, Named(n)) + Elsewhere(n) = Alive(n, e.ended)
    BY <2>1, ErasedKeepsNames
  <2> HIDE DEF e
  <2>4. Len(Without(q, fi)) = Len(q) - 1
    <3> HIDE DEF q
    <3>1. QED
      BY <1>1, <2>1, WithoutIs
  <2>5. g \in Fusion /\ g.trackers = e.trackers /\ g.fj = e.fj /\ g.ended = e.ended /\ g.deleted
    BY <2>2 DEF Fusion
  <2> HIDE DEF g
  <2>6. Safe(g)
    BY <1>1, <2>1, <2>2, <2>3, <2>4, <2>5 DEF Safe
  <2>7. QED
    BY <1>5, <2>5, <2>6 DEF e, g
<1>6. CASE ~s.deleted /\ ~(s.fj > Len(q)) /\ Fused(s) = [s EXCEPT !.fj = @ + 1]
  <2> DEFINE j == s.fj + 1
             g == [s EXCEPT !.fj = j]
  <2>3. j \in Nat /\ fi < j
    <3>1. fi \in Int
      BY <1>1
    <3>2. s.fj \in Nat /\ fi < s.fj
      BY DEF Fusion, Safe
    <3>3. QED
      BY ONLY <3>1, <3>2
  <2> HIDE DEF j
  <2>1. g \in Fusion /\ g.trackers = s.trackers /\ g.ended = s.ended /\ g.deleted = s.deleted
        /\ g.fj = j
    BY <2>3 DEF Fusion
  <2> HIDE DEF g
  <2>2. Safe(g)
    BY <2>1, <2>3 DEF Safe
  <2>4. QED
    BY <1>6, <2>1, <2>2 DEF g, j
<1>7. QED
  BY <1>2, <1>3, <1>4, <1>5, <1>6

FusionStart ==
    [trackers |-> trackers, segments |-> segments, ended |-> ended, fj |-> fi + 1,
          deleted |-> FALSE]

(* What every turn keeps, the loop of make_potential_fusion keeps. *)
LEMMA PotentialFusionIs ==
    ASSUME NEW S, FusionStart \in S, \A s \in S : Fused(s) \in S, trackers \in Seq(Tracker)
    PROVE  make_potential_fusion \in S
<1> DEFINE n == Len(trackers)
           U == 1 .. n
           c == FusionStart
           IsFolded(F) == F = [A \in SUBSET U |-> IF A = {} THEN c ELSE Fused(F[A \ {Max(A)}])]
           iter == CHOOSE F : IsFolded(F)
           g == [e \in U \X S |-> Fused(e[2])]
<1>1. make_potential_fusion = iter[U]
  <2>1. DOMAIN trackers = U
    BY LenProperties
  <2>2. make_potential_fusion = FoldLeft(LAMBDA s, turn : Fused(s), c, trackers)
    BY DEF make_potential_fusion, FusionStart
  <2> HIDE DEF U, c
  <2>3. QED
    BY <2>1, <2>2 DEF FoldLeft, MapThenFoldSet
<1>2. \A j \in 1 .. n, d \in S : g[<<j, d>>] = Fused(d) /\ g[<<j, d>>] \in S
  OBVIOUS
<1>3. n \in Nat /\ c \in S
  BY LenProperties
<1> HIDE DEF g, n, c
<1>4. PICK F \in [SUBSET U -> S] : IsFold(F, g, c, n)
  BY <1>2, <1>3, FoldExists
<1>5. ASSUME NEW A \in SUBSET U, A # {}
      PROVE  Max(A) \in U /\ A \ {Max(A)} \in SUBSET U
  BY <1>3, <1>5, GreatestRank
<1>6. IsFolded(F)
  <2>1. F = [A \in SUBSET U |-> F[A]]
    OBVIOUS
  <2>2. \A A \in SUBSET U : F[A] = IF A = {} THEN c ELSE g[<<Max(A), F[A \ {Max(A)}]>>]
    BY <1>4 DEF IsFold
  <2>3. ASSUME NEW A \in SUBSET U
        PROVE  F[A] = IF A = {} THEN c ELSE Fused(F[A \ {Max(A)}])
    <3>1. CASE A = {}
      BY <2>2, <3>1
    <3>2. CASE A # {}
      <4>1. Max(A) \in U /\ F[A \ {Max(A)}] \in S
        BY <1>5, <3>2
      <4>2. QED
        BY <1>2, <2>2, <3>2, <4>1
    <3>3. QED
      BY <3>1, <3>2
  <2>4. QED
    BY <2>1, <2>3
<1>7. IsFolded(iter)
  <2> HIDE DEF IsFolded
  <2>1. QED
    BY <1>6
<1>8. \A A \in SUBSET U : iter[A] = IF A = {} THEN c ELSE Fused(iter[A \ {Max(A)}])
  BY <1>7
<1> HIDE DEF iter
<1> DEFINE T == {j \in Nat : j \in 0 .. n => iter[1 .. j] \in S}
<1>9. 0 \in T
  <2>1. 1 .. 0 = {}
    OBVIOUS
  <2>2. iter[{}] = c
    BY <1>8
  <2>3. iter[1 .. 0] = c
    BY <2>1, <2>2
  <2>4. QED
    BY <1>3, <2>3
<1>10. ASSUME NEW j \in T PROVE j + 1 \in T
  <2>1. SUFFICES ASSUME j + 1 \in 0 .. n PROVE iter[1 .. j + 1] \in S
    OBVIOUS
  <2> DEFINE k == j + 1
  <2>2. j \in Nat /\ j \in 0 .. n /\ k \in 1 .. n /\ k - 1 = j
    BY <1>3, <2>1
  <2>3. iter[1 .. j] \in S
    BY <2>2
  <2> HIDE DEF k
  <2>4. /\ 1 .. k \in SUBSET U /\ 1 .. k # {} /\ Max(1 .. k) = k
        /\ (1 .. k) \ {k} = 1 .. j
    BY <1>3, <2>2, GreatestOfFirst
  <2>5. iter[1 .. k] = Fused(iter[1 .. j])
    BY <1>8, <2>4
  <2>6. QED
    BY <2>3, <2>5 DEF k
<1> HIDE DEF T
<1>11. T = Nat
  BY <1>9, <1>10, SetOfAllNaturals DEF T
<1>12. n \in 0 .. n /\ n \in T
  BY <1>3, <1>11
<1>13. QED
  BY <1>1, <1>12 DEF T

(* The parts of Match. *)
Seen == [obs |-> Head(observations), match_count |-> Len(Accepted(Head(observations))),
         t |-> t, id |-> id]

Alone == Accepted(Head(observations)) = <<>> /\ Head(observations).thick < MaxThickness

Starts ==
    LET s == StartFrom(Accepted(Head(observations)), Seen)
    IN  IF Alone THEN <<Head(observations)>> ELSE [a \in DOMAIN s |-> s[a].obs]

AllChosen(s, o) == [a \in DOMAIN s |-> Chosen(s[a], o)]

Begun == [a \in DOMAIN Starts |-> NewTracker(born + a - 1, Starts[a])]

LEMMA MatchIs ==
    ASSUME Match
    PROVE  /\ m_container' = AllInserted(Others(Head(observations)),
                                         AllChosen(Accepted(Head(observations)), Seen))
           /\ new_trackers' = new_trackers \o Begun
           /\ born' = born + Len(Starts)
           /\ id' = IF Alone THEN id ELSE id + 1
           /\ column' = column \cup
                  {[obs |-> Head(observations), accepted |-> Len(Accepted(Head(observations))),
                    missed |-> {f \in Range(Released(m_container)) : Found(f, Head(observations))}
                               \ Range(Accepted(Head(observations)))]}
           /\ observations' = Tail(observations)
           /\ pc = "match" /\ observations # <<>>
           /\ UNCHANGED <<t, pc, descriptor, trackers, kept, fi, segments, ended>>
BY DEF Match, Seen, Alone, Starts, AllChosen, Begun

LEMMA SeenIs ==
    ASSUME observations \in Seq(Run), observations # <<>>, m_container \in Container,
           t \in Nat, id \in Nat
    PROVE  /\ Head(observations) \in Run
           /\ Accepted(Head(observations)) \in Seq(Tracker)
           /\ Seen \in Observed
<1>1. Head(observations) \in Run
  BY HeadTailProperties
<1>2. Accepted(Head(observations)) \in Seq(Tracker)
  BY HereIs
<1>3. Len(Accepted(Head(observations))) \in Nat
  BY <1>2, LenProperties
<1>4. QED
  BY <1>1, <1>2, <1>3 DEF Seen, Observed

LEMMA AllChosenIs ==
    ASSUME NEW s \in Seq(Tracker), NEW o \in Observed
    PROVE  /\ AllChosen(s, o) \in Seq(Tracker)
           /\ \A n \in Nat : Occ(AllChosen(s, o), Named(n)) = Occ(s, Named(n))
           /\ AllGivenUp(s, o) \in Seq(Observed \cup {NoObservation})
           /\ Len(AllGivenUp(s, o)) = Len(s) /\ DOMAIN AllChosen(s, o) = DOMAIN s
<1> DEFINE r == AllChosen(s, o)
<1>1. Len(s) \in Nat /\ DOMAIN s = 1 .. Len(s) /\ \A a \in 1 .. Len(s) : s[a] \in Tracker
  BY LenProperties, ElementOfSeq
<1>2. r = [a \in 1 .. Len(s) |-> Chosen(s[a], o)]
      /\ AllGivenUp(s, o) = [a \in 1 .. Len(s) |-> GivenUp(s[a], o)]
  BY <1>1 DEF AllChosen, AllGivenUp
<1>3. \A a \in 1 .. Len(s) :
          /\ Chosen(s[a], o) \in Tracker /\ Chosen(s[a], o).name = s[a].name
          /\ GivenUp(s[a], o) \in Observed \cup {NoObservation}
  BY <1>1, ChosenIs
<1>4. r \in Seq(Tracker) /\ DOMAIN r = DOMAIN s
  BY <1>1, <1>2, <1>3
<1>5. AllGivenUp(s, o) \in Seq(Observed \cup {NoObservation}) /\ Len(AllGivenUp(s, o)) = Len(s)
  BY <1>1, <1>2, <1>3
<1>6. ASSUME NEW n \in Nat PROVE Occ(r, Named(n)) = Occ(s, Named(n))
  <2>1. \A a \in DOMAIN r : r[a] \in Named(n) <=> s[a] \in Named(n)
    BY <1>1, <1>2, <1>3 DEF Named
  <2> HIDE DEF r
  <2>2. QED
    BY <1>4, <2>1, OccSame
<1>7. QED
  BY <1>4, <1>5, <1>6

(* What an observation that is given up starts. *)
LEMMA StartFromIs ==
    ASSUME NEW s \in Seq(Tracker), NEW o \in Observed
    PROVE  /\ StartFrom(s, o) \in Seq(Observed)
           /\ \A a \in DOMAIN s : \A q \in Observed :
                 GivenUp(s[a], o) = q /\ q.match_count = 1
                    => \E b \in DOMAIN StartFrom(s, o) : StartFrom(s, o)[b] = q
<1> DEFINE r == AllGivenUp(s, o)
           Q == Observed \cup {NoObservation}
           I == Restarts(r)
           V == {r[a] : a \in I \cap DOMAIN r}
<1>1. r \in Seq(Q) /\ Len(r) = Len(s)
  BY AllChosenIs
<1>2. Len(s) \in Nat /\ DOMAIN s = 1 .. Len(s) /\ DOMAIN r = 1 .. Len(s)
      /\ \A a \in DOMAIN r : r[a] \in Q
  BY <1>1, LenProperties, ElementOfSeq
<1>3. StartFrom(s, o) = Selected(r, I)
  BY DEF StartFrom
<1>4. \A a \in DOMAIN s : r[a] = GivenUp(s[a], o)
  BY DEF AllGivenUp
<1> HIDE DEF r, Q
<1>5. Selected(r, I) \in Seq(V)
  <2> HIDE DEF I
  <2>1. QED
    BY <1>1, SelectedIs
<1>6. V \in SUBSET Observed
  BY <1>2 DEF Restarts, Q
<1>7. StartFrom(s, o) \in Seq(Observed)
  <2> DEFINE u == Selected(r, I)
  <2> HIDE DEF V, u
  <2>1. Len(u) \in Nat /\ DOMAIN u = 1 .. Len(u) /\ \A a \in 1 .. Len(u) : u[a] \in V
    BY <1>5, LenProperties, ElementOfSeq DEF u
  <2>2. u = [a \in 1 .. Len(u) |-> u[a]]
    BY <1>5, <2>1 DEF u
  <2>3. u \in Seq(Observed)
    BY <1>6, <2>1, <2>2
  <2>4. QED
    BY <1>3, <2>3 DEF u
<1>8. ASSUME NEW a \in DOMAIN s, NEW q \in Observed, GivenUp(s[a], o) = q, q.match_count = 1
      PROVE  \E b \in DOMAIN StartFrom(s, o) : StartFrom(s, o)[b] = q
  <2> DEFINE T == {q}
             R == Ranks(r, I, T)
  <2>1. q # NoObservation
    BY DEF Observed, NoObservation
  <2>2. a \in R
    <3>1. a \in DOMAIN r /\ r[a] = q
      BY <1>2, <1>4, <1>8
    <3>2. a \in I
      BY <1>8, <2>1, <3>1 DEF Restarts
    <3>3. QED
      BY <3>1, <3>2 DEF Ranks
  <2>3. IsFiniteSet(R)
    <3>1. R \in SUBSET (1 .. Len(s)) /\ IsFiniteSet(1 .. Len(s))
      BY <1>2, FS_Interval DEF Ranks
    <3> HIDE DEF R
    <3>2. QED
      BY <3>1, FS_Subset
  <2>4. Occ(Selected(r, I), T) = Cardinality(R)
    <3> HIDE DEF I, T
    <3>1. QED
      BY <1>1, SelectedIs
  <2> HIDE DEF R
  <2>5. Occ(Selected(r, I), T) # 0
    BY <2>2, <2>3, <2>4, FS_EmptySet
  <2>6. ASSUME \A b \in DOMAIN Selected(r, I) : Selected(r, I)[b] \notin T PROVE FALSE
    <3> HIDE DEF T, I
    <3>1. QED
      BY <2>5, <2>6, OccNone
  <2>7. QED
    BY <1>3, <2>6
<1>9. QED
  BY <1>7, <1>8

LEMMA StartsAre ==
    ASSUME observations \in Seq(Run), observations # <<>>, m_container \in Container,
           t \in Nat, id \in Nat, born \in Nat
    PROVE  /\ Starts \in Seq(Run)
           /\ Begun \in Seq(Tracker)
           /\ Len(Begun) = Len(Starts)
           /\ \A a \in DOMAIN Starts : Last(Begun[a].spans).obs = Starts[a]
           /\ \A n \in Nat : Occ(Begun, Named(n))
                    = IF born <= n /\ n < born + Len(Starts) THEN 1 ELSE 0
<1> DEFINE h == Head(observations)
           q == StartFrom(Accepted(h), Seen)
           s == Starts
           r == Begun
<1>1. h \in Run /\ Accepted(h) \in Seq(Tracker) /\ Seen \in Observed
  BY SeenIs
<1>2. q \in Seq(Observed)
  <2> HIDE DEF h
  <2>1. QED
    BY <1>1, StartFromIs
<1>3. s \in Seq(Run)
  <2>1. Starts = IF Alone THEN <<h>> ELSE [a \in DOMAIN q |-> q[a].obs]
    BY DEF Starts
  <2> HIDE DEF h, q, s
  <2>2. <<h>> \in Seq(Run)
    BY <1>1
  <2>3. [a \in DOMAIN q |-> q[a].obs] \in Seq(Run)
    <3>1. Len(q) \in Nat /\ DOMAIN q = 1 .. Len(q) /\ \A a \in 1 .. Len(q) : q[a] \in Observed
      BY <1>2, LenProperties, ElementOfSeq
    <3>2. \A a \in 1 .. Len(q) : q[a].obs \in Run
      BY <3>1 DEF Observed
    <3>3. QED
      BY <3>1, <3>2
  <2>4. QED
    BY <2>1, <2>2, <2>3 DEF s
<1> HIDE DEF h, q, s
<1>4. Len(s) \in Nat /\ DOMAIN s = 1 .. Len(s) /\ \A a \in 1 .. Len(s) : s[a] \in Run
  BY <1>3, LenProperties, ElementOfSeq
<1>5. r = [a \in 1 .. Len(s) |-> NewTracker(born + a - 1, s[a])]
  BY <1>4 DEF Begun, s
<1> HIDE DEF r
<1>6. ASSUME NEW a \in 1 .. Len(s)
      PROVE  r[a] \in Tracker /\ r[a].name = born + a - 1 /\ Last(r[a].spans).obs = s[a]
  <2> DEFINE m == born + a - 1
  <2>1. m \in Nat /\ s[a] \in Run
    BY <1>4
  <2> HIDE DEF m
  <2>2. /\ NewTracker(m, s[a]) \in Tracker /\ NewTracker(m, s[a]).name = m
        /\ Last(NewTracker(m, s[a]).spans).obs = s[a]
    BY <2>1, NewTrackerIs
  <2>3. r[a] = NewTracker(m, s[a])
    BY <1>5 DEF m
  <2>4. QED
    BY <2>2, <2>3 DEF m
<1>7. r \in Seq(Tracker) /\ Len(r) = Len(s) /\ DOMAIN r = 1 .. Len(s)
  BY <1>4, <1>5, <1>6
<1>8. ASSUME NEW n \in Nat
      PROVE  Occ(r, Named(n)) = IF born <= n /\ n < born + Len(s) THEN 1 ELSE 0
  <2> DEFINE A == {a \in DOMAIN r : r[a] \in Named(n)}
             k == n - born + 1
  <2>1. \A a \in 1 .. Len(s) : a \in A <=> born + a - 1 = n
    BY <1>6, <1>7 DEF Named
  <2>2. \A a \in 1 .. Len(s) : born + a - 1 = n <=> a = k
    BY <1>4
  <2>3. A = IF born <= n /\ n < born + Len(s) THEN {k} ELSE {}
    <3>1. k \in 1 .. Len(s) <=> born <= n /\ n < born + Len(s)
      BY <1>4
    <3>2. A \in SUBSET (1 .. Len(s))
      BY <1>7
    <3> HIDE DEF A, k
    <3>3. QED
      BY <2>1, <2>2, <3>1, <3>2
  <2> HIDE DEF k
  <2>4. Cardinality(A) = IF born <= n /\ n < born + Len(s) THEN 1 ELSE 0
    <3> HIDE DEF A
    <3>1. QED
      BY <2>3, FS_EmptySet, FS_Singleton
  <2>5. QED
    BY <2>4 DEF Occ
<1>9. QED
  BY <1>3, <1>4, <1>6, <1>7, <1>8 DEF r, s

TypeOK ==
    /\ t \in Nat /\ descriptor \in Descriptors
    /\ pc \in {"predict", "match", "select", "finish", "end"}
    /\ observations \in Seq(Run)
    /\ m_container \in Container
    /\ trackers \in Seq(Tracker) /\ new_trackers \in Seq(Tracker) /\ kept \in Seq(Tracker)
    /\ fi \in Nat \ {0} /\ id \in Nat /\ born \in Nat
    /\ segments \in Seq(Seq(Span))
    /\ ended \in SUBSET (0 .. born - 1)

(* Which containers are used, and when. *)
PhaseOK ==
    /\ pc # "match" => m_container = EmptyBuckets
    /\ pc # "select" => kept = <<>>
    /\ pc \notin {"match", "select"} => new_trackers = <<>>
    /\ pc \in {"match", "end"} => trackers = <<>>
    /\ pc \in {"predict", "match"} => fi = 1
    /\ pc # "end" => fi <= Len(trackers) + 1

(* The buckets are those of the positions. *)
BucketsOK == Homed(m_container)

(* Each name that is not ended is in one place. *)
NamesOK == \A n \in Nat : OccFrom(trackers, fi, Named(n)) + Elsewhere(n) = Alive(n, ended)

IInv == TypeOK /\ PhaseOK /\ BucketsOK /\ NamesOK /\ OnlyStrayedAreMissed

LEMMA IntervalsGrow ==
    ASSUME NEW a \in Nat, NEW b \in Nat, a <= b
    PROVE  0 .. a - 1 \in SUBSET (0 .. b - 1)
OBVIOUS

LEMMA ElsewhereIs ==
    ASSUME TypeOK, NEW n \in Nat
    PROVE  /\ Occ(Released(m_container), Named(n)) \in Nat
           /\ Occ(kept, Named(n)) \in Nat /\ Occ(new_trackers, Named(n)) \in Nat
           /\ Elsewhere(n) \in Nat
           /\ OccFrom(trackers, fi, Named(n)) \in Nat
<1>1. Occ(Released(m_container), Named(n)) \in Nat
  BY OccReleased DEF TypeOK
<1>2. Occ(kept, Named(n)) \in Nat /\ Occ(new_trackers, Named(n)) \in Nat
  BY OccIsNatural DEF TypeOK
<1>3. OccFrom(trackers, fi, Named(n)) \in Nat
  <2>1. fi \in Int /\ trackers \in Seq(Tracker)
    BY DEF TypeOK
  <2>2. QED
    BY <2>1, OccFromIsNatural
<1>4. Elsewhere(n) \in Nat
  BY <1>1, <1>2 DEF Elsewhere
<1>5. QED
  BY <1>1, <1>2, <1>3, <1>4

LEMMA InitHolds == Init => IInv
<1> SUFFICES ASSUME Init PROVE IInv
  OBVIOUS
<1>1. \A S : <<>> \in Seq(S)
  BY EmptySeq
<1>2. Len(<<>>) = 0
  OBVIOUS
<1>3. TypeOK
  BY <1>1, EmptyBucketsHold DEF Init, TypeOK
<1>4. PhaseOK
  BY <1>2 DEF Init, PhaseOK
<1>5. BucketsOK
  BY EmptyBucketsHold DEF Init, BucketsOK
<1>6. NamesOK
  <2>1. SUFFICES ASSUME NEW n \in Nat
                 PROVE  OccFrom(trackers, fi, Named(n)) + Elsewhere(n) = Alive(n, ended)
    BY DEF NamesOK
  <2>2. Elsewhere(n) = 0
    <3>1. /\ Occ(Released(m_container), Named(n)) = 0
          /\ Occ(kept, Named(n)) = 0 /\ Occ(new_trackers, Named(n)) = 0
      BY EmptyBucketsHold, OccEmpty DEF Init
    <3>2. QED
      BY <3>1 DEF Elsewhere
  <2>3. OccFrom(trackers, fi, Named(n)) = 0
    <3>1. trackers \in Seq(Tracker) /\ fi \in Int /\ fi > Len(trackers)
      BY <1>1, <1>2 DEF Init
    <3>2. QED
      BY <3>1, OccFromEnds
  <2>4. Alive(n, ended) = 0
    BY DEF Alive, Init
  <2>5. QED
    BY <2>2, <2>3, <2>4
<1>7. OnlyStrayedAreMissed
  BY DEF Init, OnlyStrayedAreMissed
<1>8. QED
  BY <1>3, <1>4, <1>5, <1>6, <1>7 DEF IInv

(* make_predictions keeps the names, and puts each tracker in its bucket. *)
LEMMA NextColumnKeeps == IInv /\ NextColumn => IInv'
<1> SUFFICES ASSUME IInv, NextColumn PROVE IInv'
  OBVIOUS
<1> DEFINE s == [a \in DOMAIN trackers |-> Predicted(trackers[a])]
           d == AllInserted(EmptyBuckets, s)
<1>1. TypeOK /\ PhaseOK /\ NamesOK
  BY DEF IInv
<1>2. /\ pc = "predict" /\ observations' \in Columns /\ m_container' = d
      /\ trackers' = <<>> /\ new_trackers' = <<>> /\ id' = 0 /\ column' = {} /\ pc' = "match"
      /\ UNCHANGED <<t, descriptor, kept, fi, segments, born, ended>>
  BY DEF NextColumn
<1>3. /\ Len(trackers) \in Nat /\ DOMAIN trackers = 1 .. Len(trackers)
      /\ \A a \in 1 .. Len(trackers) : trackers[a] \in Tracker
  BY <1>1, LenProperties, ElementOfSeq DEF TypeOK
<1>4. \A a \in 1 .. Len(trackers) :
          /\ Predicted(trackers[a]) \in Tracker
          /\ Predicted(trackers[a]).name = trackers[a].name
  BY <1>1, <1>3, PredictedIs DEF TypeOK
<1>5. s \in Seq(Tracker) /\ DOMAIN s = DOMAIN trackers
  BY <1>3, <1>4
<1>7. ASSUME NEW n \in Nat PROVE Occ(s, Named(n)) = Occ(trackers, Named(n))
  <2>1. \A a \in DOMAIN s : s[a] \in Named(n) <=> trackers[a] \in Named(n)
    BY <1>3, <1>4 DEF Named
  <2> HIDE DEF s
  <2>2. QED
    BY <1>5, <2>1, OccSame
<1> HIDE DEF s
<1>8. /\ d \in Container
      /\ \A T : Occ(Released(d), T) = Occ(Released(EmptyBuckets), T) + Occ(s, T)
      /\ Homed(d)
  BY <1>5, EmptyBucketsHold, AllInsertedHolds
<1>9. \A T : Occ(Released(d), T) = Occ(s, T)
  <2>1. SUFFICES ASSUME NEW T PROVE Occ(Released(d), T) = Occ(s, T)
    OBVIOUS
  <2>2. Occ(Released(d), T) = Occ(Released(EmptyBuckets), T) + Occ(s, T)
        /\ Occ(Released(EmptyBuckets), T) = 0
    BY <1>8, EmptyBucketsHold
  <2>3. Occ(s, T) \in Nat
    BY <1>5, OccIsNatural
  <2>4. QED
    BY <2>2, <2>3
<1> HIDE DEF d
<1>10. <<>> \in Seq(Tracker) /\ Len(<<>>) = 0
  BY EmptySeq
<1>11. TypeOK'
  <2>1. observations' \in Seq(Run)
    BY <1>2, LineTrackingAssumption
  <2>2. QED
    BY <1>1, <1>2, <1>8, <1>10, <2>1 DEF TypeOK
<1>12. PhaseOK'
  BY <1>1, <1>2, <1>10 DEF PhaseOK
<1>13. BucketsOK'
  BY <1>2, <1>8 DEF BucketsOK
<1>14. NamesOK'
  <2>1. SUFFICES ASSUME NEW n \in Nat
                 PROVE  (OccFrom(trackers, fi, Named(n)) + Elsewhere(n) = Alive(n, ended))'
    BY DEF NamesOK
  <2>2. OccFrom(trackers, fi, Named(n)) = Occ(trackers, Named(n)) /\ fi = 1
    <3>1. fi = 1 /\ trackers \in Seq(Tracker)
      BY <1>1, <1>2 DEF PhaseOK, TypeOK
    <3>2. QED
      BY <3>1, OccFromEnds
  <2>3. OccFrom(trackers', fi', Named(n)) = 0
    <3>1. trackers' \in Seq(Tracker) /\ fi' \in Int /\ fi' > Len(trackers')
      BY <1>2, <1>10, <2>2
    <3>2. QED
      BY <3>1, OccFromEnds
  <2>4. Occ(kept, Named(n)) = 0 /\ Occ(new_trackers, Named(n)) = 0
              /\ Occ(Released(m_container), Named(n)) = 0
        /\ Occ(new_trackers', Named(n)) = 0
    BY <1>1, <1>2, EmptyBucketsHold, OccEmpty DEF PhaseOK
  <2>5. Elsewhere(n)' = Occ(Released(m_container'), Named(n)) + Occ(kept', Named(n))
              + Occ(new_trackers', Named(n))
    BY DEF Elsewhere
  <2>6. Occ(Released(m_container'), Named(n)) = Occ(trackers, Named(n)) /\ kept' = kept
    BY <1>2, <1>7, <1>9
  <2>7. Occ(trackers, Named(n)) \in Nat
    BY <1>1, OccIsNatural DEF TypeOK
  <2>8. Occ(trackers, Named(n)) + Elsewhere(n) = Alive(n, ended) /\ Elsewhere(n) = 0
    BY <1>1, <2>2, <2>4 DEF NamesOK, Elsewhere
  <2>9. Alive(n, ended)' = Alive(n, ended)
    BY <1>2 DEF Alive
  <2>10. Elsewhere(n)' = Occ(trackers, Named(n))
    BY <2>4, <2>5, <2>6, <2>7
  <2>11. (OccFrom(trackers, fi, Named(n)) + Elsewhere(n))' = Alive(n, ended)
    BY <2>3, <2>7, <2>8, <2>10
  <2>12. QED
    BY <2>9, <2>11
<1>15. OnlyStrayedAreMissed'
  BY <1>2 DEF OnlyStrayedAreMissed
<1>16. QED
  BY <1>11, <1>12, <1>13, <1>14, <1>15 DEF IInv

(* Match keeps the names, and only misses trackers that strayed. *)
LEMMA MatchKeeps == IInv /\ Match => IInv'
<1> SUFFICES ASSUME IInv, Match PROVE IInv'
  OBVIOUS
<1> DEFINE h == Head(observations)
           acc == Accepted(h)
           s == AllChosen(acc, Seen)
           c == Others(h)
           d == AllInserted(c, s)
<1>1. TypeOK /\ PhaseOK /\ BucketsOK /\ NamesOK /\ OnlyStrayedAreMissed
  BY DEF IInv
<1>2. /\ m_container' = d /\ new_trackers' = new_trackers \o Begun /\ born' = born + Len(Starts)
      /\ id' = (IF Alone THEN id ELSE id + 1)
      /\ column' = column \cup
                  {[obs |-> h, accepted |-> Len(acc),
                    missed |-> {f \in Range(Released(m_container)) : Found(f, h)}
                               \ Range(acc)]}
      /\ observations' = Tail(observations)
      /\ pc = "match" /\ observations # <<>>
      /\ UNCHANGED <<t, pc, descriptor, trackers, kept, fi, segments, ended>>
  BY MatchIs
<1>3. observations \in Seq(Run) /\ m_container \in Container /\ t \in Nat /\ id \in Nat
            /\ born \in Nat
  BY <1>1 DEF TypeOK
<1>4. h \in Run /\ acc \in Seq(Tracker) /\ Seen \in Observed
  BY <1>2, <1>3, SeenIs
<1>5. /\ Starts \in Seq(Run) /\ Begun \in Seq(Tracker) /\ Len(Starts) \in Nat
      /\ \A n \in Nat : Occ(Begun, Named(n)) = IF born <= n /\ n < born + Len(Starts) THEN 1 ELSE 0
  BY <1>2, <1>3, StartsAre, LenProperties
<1> HIDE DEF h
<1>6. /\ c \in Container /\ Homed(c)
      /\ \A T : Unmoved(T, h) => Occ(Released(m_container), T) = Occ(acc, T) + Occ(Released(c), T)
  BY <1>1, <1>3, OthersAre DEF BucketsOK
<1> HIDE DEF acc, c
<1>7. /\ s \in Seq(Tracker) /\ \A n \in Nat : Occ(s, Named(n)) = Occ(acc, Named(n))
  BY <1>4, AllChosenIs
<1> HIDE DEF s
<1>8. /\ d \in Container /\ Homed(d)
      /\ \A T : Occ(Released(d), T) = Occ(Released(c), T) + Occ(s, T)
  BY <1>6, <1>7, AllInsertedHolds
<1> HIDE DEF d
<1>9. \A n \in Nat : Unmoved(Named(n), h)
  BY <1>3, PassedOverIs DEF Unmoved, Named
<1>10. TypeOK'
  <2>1. observations' \in Seq(Run)
    BY <1>2, <1>3, HeadTailProperties
  <2>2. new_trackers' \in Seq(Tracker)
    <3>1. new_trackers \in Seq(Tracker)
      BY <1>1 DEF TypeOK
    <3>2. QED
      BY <1>2, <1>5, <3>1, ConcatProperties
  <2>3. born' \in Nat /\ id' \in Nat /\ ended' \in SUBSET (0 .. born' - 1)
    <3>1. born' \in Nat /\ id' \in Nat /\ born <= born'
      BY <1>2, <1>3, <1>5
    <3>2. ended' \in SUBSET (0 .. born - 1)
      BY <1>1, <1>2 DEF TypeOK
    <3>3. 0 .. born - 1 \in SUBSET (0 .. born' - 1)
      <4>1. born \in Nat /\ born' \in Nat /\ born <= born'
        BY <1>3, <3>1
      <4>2. QED
        BY ONLY <4>1, IntervalsGrow
    <3>4. ended' \in SUBSET (0 .. born' - 1)
      BY <3>2, <3>3, Zenon
    <3>5. QED
      BY <3>1, <3>4
  <2>4. QED
    BY <1>1, <1>2, <1>8, <2>1, <2>2, <2>3 DEF TypeOK
<1>11. PhaseOK'
  BY <1>1, <1>2 DEF PhaseOK
<1>12. BucketsOK'
  BY <1>2, <1>8 DEF BucketsOK
<1>13. NamesOK'
  <2>1. SUFFICES ASSUME NEW n \in Nat
                 PROVE  (OccFrom(trackers, fi, Named(n)) + Elsewhere(n) = Alive(n, ended))'
    BY DEF NamesOK
  <2> DEFINE N == Named(n)
  <2>2. /\ Occ(Released(m_container), N) = Occ(acc, N) + Occ(Released(c), N)
        /\ Occ(Released(d), N) = Occ(Released(c), N) + Occ(s, N)
        /\ Occ(s, N) = Occ(acc, N)
    BY <1>6, <1>7, <1>8, <1>9
  <2>3. Occ(acc, N) \in Nat /\ Occ(Released(c), N) \in Nat
    BY <1>4, <1>6, OccIsNatural, OccReleased
  <2>4. Occ(Released(m_container'), N) = Occ(Released(m_container), N)
    <3>1. m_container' = d
      BY <1>2
    <3> HIDE DEF N
    <3>2. QED
      BY <2>2, <2>3, <3>1
  <2>5. Occ(new_trackers \o Begun, N) = Occ(new_trackers, N) + Occ(Begun, N)
    <3>1. new_trackers \in Seq(Tracker)
      BY <1>1 DEF TypeOK
    <3>2. QED
      BY <1>5, <3>1, OccConcat
  <2>6. Elsewhere(n)' = Occ(Released(m_container'), N) + Occ(kept', N) + Occ(new_trackers', N)
    BY DEF Elsewhere
  <2>7. Elsewhere(n)' = Occ(Released(m_container), N) + Occ(kept, N)
                            + (Occ(new_trackers, N) + Occ(Begun, N))
    BY <1>2, <2>4, <2>5, <2>6
  <2>8. /\ Occ(Released(m_container), N) \in Nat /\ Occ(kept, N) \in Nat
                 /\ Occ(new_trackers, N) \in Nat
        /\ OccFrom(trackers, fi, N) \in Nat
    BY <1>1, ElsewhereIs
  <2>9. OccFrom(trackers, fi, N) + Elsewhere(n) = Alive(n, ended)
        /\ Elsewhere(n) = Occ(Released(m_container), N) + Occ(kept, N) + Occ(new_trackers, N)
    BY <1>1 DEF NamesOK, Elsewhere
  <2>10. OccFrom(trackers, fi, N)' = OccFrom(trackers, fi, N)
    BY <1>2 DEF Named
  <2>11. Alive(n, ended)' = Alive(n, ended) + Occ(Begun, N)
    <3>1. Occ(Begun, N) = IF born <= n /\ n < born + Len(Starts) THEN 1 ELSE 0
      BY <1>5
    <3>2. Alive(n, ended)' = IF n < born + Len(Starts) /\ n \notin ended THEN 1 ELSE 0
      BY <1>2 DEF Alive
    <3>3. n \in ended => n < born
      BY <1>1, <1>3 DEF TypeOK
    <3> HIDE DEF N
    <3>4. QED
      BY <1>3, <1>5, <3>1, <3>2, <3>3 DEF Alive
  <2>12. Occ(Begun, N) \in Nat
    BY <1>5, OccIsNatural
  <2> HIDE DEF N
  <2>13. (OccFrom(trackers, fi, N) + Elsewhere(n))' = Alive(n, ended) + Occ(Begun, N)
    <3>1. (OccFrom(trackers, fi, N) + Elsewhere(n))' = OccFrom(trackers, fi, N)' + Elsewhere(n)'
      OBVIOUS
    <3>2. QED
      BY <2>7, <2>8, <2>9, <2>10, <2>12, <3>1
  <2>14. QED
    BY <2>11, <2>13 DEF N
<1>14. OnlyStrayedAreMissed'
  <2> DEFINE miss == {f \in Range(Released(m_container)) : Found(f, h)} \ Range(acc)
  <2>1. \A f \in miss : Strayed(f)
    BY <1>1, <1>3, <1>4, MissedAreStrayed DEF BucketsOK, acc
  <2>2. column' = column \cup {[obs |-> h, accepted |-> Len(acc), missed |-> miss]}
    BY <1>2
  <2> HIDE DEF miss
  <2>3. QED
    BY <1>1, <2>1, <2>2 DEF OnlyStrayedAreMissed
<1>15. QED
  BY <1>10, <1>11, <1>12, <1>13, <1>14 DEF IInv

(* A tracker that is given up: its name is ended. *)
LEMMA NamesWithout ==
    ASSUME TypeOK, NamesOK, fi \in 1 .. Len(trackers)
    PROVE  /\ trackers[fi] \in Tracker
           /\ ended \cup {trackers[fi].name} \in SUBSET (0 .. born - 1)
           /\ \A n \in Nat : OccFrom(trackers, fi + 1, Named(n)) + Elsewhere(n)
                                = Alive(n, ended \cup {trackers[fi].name})
<1> DEFINE f == trackers[fi]
           m == f.name
<1>1. trackers \in Seq(Tracker) /\ fi \in 1 .. Len(trackers) /\ Len(trackers) \in Nat
            /\ born \in Nat
  BY LenProperties DEF TypeOK
<1>2. f \in Tracker /\ m \in Nat
  <2>1. f \in Tracker
    BY <1>1, ElementOfSeq
  <2>2. QED
    BY <2>1 DEF Tracker
<1>3. ASSUME NEW n \in Nat
      PROVE  /\ OccFrom(trackers, fi, Named(n))
                     = OccFrom(trackers, fi + 1, Named(n)) + (IF n = m THEN 1 ELSE 0)
             /\ OccFrom(trackers, fi + 1, Named(n)) \in Nat
             /\ Elsewhere(n) \in Nat
             /\ OccFrom(trackers, fi, Named(n)) + Elsewhere(n) = Alive(n, ended)
  <2>1. f \in Named(n) <=> n = m
    BY <1>2 DEF Named
  <2> DEFINE T == Named(n)
  <2>2. OccFrom(trackers, fi, T)
              = OccFrom(trackers, fi + 1, T) + (IF trackers[fi] \in T THEN 1 ELSE 0)
    <3> HIDE DEF T
    <3>1. QED
      BY ONLY <1>1, OccFromNext
  <2>3. OccFrom(trackers, fi + 1, T) \in Nat
    <3>1. fi + 1 \in Int
      BY <1>1
    <3> HIDE DEF T
    <3>2. QED
      BY <1>1, <3>1, OccFromIsNatural
  <2>4. QED
    BY <2>1, <2>2, <2>3, ElsewhereIs DEF NamesOK
<1> HIDE DEF m
<1>7. m < born /\ m \notin ended
  <2>1. Alive(m, ended) > 0
    <3>1. /\ OccFrom(trackers, fi, Named(m)) = OccFrom(trackers, fi + 1, Named(m)) + 1
          /\ OccFrom(trackers, fi + 1, Named(m)) \in Nat
          /\ Elsewhere(m) \in Nat
          /\ OccFrom(trackers, fi, Named(m)) + Elsewhere(m) = Alive(m, ended)
      BY <1>2, <1>3
    <3>2. QED
      BY ONLY <3>1
  <2>2. QED
    BY <2>1 DEF Alive
<1>8. ASSUME NEW n \in Nat
      PROVE  OccFrom(trackers, fi + 1, Named(n)) + Elsewhere(n) = Alive(n, ended \cup {m})
  <2>1. /\ OccFrom(trackers, fi, Named(n))
                 = OccFrom(trackers, fi + 1, Named(n)) + (IF n = m THEN 1 ELSE 0)
        /\ OccFrom(trackers, fi + 1, Named(n)) \in Nat
        /\ Elsewhere(n) \in Nat
        /\ OccFrom(trackers, fi, Named(n)) + Elsewhere(n) = Alive(n, ended)
    BY <1>3
  <2>2. CASE n = m
    <3>1. Alive(n, ended) = 1 /\ Alive(n, ended \cup {m}) = 0
      BY <1>7, <2>2 DEF Alive
    <3>2. QED
      BY ONLY <2>1, <2>2, <3>1
  <2>3. CASE n # m
    <3>1. Alive(n, ended) = Alive(n, ended \cup {m})
      BY <2>3 DEF Alive
    <3>2. QED
      BY ONLY <2>1, <2>3, <3>1
  <2>4. QED
    BY <2>2, <2>3
<1>9. ended \cup {m} \in SUBSET (0 .. born - 1)
  <2>1. m \in 0 .. born - 1
    BY <1>1, <1>2, <1>7
  <2>2. ended \in SUBSET (0 .. born - 1)
    BY DEF TypeOK
  <2>3. QED
    BY <2>1, <2>2
<1>10. QED
  BY <1>2, <1>8, <1>9 DEF m

(* Outside of match the buckets are empty. *)
LEMMA EmptyIsRight == m_container' = EmptyBuckets => BucketsOK'
BY EmptyBucketsHold DEF BucketsOK

(* The tracker that is selected is given up. *)
LEMMA GivenUpKeeps ==
    ASSUME IInv, pc \in {"select", "finish"}, fi \in 1 .. Len(trackers),
          segments' \in Seq(Seq(Span)),
           ended' = ended \cup {trackers[fi].name}, fi' = fi + 1,
           UNCHANGED <<t, pc, descriptor, observations, m_container, trackers, new_trackers, kept, id,
                       born, column>>
    PROVE  IInv'
<1>1. TypeOK /\ PhaseOK /\ NamesOK /\ OnlyStrayedAreMissed
  BY DEF IInv
<1>2. /\ ended' \in SUBSET (0 .. born - 1)
      /\ \A n \in Nat : OccFrom(trackers, fi', Named(n)) + Elsewhere(n) = Alive(n, ended')
  BY <1>1, NamesWithout
<1>3. TypeOK'
  <2>1. fi' \in Nat \ {0}
    BY <1>1 DEF TypeOK
  <2>2. QED
    BY <1>1, <1>2, <2>1 DEF TypeOK
<1>4. PhaseOK'
  <2>1. fi' <= Len(trackers) + 1
    <3>1. Len(trackers) \in Nat
      BY <1>1, LenProperties DEF TypeOK
    <3>2. QED
      BY <3>1
  <2>2. QED
    BY <1>1, <2>1 DEF PhaseOK
<1>5. BucketsOK'
  BY <1>1, EmptyIsRight DEF PhaseOK
<1>6. NamesOK'
  <2>1. \A n \in Nat : Elsewhere(n)' = Elsewhere(n) /\ Alive(n, ended)' = Alive(n, ended')
    BY DEF Elsewhere, Alive
  <2>2. QED
    BY <1>2, <2>1 DEF NamesOK
<1>7. OnlyStrayedAreMissed'
  BY <1>1 DEF OnlyStrayedAreMissed
<1>8. QED
  BY <1>3, <1>4, <1>5, <1>6, <1>7 DEF IInv

LEMMA EndedIs ==
    ASSUME TypeOK, NEW f \in Tracker, Ended(f)
    PROVE  segments' \in Seq(Seq(Span)) /\ ended' = ended \cup {f.name}
<1>1. SpansOf(f, 0) \in Seq(Span)
  BY SpansOfIs
<1>2. Append(segments, SpansOf(f, 0)) \in Seq(Seq(Span))
  <2>1. segments \in Seq(Seq(Span))
    BY DEF TypeOK
  <2>2. QED
    BY <1>1, <2>1, AppendProperties
<1>3. QED
  BY <1>2 DEF Ended, TypeOK

LEMMA SelectedRank == TypeOK /\ fi <= Len(trackers)
      => fi \in 1 .. Len(trackers) /\ trackers[fi] \in Tracker
<1> SUFFICES ASSUME TypeOK, fi <= Len(trackers)
             PROVE  fi \in 1 .. Len(trackers) /\ trackers[fi] \in Tracker
  OBVIOUS
<1>1. fi \in Nat \ {0} /\ trackers \in Seq(Tracker) /\ Len(trackers) \in Nat
  BY LenProperties DEF TypeOK
<1>2. fi \in 1 .. Len(trackers)
  BY <1>1
<1>3. QED
  BY <1>1, <1>2, ElementOfSeq

LEMMA StopSteepKeeps == IInv /\ StopSteep => IInv'
<1> SUFFICES ASSUME IInv, StopSteep PROVE IInv'
  OBVIOUS
<1>1. TypeOK
  BY DEF IInv
<1>2. /\ pc = "select" /\ fi <= Len(trackers) /\ ended' = ended \cup {trackers[fi].name}
               /\ fi' = fi + 1
      /\ segments' = segments
      /\ UNCHANGED <<t, pc, descriptor, observations, m_container, trackers, new_trackers, kept, id,
                     born, column>>
  BY DEF StopSteep, Selecting
<1>3. fi \in 1 .. Len(trackers) /\ segments' \in Seq(Seq(Span))
  BY <1>1, <1>2, SelectedRank DEF TypeOK
<1>4. QED
  BY <1>2, <1>3, GivenUpKeeps

LEMMA StopKeeps == IInv /\ Stop => IInv'
<1> SUFFICES ASSUME IInv, Stop PROVE IInv'
  OBVIOUS
<1>1. TypeOK
  BY DEF IInv
<1>2. /\ pc = "select" /\ fi <= Len(trackers) /\ Ended(trackers[fi]) /\ fi' = fi + 1
      /\ UNCHANGED <<t, pc, descriptor, observations, m_container, trackers, new_trackers, kept, id,
                     born, column>>
  BY DEF Stop, Selecting
<1>3. fi \in 1 .. Len(trackers) /\ trackers[fi] \in Tracker
  BY <1>1, <1>2, SelectedRank
<1>4. segments' \in Seq(Seq(Span)) /\ ended' = ended \cup {trackers[fi].name}
  BY <1>1, <1>2, <1>3, EndedIs
<1>5. QED
  BY <1>2, <1>3, <1>4, GivenUpKeeps

(* The tracker that is selected is kept, once the others are what q says. *)
LEMMA KeptKeeps ==
    ASSUME IInv, pc = "select",
           trackers' \in Seq(Tracker), fi \in 1 .. Len(trackers'), segments' \in Seq(Seq(Span)),
           ended' \in SUBSET (0 .. born - 1),
           \A n \in Nat : OccFrom(trackers', fi, Named(n)) + Elsewhere(n) = Alive(n, ended'),
           NEW g \in Tracker, g.name = trackers'[fi].name,
           kept' = Append(kept, g), fi' = fi + 1,
           UNCHANGED <<t, pc, descriptor, observations, m_container, new_trackers, id, born, column>>
    PROVE  IInv'
<1>1. TypeOK /\ PhaseOK /\ OnlyStrayedAreMissed
  BY DEF IInv
<1>2. kept \in Seq(Tracker) /\ fi \in Nat \ {0} /\ Len(trackers') \in Nat
  BY <1>1, LenProperties DEF TypeOK
<1>3. kept' \in Seq(Tracker)
  BY <1>2, AppendProperties
<1>4. TypeOK'
  <2>1. fi' \in Nat \ {0}
    BY <1>2
  <2>2. QED
    BY <1>1, <1>3, <2>1 DEF TypeOK
<1>5. PhaseOK'
  <2>1. fi' <= Len(trackers') + 1
    <3>1. fi <= Len(trackers') /\ fi' = fi + 1 /\ fi \in Nat /\ Len(trackers') \in Nat
      BY <1>2
    <3>2. QED
      BY ONLY <3>1
  <2>2. QED
    BY <1>1, <2>1 DEF PhaseOK
<1>6. BucketsOK'
  BY <1>1, EmptyIsRight DEF PhaseOK
<1>7. NamesOK'
  <2>1. SUFFICES ASSUME NEW n \in Nat
                 PROVE  (OccFrom(trackers, fi, Named(n)) + Elsewhere(n) = Alive(n, ended))'
    BY DEF NamesOK
  <2> DEFINE T == Named(n)
             q == trackers'
             e == IF g \in T THEN 1 ELSE 0
  <2>2. q[fi] \in Tracker
    BY <1>2, ElementOfSeq
  <2>3. q[fi] \in T <=> g \in T
    BY <2>2 DEF Named
  <2>4. OccFrom(q, fi, T) = OccFrom(q, fi + 1, T) + (IF q[fi] \in T THEN 1 ELSE 0)
    <3>1. q \in Seq(Tracker) /\ fi \in 1 .. Len(q)
      OBVIOUS
    <3> HIDE DEF T, q
    <3>2. QED
      BY ONLY <3>1, OccFromNext
  <2>5. Occ(Append(kept, g), T) = Occ(kept, T) + e
    <3> HIDE DEF T
    <3>1. QED
      BY <1>2, OccAppend
  <2>6. /\ OccFrom(q, fi + 1, T) \in Nat /\ e \in Nat /\ Occ(kept, T) \in Nat
        /\ Occ(Released(m_container), T) \in Nat /\ Occ(new_trackers, T) \in Nat
    <3>1. q \in Seq(Tracker) /\ fi + 1 \in Int
      BY <1>2
    <3>2. OccFrom(q, fi + 1, T) \in Nat
      <4> HIDE DEF T, q
      <4>1. QED
        BY <3>1, OccFromIsNatural
    <3>3. QED
      BY <1>1, <3>2, ElsewhereIs
  <2>7. Elsewhere(n) = Occ(Released(m_container), T) + Occ(kept, T) + Occ(new_trackers, T)
    BY DEF Elsewhere
  <2>8. Elsewhere(n)' = Occ(Released(m_container), T) + Occ(kept', T) + Occ(new_trackers, T)
    BY DEF Elsewhere
  <2>9. OccFrom(q, fi, T) + Elsewhere(n) = Alive(n, ended')
    OBVIOUS
  <2>10. Alive(n, ended)' = Alive(n, ended')
    BY DEF Alive
  <2>11. (OccFrom(trackers, fi, T) + Elsewhere(n))' = OccFrom(q, fi + 1, T) + Elsewhere(n)'
    OBVIOUS
  <2>12. OccFrom(q, fi, T) = OccFrom(q, fi + 1, T) + e
    BY <2>3, <2>4
  <2>13. Occ(kept', T) = Occ(kept, T) + e
    BY <2>5
  <2> DEFINE x1 == OccFrom(q, fi, T)
             x2 == OccFrom(q, fi + 1, T)
             x3 == Occ(kept, T)
             x4 == Occ(Released(m_container), T)
             x5 == Occ(new_trackers, T)
             x6 == Occ(kept', T)
             x7 == Elsewhere(n)
             x8 == Elsewhere(n)'
             x9 == Alive(n, ended')
  <2>14. x2 + x8 = x9
    <3>1. /\ x1 = x2 + e /\ x6 = x3 + e /\ x7 = x4 + x3 + x5 /\ x8 = x4 + x6 + x5 /\ x1 + x7 = x9
          /\ x2 \in Nat /\ e \in Nat /\ x3 \in Nat /\ x4 \in Nat /\ x5 \in Nat
      BY <2>6, <2>7, <2>8, <2>9, <2>12, <2>13
    <3> HIDE DEF x1, x2, x3, x4, x5, x6, x7, x8, x9, e
    <3>2. QED
      BY ONLY <3>1
  <2>15. QED
    BY <2>10, <2>11, <2>14
<1>8. OnlyStrayedAreMissed'
  BY <1>1 DEF OnlyStrayedAreMissed
<1>9. QED
  BY <1>4, <1>5, <1>6, <1>7, <1>8 DEF IInv

LEMMA ContinueKeeps == IInv /\ Continue => IInv'
<1> SUFFICES ASSUME IInv, Continue PROVE IInv'
  OBVIOUS
<1>1. TypeOK /\ NamesOK
  BY DEF IInv
<1>2. /\ pc = "select" /\ fi <= Len(trackers) /\ kept' = Append(kept, trackers[fi]) /\ fi' = fi + 1
      /\ UNCHANGED <<t, pc, descriptor, observations, m_container, trackers, new_trackers, id,
                     segments, born, ended, column>>
  BY DEF Continue, Selecting
<1>3. fi \in 1 .. Len(trackers) /\ trackers[fi] \in Tracker
  BY <1>1, <1>2, SelectedRank
<1> DEFINE g == trackers[fi]
<1>4. /\ trackers' \in Seq(Tracker) /\ fi \in 1 .. Len(trackers') /\ segments' \in Seq(Seq(Span))
      /\ ended' \in SUBSET (0 .. born - 1)
      /\ g \in Tracker /\ g.name = trackers'[fi].name /\ kept' = Append(kept, g)
  BY <1>1, <1>2, <1>3 DEF TypeOK
<1>5. \A n \in Nat : OccFrom(trackers', fi, Named(n)) + Elsewhere(n) = Alive(n, ended')
  BY <1>1, <1>2 DEF NamesOK
<1> HIDE DEF g
<1>6. QED
  BY <1>2, <1>4, <1>5, KeptKeeps

(* What the fusion of the trackers gives, if any. *)
FusionGives(s) ==
    /\ s.trackers \in Seq(Tracker) /\ s.segments \in Seq(Seq(Span))
    /\ s.ended \in SUBSET (0 .. born - 1)
    /\ fi \in 1 .. Len(s.trackers)
    /\ ~s.deleted => s.trackers[fi] = trackers[fi]
    /\ \A n \in Nat : OccFrom(s.trackers, fi, Named(n)) + Elsewhere(n) = Alive(n, s.ended)

LEMMA FusionIs ==
    ASSUME TypeOK, NamesOK, fi \in 1 .. Len(trackers)
    PROVE  FusionGives(make_potential_fusion)
<1> DEFINE S == {s \in Fusion : Safe(s)}
<1>1. FusionStart \in S
  <2>1. FusionStart \in Fusion
    <3>1. ended \in SUBSET Nat
      BY DEF TypeOK
    <3>2. fi + 1 \in Nat
      BY DEF TypeOK
    <3>3. QED
      BY <3>1, <3>2 DEF TypeOK, FusionStart, Fusion
  <2>2. Safe(FusionStart)
    <3>1. fi < fi + 1
      BY DEF TypeOK
    <3>2. QED
      BY <3>1 DEF Safe, FusionStart, TypeOK, NamesOK
  <2>3. QED
    BY <2>1, <2>2
<1>2. \A s \in S : Fused(s) \in S
  <2>1. born \in Nat /\ \A n \in Nat : Elsewhere(n) \in Nat
    BY ElsewhereIs DEF TypeOK
  <2>2. QED
    BY <2>1, FusedKeeps
<1>3. make_potential_fusion \in S
  <2> HIDE DEF S
  <2>1. trackers \in Seq(Tracker)
    BY DEF TypeOK
  <2>2. QED
    BY <1>1, <1>2, <2>1, PotentialFusionIs
<1>4. QED
  BY <1>3 DEF Fusion, Safe, FusionGives

LEMMA IntegrateKeeps == IInv /\ Integrate => IInv'
<1> SUFFICES ASSUME IInv, Integrate PROVE IInv'
  OBVIOUS
<1>1. TypeOK /\ NamesOK /\ PhaseOK /\ OnlyStrayedAreMissed
  BY DEF IInv
<1> DEFINE z == [trackers |-> trackers, segments |-> segments, ended |-> ended, deleted |-> FALSE]
<1>2. /\ pc = "select" /\ fi <= Len(trackers) /\ trackers[fi].observation # NoObservation
      /\ UNCHANGED <<t, pc, descriptor, observations, m_container, new_trackers, id, born, column>>
  BY DEF Integrate, Selecting
<1>3. PICK s \in {make_potential_fusion, z} :
         /\ trackers' = s.trackers /\ segments' = s.segments /\ ended' = s.ended
         /\ IF s.deleted THEN UNCHANGED <<kept, fi>>
            ELSE \E gain \in descriptor.gains :
                   kept' = Append(kept, Integrated(s.trackers[fi], gain)) /\ fi' = fi + 1
  BY DEF Integrate
<1>4. fi \in 1 .. Len(trackers) /\ trackers[fi] \in Tracker
  BY <1>1, <1>2, SelectedRank
<1>5. FusionGives(s)
  <2>1. CASE s = make_potential_fusion
    BY <1>1, <1>4, <2>1, FusionIs
  <2>2. CASE s = z
    BY <1>1, <1>4, <2>2 DEF FusionGives, TypeOK, NamesOK
  <2>3. QED
    BY <2>1, <2>2
<1>6. /\ trackers' \in Seq(Tracker) /\ fi \in 1 .. Len(trackers') /\ segments' \in Seq(Seq(Span))
      /\ ended' \in SUBSET (0 .. born - 1)
      /\ \A n \in Nat : OccFrom(trackers', fi, Named(n)) + Elsewhere(n) = Alive(n, ended')
  BY <1>3, <1>5 DEF FusionGives
<1>7. CASE ~s.deleted
  <2>4. PICK gain \in descriptor.gains :
           kept' = Append(kept, Integrated(s.trackers[fi], gain)) /\ fi' = fi + 1
    BY <1>3, <1>7
  <2> DEFINE f == trackers[fi]
             g == Integrated(f, gain)
  <2>1. s.trackers[fi] = f /\ trackers'[fi] = f
    BY <1>3, <1>5, <1>7 DEF FusionGives
  <2>2. g \in Tracker /\ g.name = trackers'[fi].name
    <3>1. /\ f \in Tracker /\ f.observation # NoObservation /\ t \in Nat
          /\ descriptor \in Descriptors
      BY <1>1, <1>2, <1>4 DEF TypeOK
    <3> HIDE DEF f
    <3>2. QED
      BY <2>1, <3>1, IntegratedIs
  <2>3. kept' = Append(kept, g) /\ fi' = fi + 1
    BY <2>1, <2>4
  <2> HIDE DEF g
  <2>5. QED
    BY <1>2, <1>6, <2>2, <2>3, KeptKeeps
<1>8. CASE s.deleted
  <2>1. kept' = kept /\ fi' = fi
    BY <1>3, <1>8
  <2>2. TypeOK'
    BY <1>1, <1>2, <1>6, <2>1 DEF TypeOK
  <2>3. PhaseOK'
    <3>1. fi' <= Len(trackers') + 1
      <4>1. Len(trackers') \in Nat
        BY <1>6, LenProperties
      <4>2. QED
        BY <1>6, <2>1, <4>1
    <3>2. QED
      BY <1>1, <1>2, <2>1, <3>1 DEF PhaseOK
  <2>4. BucketsOK'
    BY <1>1, <1>2, EmptyIsRight DEF PhaseOK
  <2>5. NamesOK'
    <3>1. \A n \in Nat : Elsewhere(n)' = Elsewhere(n) /\ Alive(n, ended)' = Alive(n, ended')
      BY <1>2, <2>1 DEF Elsewhere, Alive
    <3>2. QED
      BY <1>6, <2>1, <3>1 DEF NamesOK
  <2>6. OnlyStrayedAreMissed'
    BY <1>1, <1>2 DEF OnlyStrayedAreMissed
  <2>7. QED
    BY <2>2, <2>3, <2>4, <2>5, <2>6 DEF IInv
<1>9. QED
  BY <1>7, <1>8

LEMMA ReleaseKeeps == IInv /\ Release => IInv'
<1> SUFFICES ASSUME IInv, Release PROVE IInv'
  OBVIOUS
<1>1. TypeOK /\ PhaseOK /\ NamesOK /\ OnlyStrayedAreMissed
  BY DEF IInv
<1>2. /\ pc = "match" /\ trackers' = Released(m_container) /\ m_container' = EmptyBuckets
      /\ kept' = <<>> /\ fi' = 1 /\ pc' = "select"
      /\ UNCHANGED <<t, descriptor, observations, new_trackers, id, segments, born, ended, column>>
  BY DEF Release
<1>3. trackers' \in Seq(Tracker) /\ Len(trackers') \in Nat /\ <<>> \in Seq(Tracker)
  BY <1>1, <1>2, CellsType, LenProperties, EmptySeq DEF TypeOK
<1>4. TypeOK'
  BY <1>1, <1>2, <1>3, EmptyBucketsHold DEF TypeOK
<1>5. PhaseOK'
  BY <1>1, <1>2, <1>3 DEF PhaseOK
<1>6. BucketsOK'
  BY <1>2, EmptyIsRight
<1>7. NamesOK'
  <2>1. SUFFICES ASSUME NEW n \in Nat
                 PROVE  (OccFrom(trackers, fi, Named(n)) + Elsewhere(n) = Alive(n, ended))'
    BY DEF NamesOK
  <2> DEFINE T == Named(n)
  <2>2. OccFrom(trackers, fi, T) = 0
    <3>1. trackers \in Seq(Tracker) /\ fi \in Int /\ fi > Len(trackers)
      <4>1. trackers = <<>> /\ Len(<<>>) = 0 /\ fi = 1
        BY <1>1, <1>2 DEF PhaseOK
      <4>2. QED
        BY <1>3, <4>1
    <3>2. QED
      BY <3>1, OccFromEnds
  <2>3. OccFrom(trackers', fi', T) = Occ(Released(m_container), T)
    BY <1>2, <1>3, OccFromEnds
  <2>4. Elsewhere(n) = Occ(Released(m_container), T) + Occ(kept, T) + Occ(new_trackers, T)
    BY DEF Elsewhere
  <2>5. Elsewhere(n)' = Occ(Released(m_container'), T) + Occ(kept', T) + Occ(new_trackers', T)
    BY DEF Elsewhere
  <2>6. Occ(Released(m_container'), T) = 0 /\ Occ(kept, T) = 0 /\ Occ(kept', T) = 0
    BY <1>1, <1>2, EmptyBucketsHold, OccEmpty DEF PhaseOK
  <2>7. Occ(Released(m_container), T) \in Nat /\ Occ(new_trackers, T) \in Nat
    BY <1>1, ElsewhereIs
  <2>8. OccFrom(trackers, fi, T) + Elsewhere(n) = Alive(n, ended)
    BY <1>1 DEF NamesOK
  <2>9. Alive(n, ended)' = Alive(n, ended)
    BY <1>2 DEF Alive
  <2>10. OccFrom(trackers', fi', T) + Elsewhere(n)' = Alive(n, ended)
    <3>1. new_trackers' = new_trackers
      BY <1>2
    <3> HIDE DEF T
    <3>2. QED
      BY <2>2, <2>3, <2>4, <2>5, <2>6, <2>7, <2>8, <3>1
  <2>11. QED
    BY <2>9, <2>10
<1>8. OnlyStrayedAreMissed'
  BY <1>1, <1>2 DEF OnlyStrayedAreMissed
<1>9. QED
  BY <1>4, <1>5, <1>6, <1>7, <1>8 DEF IInv

LEMMA EndColumnKeeps == IInv /\ EndColumn => IInv'
<1> SUFFICES ASSUME IInv, EndColumn PROVE IInv'
  OBVIOUS
<1>1. TypeOK /\ PhaseOK /\ NamesOK /\ OnlyStrayedAreMissed
  BY DEF IInv
<1>2. /\ pc = "select" /\ fi > Len(trackers) /\ trackers' = new_trackers \o kept
      /\ new_trackers' = <<>> /\ kept' = <<>> /\ fi' = 1 /\ t' = t + 1
      /\ pc' \in {"finish", "predict"}
      /\ UNCHANGED <<descriptor, observations, m_container, id, segments, born, ended, column>>
  BY DEF EndColumn
<1>3. new_trackers \in Seq(Tracker) /\ kept \in Seq(Tracker) /\ <<>> \in Seq(Tracker)
  BY <1>1, EmptySeq DEF TypeOK
<1>4. trackers' \in Seq(Tracker) /\ Len(trackers') \in Nat
  <2>1. new_trackers \o kept \in Seq(Tracker)
    BY <1>3, ConcatProperties
  <2>2. QED
    BY <1>2, <2>1, LenProperties
<1>5. TypeOK'
  BY <1>1, <1>2, <1>3, <1>4 DEF TypeOK
<1>6. PhaseOK'
  BY <1>1, <1>2, <1>4 DEF PhaseOK
<1>7. BucketsOK'
  BY <1>1, <1>2, EmptyIsRight DEF PhaseOK
<1>8. NamesOK'
  <2>1. SUFFICES ASSUME NEW n \in Nat
                 PROVE  (OccFrom(trackers, fi, Named(n)) + Elsewhere(n) = Alive(n, ended))'
    BY DEF NamesOK
  <2> DEFINE T == Named(n)
  <2>2. OccFrom(trackers, fi, T) = 0
    <3>1. trackers \in Seq(Tracker) /\ fi \in Int /\ fi > Len(trackers)
      BY <1>1, <1>2 DEF TypeOK
    <3>2. QED
      BY <3>1, OccFromEnds
  <2>3. OccFrom(trackers', fi', T) = Occ(new_trackers, T) + Occ(kept, T)
    <3>1. OccFrom(trackers', fi', T) = Occ(trackers', T)
      BY <1>2, <1>4, OccFromEnds
    <3>2. Occ(new_trackers \o kept, T) = Occ(new_trackers, T) + Occ(kept, T)
      BY <1>3, OccConcat
    <3>3. QED
      BY <1>2, <3>1, <3>2
  <2>4. Elsewhere(n) = Occ(Released(m_container), T) + Occ(kept, T) + Occ(new_trackers, T)
    BY DEF Elsewhere
  <2>5. Elsewhere(n)' = Occ(Released(m_container'), T) + Occ(kept', T) + Occ(new_trackers', T)
    BY DEF Elsewhere
  <2>6. Occ(kept', T) = 0 /\ Occ(new_trackers', T) = 0 /\ Occ(Released(m_container), T) = 0
    BY <1>1, <1>2, OccEmpty, EmptyBucketsHold DEF PhaseOK
  <2>7. Occ(kept, T) \in Nat /\ Occ(new_trackers, T) \in Nat
    BY <1>1, ElsewhereIs
  <2>8. OccFrom(trackers, fi, T) + Elsewhere(n) = Alive(n, ended)
    BY <1>1 DEF NamesOK
  <2>9. Alive(n, ended)' = Alive(n, ended)
    BY <1>2 DEF Alive
  <2>10. OccFrom(trackers', fi', T) + Elsewhere(n)' = Alive(n, ended)
    <3>1. m_container' = m_container
      BY <1>2
    <3> HIDE DEF T
    <3>2. QED
      BY <2>2, <2>3, <2>4, <2>5, <2>6, <2>7, <2>8, <3>1
  <2>11. QED
    BY <2>9, <2>10
<1>9. OnlyStrayedAreMissed'
  BY <1>1, <1>2 DEF OnlyStrayedAreMissed
<1>10. QED
  BY <1>5, <1>6, <1>7, <1>8, <1>9 DEF IInv

LEMMA FinishKeeps == IInv /\ FinishTraversal => IInv'
<1> SUFFICES ASSUME IInv, FinishTraversal PROVE IInv'
  OBVIOUS
<1>1. TypeOK /\ PhaseOK /\ NamesOK /\ OnlyStrayedAreMissed
  BY DEF IInv
<1>2. pc = "finish" /\ UNCHANGED <<t, descriptor, observations, m_container, new_trackers, kept, id,
            born, column>>
  BY DEF FinishTraversal
<1>3. CASE fi <= Len(trackers)
  <2>1. Ended(trackers[fi]) /\ fi' = fi + 1 /\ UNCHANGED <<trackers, pc>>
    BY <1>3 DEF FinishTraversal
  <2>2. fi \in 1 .. Len(trackers) /\ trackers[fi] \in Tracker
    BY <1>1, <1>3, SelectedRank
  <2>3. segments' \in Seq(Seq(Span)) /\ ended' = ended \cup {trackers[fi].name}
    BY <1>1, <2>1, <2>2, EndedIs
  <2>4. QED
    BY <1>2, <2>1, <2>2, <2>3, GivenUpKeeps
<1>4. CASE ~(fi <= Len(trackers))
  <2>1. trackers' = <<>> /\ pc' = "end" /\ UNCHANGED <<segments, ended, fi>>
    BY <1>4 DEF FinishTraversal
  <2>2. <<>> \in Seq(Tracker) /\ Len(<<>>) = 0 /\ fi \in Nat \ {0} /\ Len(trackers) \in Nat
        /\ trackers \in Seq(Tracker)
    BY <1>1, EmptySeq, LenProperties DEF TypeOK
  <2>3. TypeOK'
    BY <1>1, <1>2, <2>1, <2>2 DEF TypeOK
  <2>4. PhaseOK'
    BY <1>1, <1>2, <2>1 DEF PhaseOK
  <2>5. BucketsOK'
    BY <1>1, <1>2, EmptyIsRight DEF PhaseOK
  <2>6. NamesOK'
    <3>1. SUFFICES ASSUME NEW n \in Nat
                   PROVE  (OccFrom(trackers, fi, Named(n)) + Elsewhere(n) = Alive(n, ended))'
      BY DEF NamesOK
    <3> DEFINE T == Named(n)
    <3>2. OccFrom(trackers, fi, T) = 0
      <4>1. fi \in Int /\ fi > Len(trackers)
        BY <1>4, <2>2
      <4>2. QED
        BY <2>2, <4>1, OccFromEnds
    <3>3. OccFrom(trackers', fi', T) = 0
      <4>1. trackers' \in Seq(Tracker) /\ fi' \in Int /\ fi' > Len(trackers')
        BY <2>1, <2>2
      <4>2. QED
        BY <4>1, OccFromEnds
    <3>4. Elsewhere(n)' = Elsewhere(n) /\ Alive(n, ended)' = Alive(n, ended)
      BY <1>2, <2>1 DEF Elsewhere, Alive
    <3>5. OccFrom(trackers, fi, T) + Elsewhere(n) = Alive(n, ended)
      BY <1>1 DEF NamesOK
    <3>6. QED
      BY <3>2, <3>3, <3>4, <3>5
  <2>7. OnlyStrayedAreMissed'
    BY <1>1, <1>2 DEF OnlyStrayedAreMissed
  <2>8. QED
    BY <2>3, <2>4, <2>5, <2>6, <2>7 DEF IInv
<1>5. QED
  BY <1>3, <1>4

LEMMA StepHolds == IInv /\ [Next]_vars => IInv'
<1> SUFFICES ASSUME IInv, [Next]_vars PROVE IInv'
  OBVIOUS
<1>1. CASE NextColumn
  BY <1>1, NextColumnKeeps
<1>2. CASE Match
  BY <1>2, MatchKeeps
<1>3. CASE Release
  BY <1>3, ReleaseKeeps
<1>4. CASE StopSteep
  BY <1>4, StopSteepKeeps
<1>5. CASE Integrate
  BY <1>5, IntegrateKeeps
<1>6. CASE Continue
  BY <1>6, ContinueKeeps
<1>7. CASE Stop
  BY <1>7, StopKeeps
<1>8. CASE EndColumn
  BY <1>8, EndColumnKeeps
<1>9. CASE FinishTraversal
  BY <1>9, FinishKeeps
<1>10. CASE UNCHANGED vars
  <2>1. /\ t' = t /\ pc' = pc /\ descriptor' = descriptor /\ observations' = observations
        /\ m_container' = m_container /\ trackers' = trackers /\ new_trackers' = new_trackers
        /\ kept' = kept /\ fi' = fi /\ id' = id /\ segments' = segments /\ born' = born
        /\ ended' = ended /\ column' = column
    BY <1>10 DEF vars
  <2>2. TypeOK' /\ PhaseOK' /\ OnlyStrayedAreMissed'
    BY <2>1 DEF IInv, TypeOK, PhaseOK, OnlyStrayedAreMissed
  <2>3. BucketsOK'
    BY <2>1 DEF IInv, BucketsOK
  <2>4. NamesOK'
    <3>1. \A n \in Nat : Elsewhere(n)' = Elsewhere(n) /\ Alive(n, ended)' = Alive(n, ended)
      BY <2>1 DEF Elsewhere, Alive
    <3>2. QED
      BY <2>1, <3>1 DEF IInv, NamesOK
  <2>5. QED
    BY <2>2, <2>3, <2>4 DEF IInv
<1>11. QED
  BY <1>1, <1>2, <1>3, <1>4, <1>5, <1>6, <1>7, <1>8, <1>9, <1>10 DEF Next

(***************************************************************************)
(* The buckets, the selection and the fusions keep the types, the places   *)
(* and the names of the trackers.                                          *)
(***************************************************************************)
THEOREM TrackingInvariant == Spec => []IInv
<1>1. Init => IInv
  BY InitHolds
<1>2. IInv /\ [Next]_vars => IInv'
  BY StepHolds
<1>3. QED
  BY <1>1, <1>2, PTL DEF Spec

(***************************************************************************)
(* find_match finds all the trackers that accept an observation, in every  *)
(* column, except those whose prediction strayed from the last value they  *)
(* integrated by more than a bucket, whatever the predictors do.           *)
(***************************************************************************)
THEOREM OnlyStrayedEscape == Spec => []OnlyStrayedAreMissed
<1>1. IInv => OnlyStrayedAreMissed
  BY DEF IInv
<1>2. QED
  BY <1>1, TrackingInvariant, PTL

(* The active trackers are those that the invariant counts. *)
LEMMA ActiveIs ==
    ASSUME IInv
    PROVE  /\ Active \in Seq(Tracker)
           /\ \A n \in Nat : Occ(Active, Named(n)) = Alive(n, ended)
<1>1. TypeOK /\ PhaseOK /\ NamesOK
  BY DEF IInv
<1> DEFINE q == IF pc \in {"select", "finish"}
                THEN SubSeq(trackers, fi, Len(trackers)) ELSE trackers
           r == Released(m_container)
<1>2. r \in Seq(Tracker) /\ kept \in Seq(Tracker) /\ new_trackers \in Seq(Tracker)
      /\ trackers \in Seq(Tracker) /\ fi \in Nat \ {0} /\ Len(trackers) \in Nat
  BY <1>1, CellsType, LenProperties DEF TypeOK
<1>3. q \in Seq(Tracker) /\ \A T : Occ(q, T) = OccFrom(trackers, fi, T)
  <2>1. CASE pc \in {"select", "finish"}
    <3>1. fi \in 1 .. Len(trackers) + 1
      BY <1>1, <1>2, <2>1 DEF PhaseOK
    <3>2. q = SubSeq(trackers, fi, Len(trackers))
      BY <2>1
    <3> HIDE DEF q
    <3>3. QED
      BY <1>2, <3>1, <3>2, OccFromSuffix
  <2>2. CASE pc \in {"predict", "match"}
    <3>1. fi = 1 /\ q = trackers
      BY <1>1, <2>2 DEF PhaseOK
    <3> HIDE DEF q
    <3>2. QED
      BY <1>2, <3>1, OccFromEnds
  <2>3. CASE pc = "end"
    <3>1. q = trackers /\ trackers = <<>> /\ Len(<<>>) = 0
      BY <1>1, <2>3 DEF PhaseOK
    <3> HIDE DEF q
    <3>2. fi > Len(trackers) /\ fi \in Int
      BY <1>2, <3>1
    <3>3. \A T : OccFrom(trackers, fi, T) = 0 /\ Occ(q, T) = 0
      BY <1>2, <3>1, <3>2, OccFromEnds, OccEmpty
    <3>4. QED
      BY <1>2, <3>1, <3>3
  <2>4. QED
    BY <1>1, <2>1, <2>2, <2>3 DEF TypeOK
<1>4. Active = r \o q \o kept \o new_trackers
  BY DEF Active
<1> HIDE DEF q, r
<1>5. r \o q \in Seq(Tracker) /\ (r \o q) \o kept \in Seq(Tracker)
      /\ ((r \o q) \o kept) \o new_trackers \in Seq(Tracker)
  <2>1. r \o q \in Seq(Tracker)
    BY <1>2, <1>3, ConcatProperties
  <2>2. (r \o q) \o kept \in Seq(Tracker)
    BY <1>2, <2>1, ConcatProperties
  <2>3. QED
    BY <1>2, <2>1, <2>2, ConcatProperties
<1>6. ASSUME NEW n \in Nat PROVE Occ(Active, Named(n)) = Alive(n, ended)
  <2> DEFINE T == Named(n)
             a == r \o q
             b == a \o kept
  <2>1. /\ Occ(r \o q, T) = Occ(r, T) + Occ(q, T)
        /\ Occ(a \o kept, T) = Occ(a, T) + Occ(kept, T)
        /\ Occ(b \o new_trackers, T) = Occ(b, T) + Occ(new_trackers, T)
    <3>1. a \in Seq(Tracker) /\ b \in Seq(Tracker)
      BY <1>5
    <3>2. Occ(r \o q, T) = Occ(r, T) + Occ(q, T)
      BY <1>2, <1>3, OccConcat
    <3> HIDE DEF a, b, T
    <3>3. Occ(a \o kept, T) = Occ(a, T) + Occ(kept, T)
      BY <1>2, <3>1, OccConcat
    <3>4. Occ(b \o new_trackers, T) = Occ(b, T) + Occ(new_trackers, T)
      BY <1>2, <3>1, OccConcat
    <3>5. QED
      BY <3>2, <3>3, <3>4 DEF a
  <2>2. Occ(q, T) = OccFrom(trackers, fi, T)
    BY <1>3
  <2>3. OccFrom(trackers, fi, T) + Elsewhere(n) = Alive(n, ended)
        /\ Elsewhere(n) = Occ(r, T) + Occ(kept, T) + Occ(new_trackers, T)
    BY <1>1 DEF NamesOK, Elsewhere, r
  <2>4. Occ(r, T) \in Nat /\ Occ(kept, T) \in Nat /\ Occ(new_trackers, T) \in Nat
        /\ OccFrom(trackers, fi, T) \in Nat
    BY <1>1, ElsewhereIs DEF r
  <2>5. Active = b \o new_trackers
    BY <1>4
  <2> DEFINE x1 == Occ(r, T)
             x2 == Occ(q, T)
             x3 == Occ(kept, T)
             x4 == Occ(new_trackers, T)
             y1 == Occ(a, T)
             y2 == Occ(b, T)
             y3 == Occ(Active, T)
             y4 == Alive(n, ended)
  <2>6. y3 = y4
    <3>1. /\ y1 = x1 + x2 /\ y2 = y1 + x3 /\ y3 = y2 + x4 /\ x2 + (x1 + x3 + x4) = y4
          /\ x1 \in Nat /\ x2 \in Nat /\ x3 \in Nat /\ x4 \in Nat
      BY <2>1, <2>2, <2>3, <2>4, <2>5
    <3> HIDE DEF x1, x2, x3, x4, y1, y2, y3, y4
    <3>2. QED
      BY ONLY <3>1
  <2>7. QED
    BY <2>6
<1>7. QED
  BY <1>4, <1>5, <1>6

LEMMA NamesAreConserved == IInv => TrackersAreConserved
<1> SUFFICES ASSUME IInv PROVE TrackersAreConserved
  OBVIOUS
<1> DEFINE s == Active
           names == [r \in DOMAIN s |-> s[r].name]
<1>1. s \in Seq(Tracker) /\ \A n \in Nat : Occ(s, Named(n)) = Alive(n, ended)
  BY ActiveIs
<1>2. born \in Nat /\ ended \in SUBSET (0 .. born - 1)
  BY DEF IInv, TypeOK
<1> HIDE DEF s
<1>3. ASSUME NEW r \in DOMAIN s PROVE s[r] \in Tracker /\ s[r].name \in Nat
  <2>1. s[r] \in Tracker
    BY <1>1, ElementOfSeq, LenProperties
  <2>2. QED
    BY <2>1 DEF Tracker
<1> DEFINE At(n) == {a \in DOMAIN s : s[a] \in Named(n)}
<1>4. ASSUME NEW n \in Nat PROVE IsFiniteSet(At(n)) /\ Cardinality(At(n)) = Alive(n, ended)
  <2> DEFINE T == Named(n)
             A == {a \in DOMAIN s : s[a] \in T}
  <2>1. IsFiniteSet(A) /\ Occ(s, T) = Cardinality(A)
    <3> HIDE DEF T
    <3>1. QED
      BY <1>1, OccIsNatural DEF Occ
  <2>2. Occ(s, T) = Alive(n, ended)
    BY <1>1
  <2>3. QED
    BY <2>1, <2>2
<1>5. \A r \in DOMAIN s : \A n \in Nat : r \in At(n) <=> s[r].name = n
  BY <1>3 DEF Named
<1>6. \A n \in Nat : At(n) \in SUBSET DOMAIN s
  OBVIOUS
<1> HIDE DEF At
<1>7. \A n \in Nat : At(n) # {} => n < born /\ n \notin ended
  <2>1. SUFFICES ASSUME NEW n \in Nat, At(n) # {} PROVE n < born /\ n \notin ended
    OBVIOUS
  <2>2. Cardinality(At(n)) # 0
    BY <1>4, <2>1, FS_EmptySet
  <2>3. QED
    BY <1>4, <2>2 DEF Alive
<1>8. ASSUME NEW r \in DOMAIN names, NEW q \in DOMAIN names, names[r] = names[q] PROVE r = q
  <2> DEFINE n == s[r].name
  <2>1. n \in Nat /\ r \in At(n) /\ q \in At(n)
    BY <1>3, <1>5, <1>8
  <2> HIDE DEF n
  <2>2. Cardinality(At(n)) = 1
    BY <1>4, <1>7, <2>1 DEF Alive
  <2>3. PICK x : At(n) = {x}
    BY <1>4, <2>1, <2>2, FS_Singleton
  <2>4. QED
    BY <2>1, <2>3
<1>9. \A r \in DOMAIN s : names[r] = s[r].name /\ names[r] \in 0 .. born - 1
            /\ names[r] \notin ended
  <2>1. SUFFICES ASSUME NEW r \in DOMAIN s
                 PROVE  s[r].name \in 0 .. born - 1 /\ s[r].name \notin ended
    OBVIOUS
  <2> DEFINE n == s[r].name
  <2>2. n \in Nat /\ n < born /\ n \notin ended
    BY <1>3, <1>5, <1>7
  <2> HIDE DEF n
  <2>3. n \in 0 .. born - 1
    BY <1>2, <2>2
  <2>4. QED
    BY <2>2, <2>3 DEF n
<1>10. ASSUME NEW n \in 0 .. born - 1, n \notin ended PROVE n \in Range(names)
  <2>1. n \in Nat /\ n < born
    BY <1>2
  <2>2. Cardinality(At(n)) = 1
    BY <1>4, <1>10, <2>1 DEF Alive
  <2>3. At(n) # {}
    BY <2>2, FS_EmptySet
  <2>4. PICK r \in DOMAIN s : s[r].name = n
    BY <1>5, <1>6, <2>1, <2>3
  <2>5. QED
    BY <2>4 DEF Range
<1>11. Range(names) \in SUBSET (0 .. born - 1) /\ Range(names) \cap ended = {}
  BY <1>9 DEF Range
<1>12. Range(names) \cup ended = 0 .. born - 1
  BY <1>2, <1>10, <1>11
<1>13. names \in {[r \in DOMAIN Active |-> Active[r].name]}
  BY DEF s
<1> HIDE DEF names
<1>14. QED
  BY <1>8, <1>11, <1>12, <1>13 DEF TrackersAreConserved

(***************************************************************************)
(* No tracker is lost and none is copied while they are moved between the  *)
(* buckets, the trackers that are selected, those that are kept and those  *)
(* that begin, and erased by the fusions: each one that was created is in  *)
(* one place until it was given up or became a segment.                    *)
(***************************************************************************)
THEOREM NoTrackerIsLost == Spec => []TrackersAreConserved
<1>1. IInv => TrackersAreConserved
  BY NamesAreConserved
<1>2. QED
  BY <1>1, TrackingInvariant, PTL

(* The trackers that begin with an observation, and those that hold one *)
(* that was found for them only.                                        *)
BeginsWith(obs) == {f \in Tracker : Last(f.spans).obs = obs}

Carries(obs) ==
    {f \in Tracker : /\ f.observation # NoObservation
                     /\ f.observation.obs = obs /\ f.observation.match_count = 1}

StaysIn(begun, container, obs) ==
    Occ(begun, BeginsWith(obs)) # 0 \/ Occ(Released(container), Carries(obs)) # 0

ObservationsOK ==
    pc = "match" =>
        \A c \in column : c.obs.thick < MaxThickness /\ c.accepted <= 1
                          => StaysIn(new_trackers, m_container, c.obs)

(* What a tracker gives up, if it was found for it only, begins another. *)
LEMMA GivenUpBegins ==
    ASSUME IInv, Match, NEW a \in DOMAIN Accepted(Head(observations)), NEW q \in Observed,
           GivenUp(Accepted(Head(observations))[a], Seen) = q, q.match_count = 1
    PROVE  Occ(Begun, BeginsWith(q.obs)) # 0
<1> DEFINE acc == Accepted(Head(observations))
           sf == StartFrom(acc, Seen)
<1>1. /\ observations \in Seq(Run) /\ observations # <<>> /\ m_container \in Container
      /\ t \in Nat /\ id \in Nat /\ born \in Nat
  BY MatchIs DEF IInv, TypeOK
<1>2. acc \in Seq(Tracker) /\ Seen \in Observed
  BY <1>1, SeenIs
<1>3. acc # <<>>
  <2>1. DOMAIN <<>> = {}
    OBVIOUS
  <2>2. QED
    BY <2>1
<1>4. PICK b \in DOMAIN sf : sf[b] = q
  <2> HIDE DEF acc
  <2>1. \A a1 \in DOMAIN acc : \A q1 \in Observed :
           GivenUp(acc[a1], Seen) = q1 /\ q1.match_count = 1
              => \E b \in DOMAIN StartFrom(acc, Seen) : StartFrom(acc, Seen)[b] = q1
    BY <1>2, StartFromIs
  <2>2. QED
    BY <2>1 DEF acc
<1>5. Starts = [x \in DOMAIN sf |-> sf[x].obs]
  BY <1>3 DEF Starts, Alone
<1> HIDE DEF acc, sf
<1>6. b \in DOMAIN Starts /\ Starts[b] = q.obs
  BY <1>4, <1>5
<1>7. /\ Starts \in Seq(Run) /\ Begun \in Seq(Tracker) /\ Len(Begun) = Len(Starts)
      /\ Last(Begun[b].spans).obs = Starts[b]
  BY <1>1, <1>6, StartsAre
<1>8. b \in DOMAIN Begun /\ Begun[b] \in Tracker
  BY <1>6, <1>7, LenProperties, ElementOfSeq
<1>9. Begun[b] \in BeginsWith(q.obs)
  BY <1>6, <1>7, <1>8 DEF BeginsWith
<1> DEFINE T == BeginsWith(q.obs)
<1> HIDE DEF T
<1>10. Occ(Begun, T) # 0
  BY <1>7, <1>8, <1>9, OccPositive DEF T
<1>11. QED
  BY <1>10 DEF T

LEMMA MatchKeepsObservations == IInv /\ ObservationsOK /\ Match => ObservationsOK'
<1> SUFFICES ASSUME IInv, ObservationsOK, Match PROVE ObservationsOK'
  OBVIOUS
<1> DEFINE h == Head(observations)
           acc == Accepted(h)
           s == AllChosen(acc, Seen)
           d == Others(h)
<1>1. /\ observations \in Seq(Run) /\ m_container \in Container
      /\ t \in Nat /\ id \in Nat /\ born \in Nat /\ new_trackers \in Seq(Tracker)
  BY DEF IInv, TypeOK
<1>2. /\ m_container' = AllInserted(d, s) /\ new_trackers' = new_trackers \o Begun
      /\ observations # <<>> /\ pc = "match"
  BY MatchIs
<1>3. \A c \in column' : c \in column \/ (c.obs = h /\ c.accepted = Len(acc))
  <2> DEFINE miss == {f \in Range(Released(m_container)) : Found(f, h)} \ Range(acc)
  <2>1. column' = column \cup {[obs |-> h, accepted |-> Len(acc), missed |-> miss]}
    BY MatchIs
  <2> HIDE DEF miss, h, acc
  <2>2. QED
    BY <2>1
<1>4. h \in Run /\ acc \in Seq(Tracker) /\ Seen \in Observed /\ Begun \in Seq(Tracker)
  BY <1>1, <1>2, SeenIs, StartsAre
<1>5. \A a \in DOMAIN acc : \A q \in Observed :
         GivenUp(acc[a], Seen) = q /\ q.match_count = 1 => Occ(Begun, BeginsWith(q.obs)) # 0
  BY GivenUpBegins
<1>6. Seen.obs = h /\ Seen.match_count = Len(acc)
  BY DEF Seen
<1>7. acc = <<>> /\ h.thick < MaxThickness => Starts = <<h>>
  BY DEF Starts, Alone
<1> HIDE DEF h
<1>8. /\ d \in Container
      /\ \A T : Unmoved(T, h) => Occ(Released(m_container), T) = Occ(acc, T) + Occ(Released(d), T)
  BY <1>1, OthersAre
<1> HIDE DEF acc, d
<1>9. s \in Seq(Tracker) /\ DOMAIN s = DOMAIN acc
            /\ \A a \in DOMAIN acc : s[a] = Chosen(acc[a], Seen)
  <2>1. s \in Seq(Tracker) /\ DOMAIN s = DOMAIN acc
    BY <1>4, AllChosenIs
  <2>2. QED
    BY <2>1 DEF AllChosen
<1> HIDE DEF s
<1>10. \A T : Occ(Released(m_container'), T) = Occ(Released(d), T) + Occ(s, T)
  BY <1>2, <1>8, <1>9, AllInsertedHolds
<1>11. ASSUME NEW T
       PROVE  /\ Occ(new_trackers', T) = Occ(new_trackers, T) + Occ(Begun, T)
              /\ Occ(new_trackers, T) \in Nat /\ Occ(Begun, T) \in Nat
              /\ Occ(s, T) \in Nat /\ Occ(Released(d), T) \in Nat
  <2>1. Occ(new_trackers \o Begun, T) = Occ(new_trackers, T) + Occ(Begun, T)
    BY <1>1, <1>4, OccConcat
  <2>2. Occ(new_trackers, T) \in Nat /\ Occ(Begun, T) \in Nat /\ Occ(s, T) \in Nat
    BY <1>1, <1>4, <1>9, OccIsNatural
  <2>3. Occ(Released(d), T) \in Nat
    BY <1>8, OccReleased
  <2>4. QED
    BY <1>2, <2>1, <2>2, <2>3
<1>12. \A obs : Unmoved(Carries(obs), h)
  BY <1>1, PassedOverIs DEF Unmoved, Carries
<1>13. \A a \in DOMAIN acc : acc[a] \in Tracker
  BY <1>4, ElementOfSeq, LenProperties
(* A tracker that was found has the observation after it, or another has it. *)
<1>14. ASSUME NEW a \in DOMAIN acc, NEW q \in Observed, q.match_count = 1,
              Chosen(acc[a], Seen).observation = q \/ GivenUp(acc[a], Seen) = q
       PROVE  StaysIn(new_trackers', m_container', q.obs)
  <2> DEFINE x == q.obs
  <2>1. CASE Chosen(acc[a], Seen).observation = q
    <3>1. s[a] \in Tracker /\ s[a].observation = q
      BY <1>4, <1>9, <1>13, <2>1, ChosenIs
    <3>2. q # NoObservation
      BY DEF Observed, NoObservation
    <3>3. s[a] \in Carries(x)
      BY <1>14, <3>1, <3>2 DEF Carries
    <3> DEFINE T == Carries(x)
    <3> HIDE DEF T, x
    <3>4. Occ(s, T) # 0
      BY <1>9, <3>3, OccPositive DEF T
    <3>5. Occ(Released(m_container'), T) # 0
      BY <1>10, <1>11, <3>4
    <3>6. QED
      BY <3>5 DEF StaysIn, T, x, Carries
  <2>2. CASE GivenUp(acc[a], Seen) = q
    <3> DEFINE T == BeginsWith(x)
    <3>1. Occ(Begun, T) # 0
      BY <1>5, <1>14, <2>2
    <3> HIDE DEF T
    <3>2. Occ(new_trackers', T) # 0
      BY <1>11, <3>1
    <3>3. QED
      BY <3>2 DEF StaysIn, T, BeginsWith
  <2>3. QED
    BY <1>14, <2>1, <2>2
<1>15. ASSUME NEW obs, StaysIn(new_trackers, m_container, obs)
       PROVE  StaysIn(new_trackers', m_container', obs)
  <2> DEFINE B == BeginsWith(obs)
             C == Carries(obs)
  <2>1. CASE Occ(new_trackers, B) # 0
    <3> HIDE DEF B
    <3>1. Occ(new_trackers', B) # 0
      BY <1>11, <2>1
    <3>2. QED
      BY <3>1 DEF StaysIn, B, BeginsWith
  <2>2. CASE Occ(Released(m_container), C) # 0
    <3>1. Occ(Released(m_container), C) = Occ(acc, C) + Occ(Released(d), C)
      BY <1>8, <1>12
    <3>2. CASE Occ(Released(d), C) # 0
      <4>1. Occ(Released(m_container'), C) # 0
        <5> HIDE DEF C
        <5>1. QED
          BY <1>10, <1>11, <3>2
      <4>2. QED
        BY <4>1 DEF StaysIn, Carries
    <3>3. CASE Occ(Released(d), C) = 0
      <4>1. Occ(acc, C) # 0
        <5>1. Occ(acc, C) \in Nat
          BY <1>4, OccIsNatural
        <5> HIDE DEF C
        <5>2. QED
          BY <2>2, <3>1, <3>3, <5>1
      <4>2. PICK a \in DOMAIN acc : acc[a] \in C
        <5> HIDE DEF C
        <5>1. QED
          BY <1>4, <4>1, OccPositive
      <4> DEFINE f == acc[a]
                 q == f.observation
      <4>3. f \in Tracker /\ q \in Observed /\ q.obs = obs /\ q.match_count = 1
        BY <1>13, <4>2 DEF Carries, Tracker
      <4>4. Chosen(f, Seen).observation = q \/ GivenUp(f, Seen) = q
        BY <1>4, <4>3, ChosenIs
      <4> HIDE DEF q
      <4>5. StaysIn(new_trackers', m_container', q.obs)
        BY <1>14, <4>3, <4>4
      <4>6. QED
        BY <4>3, <4>5
    <3>4. QED
      BY <3>2, <3>3
  <2>3. QED
    BY <1>15, <2>1, <2>2 DEF StaysIn
<1>16. ASSUME h.thick < MaxThickness, Len(acc) <= 1 PROVE StaysIn(new_trackers', m_container', h)
  <2>1. Len(acc) \in Nat /\ DOMAIN acc = 1 .. Len(acc)
    BY <1>4, LenProperties
  <2>2. CASE Len(acc) = 0
    <3>1. acc = <<>>
      BY <1>4, <2>2, EmptySeq
    <3>2. Starts = <<h>>
      BY <1>7, <1>16, <3>1
    <3>3. 1 \in DOMAIN Starts /\ Starts[1] = h /\ Len(Starts) = 1
      BY <3>2
    <3>4. Len(Begun) = Len(Starts) /\ Last(Begun[1].spans).obs = Starts[1]
      BY <1>1, <1>2, <3>3, StartsAre
    <3>5. 1 \in DOMAIN Begun /\ Begun[1] \in Tracker
      <4>1. Len(Begun) = 1
        BY <3>3, <3>4
      <4>2. 1 \in 1 .. Len(Begun) /\ DOMAIN Begun = 1 .. Len(Begun)
        BY <1>4, <4>1, LenProperties
      <4> DEFINE r == Begun
      <4>3. r \in Seq(Tracker) /\ 1 \in 1 .. Len(r) /\ DOMAIN r = 1 .. Len(r)
        BY <1>4, <4>2
      <4> HIDE DEF r
      <4>4. 1 \in DOMAIN r /\ r[1] \in Tracker
        BY <4>3, ElementOfSeq
      <4>5. QED
        BY <4>4 DEF r
    <3>6. Begun[1] \in BeginsWith(h)
      BY <3>3, <3>4, <3>5 DEF BeginsWith
    <3> DEFINE T == BeginsWith(h)
    <3> HIDE DEF T
    <3>7. Occ(Begun, T) # 0
      BY <1>4, <3>5, <3>6, OccPositive DEF T
    <3>8. Occ(new_trackers', T) # 0
      BY <1>11, <3>7
    <3>9. QED
      BY <3>8 DEF StaysIn, T, BeginsWith
  <2>3. CASE Len(acc) = 1
    <3>1. 1 \in DOMAIN acc
      BY <2>1, <2>3
    <3>2. Seen.match_count = 1 /\ acc[1] \in Tracker
      BY <1>6, <1>13, <2>3, <3>1
    <3>3. Chosen(acc[1], Seen).observation = Seen \/ GivenUp(acc[1], Seen) = Seen
      BY <1>4, <3>2, ChosenIs
    <3>4. StaysIn(new_trackers', m_container', Seen.obs)
      BY <1>4, <1>14, <3>1, <3>2, <3>3
    <3>5. QED
      BY <1>6, <3>4
  <2>4. QED
    BY <1>16, <2>1, <2>2, <2>3
<1>17. ASSUME NEW c \in column', c.obs.thick < MaxThickness, c.accepted <= 1
       PROVE  StaysIn(new_trackers', m_container', c.obs)
  <2>1. CASE c \in column
    <3>1. StaysIn(new_trackers, m_container, c.obs)
      BY <1>2, <1>17, <2>1 DEF ObservationsOK
    <3>2. QED
      BY <1>15, <3>1
  <2>2. CASE c.obs = h /\ c.accepted = Len(acc)
    <3>1. StaysIn(new_trackers', m_container', h)
      BY <1>16, <1>17, <2>2
    <3>2. QED
      BY <2>2, <3>1
  <2>3. QED
    BY <1>3, <2>1, <2>2
<1>18. QED
  BY <1>17 DEF ObservationsOK

LEMMA ObservationsHold == IInv /\ ObservationsOK /\ [Next]_vars => ObservationsOK'
<1> SUFFICES ASSUME IInv, ObservationsOK, [Next]_vars PROVE ObservationsOK'
  OBVIOUS
<1>1. CASE Match
  BY <1>1, MatchKeepsObservations
<1>2. CASE NextColumn
  BY <1>2 DEF NextColumn, ObservationsOK
<1>3. CASE UNCHANGED vars
  BY <1>3 DEF vars, ObservationsOK
<1>4. CASE Release \/ StopSteep \/ Integrate \/ Continue \/ Stop \/ EndColumn \/ FinishTraversal
  <2>1. pc' # "match"
    BY <1>4 DEF Release, StopSteep, Integrate, Continue, Stop, EndColumn, FinishTraversal, Selecting
  <2>2. QED
    BY <2>1 DEF ObservationsOK
<1>5. QED
  BY <1>1, <1>2, <1>3, <1>4 DEF Next

(* A tracker that was found for an observation holds one, and one that is *)
(* not farther.                                                           *)
NearestOK ==
    pc = "match" =>
        /\ \A c \in column : c.obs \in Run /\ c.accepted \in Nat
        /\ \A f \in Held(m_container) : Weighed(f)
        /\ \A c \in column : \A f \in Held(m_container) :
              FoundFor(f, c.obs) => f.observation # NoObservation /\ f.distance <= Gap(c.obs, f)

(* A tracker is found by what its predictor says of it. *)
SamePrediction(f, g) == g.predicted = f.predicted /\ g.S = f.S /\ g.spans = f.spans

LEMMA SameFound ==
    ASSUME NEW f, NEW g, SamePrediction(f, g), NEW obs
    PROVE  /\ Found(g, obs) <=> Found(f, obs)
           /\ Gap(obs, g) = Gap(obs, f) /\ Position(g) = Position(f)
BY DEF SamePrediction, Found, accepts, Meets, Thicker, Thickness, Values, Gap, Position

(* The trackers of the buckets after Match: those that were found have the *)
(* choice, the others were not found.                                      *)
LEMMA HeldAfterMatch ==
    ASSUME IInv, Match, NEW g \in Held(m_container')
    PROVE  \E f \in Held(m_container) :
              \/ g = Chosen(f, Seen)
              \/ /\ g \in {f, PassedOver(f, Head(observations))}
                 /\ ~FoundFor(f, Head(observations))
<1> DEFINE h == Head(observations)
           acc == Accepted(h)
           s == AllChosen(acc, Seen)
           d == Others(h)
<1>1. /\ observations \in Seq(Run) /\ observations # <<>> /\ m_container \in Container
      /\ t \in Nat /\ id \in Nat /\ Homed(m_container)
  BY MatchIs DEF IInv, TypeOK, BucketsOK
<1>2. acc \in Seq(Tracker) /\ Seen \in Observed /\ d \in Container
  BY <1>1, SeenIs, OthersAre
<1>3. s \in Seq(Tracker) /\ DOMAIN s = DOMAIN acc
  BY <1>2, AllChosenIs
<1>4. m_container' = AllInserted(d, s)
  BY MatchIs
<1>5. \A a \in DOMAIN s : acc[a] \in Held(m_container) /\ s[a] = Chosen(acc[a], Seen)
  <2>1. Range(acc) \in SUBSET Held(m_container)
    BY <1>1, AcceptedAre
  <2>2. QED
    BY <1>3, <2>1 DEF AllChosen, Range
<1>6. \A b \in Bucket :
         d[b] = IF b \in Window(h)
                THEN [a \in DOMAIN Left(b, h) |-> PassedOver(Left(b, h)[a], h)] ELSE m_container[b]
  BY <1>1 DEF Others, Container
<1> HIDE DEF h, acc, s, d
<1>7. g \in Held(d) \cup Range(s)
  BY <1>2, <1>3, <1>4, AllInsertedHolds
<1>8. CASE g \in Range(s)
  BY <1>5, <1>8 DEF Range
<1>9. CASE g \in Held(d)
  <2>1. PICK b \in Bucket : g \in Range(d[b])
    BY <1>2, <1>9, HeldIs
  <2>2. CASE b \in Window(h)
    <3> DEFINE q == Left(b, h)
    <3>1. PICK a \in DOMAIN q : g = PassedOver(q[a], h)
      BY <1>6, <2>1, <2>2 DEF Range
    <3>2. q[a] \in Range(q)
      BY DEF Range
    <3>3. q[a] \in Range(m_container[b]) /\ ~Found(q[a], h)
      BY <1>1, <3>2, HereOrLeft
    <3>4. q[a] \in Held(m_container)
      BY <1>1, <3>3, HeldIs
    <3>5. QED
      BY <3>1, <3>3, <3>4 DEF FoundFor, h
  <2>3. CASE b \notin Window(h)
    <3>1. g \in Range(m_container[b])
      BY <1>6, <2>1, <2>3
    <3>2. g \in Held(m_container) /\ BucketNumber(Position(g)) = b
      BY <1>1, <3>1, HeldIs DEF Homed
    <3>3. QED
      BY <2>3, <3>2 DEF FoundFor, h
  <2>4. QED
    BY <2>2, <2>3
<1>10. QED
  BY <1>7, <1>8, <1>9

(* As long as there is a tracker, the same buckets are visited. *)
LEMMA SameWindow ==
    ASSUME m_container \in Container, m_container' \in Container,
           Held(m_container) # {}, Held(m_container') # {}, NEW obs
    PROVE  Window(obs)' = Window(obs)
<1>1. ASSUME NEW c \in Container, Held(c) # {} PROVE \E b \in DOMAIN c : c[b] # <<>>
  <2>1. DOMAIN c = Bucket
    BY DEF Container
  <2>2. QED
    BY <1>1, <2>1, HeldIs
<1>2. /\ \E b \in DOMAIN m_container : m_container[b] # <<>>
      /\ \E b \in DOMAIN m_container' : m_container'[b] # <<>>
  BY <1>1
<1> DEFINE reach(r) == Max({obs.thick, r})
           window(r) == Max({0, BucketNumber(Max({obs.pos - reach(r), 0})) - 1})
                        .. Min({BucketCount - 1, BucketNumber(obs.pos + reach(r)) + 1})
           far == IF \E b \in DOMAIN m_container : m_container[b] # <<>> THEN 2 * Sigma ELSE 0
<1>3. far = 2 * Sigma /\ far' = 2 * Sigma
  BY <1>2
<1>4. Window(obs) = window(far) /\ Window(obs)' = window(far')
  BY DEF Window
<1> HIDE DEF window, far
<1>5. QED
  BY <1>3, <1>4

LEMMA MatchKeepsNearest == IInv /\ NearestOK /\ Match => NearestOK'
<1> SUFFICES ASSUME IInv, NearestOK, Match PROVE NearestOK'
  OBVIOUS
<1> DEFINE h == Head(observations)
<1>1. /\ observations \in Seq(Run) /\ observations # <<>> /\ m_container \in Container
      /\ t \in Nat /\ id \in Nat /\ pc = "match" /\ descriptor' = descriptor
  BY MatchIs DEF IInv, TypeOK
<1>2. h \in Run /\ Seen \in Observed /\ Seen.obs = h
  BY <1>1, SeenIs DEF Seen
<1>3. m_container' \in Container
  BY MatchKeeps DEF IInv, TypeOK
<1>4. \A c \in column' : c \in column \/ (c.obs = h /\ c.accepted \in Nat)
  <2> DEFINE miss == {f \in Range(Released(m_container)) : Found(f, h)} \ Range(Accepted(h))
  <2>1. column' = column \cup {[obs |-> h, accepted |-> Len(Accepted(h)), missed |-> miss]}
    BY MatchIs
  <2>2. Len(Accepted(h)) \in Nat
    BY <1>1, SeenIs, LenProperties
  <2> HIDE DEF miss, h
  <2>3. QED
    BY <2>1, <2>2
<1>5. /\ \A c \in column : c.obs \in Run /\ c.accepted \in Nat
      /\ \A f \in Held(m_container) : Weighed(f)
      /\ \A c \in column : \A f \in Held(m_container) :
            FoundFor(f, c.obs) => f.observation # NoObservation /\ f.distance <= Gap(c.obs, f)
  BY <1>1 DEF NearestOK
<1>6. \A c \in column' : c.obs \in Run /\ c.accepted \in Nat
  BY <1>2, <1>4, <1>5
<1>7. ASSUME NEW g \in Held(m_container')
      PROVE  /\ Weighed(g)
             /\ \A c \in column' : FoundFor(g, c.obs)'
                   => g.observation # NoObservation /\ g.distance <= Gap(c.obs, g)
  <2>1. PICK f \in Held(m_container) :
           \/ g = Chosen(f, Seen)
           \/ g \in {f, PassedOver(f, h)} /\ ~FoundFor(f, h)
    BY HeldAfterMatch
  <2>2. f \in Tracker /\ f.distance \in Int /\ f.predicted \in Int
    <3>1. f \in Tracker
      BY <1>1, HeldIs
    <3>2. QED
      BY <3>1 DEF Tracker
  <2> HIDE DEF h
  <2>3. \A obs \in Run : Gap(obs, f) \in Int
    BY <2>2 DEF Gap, Distance, Run
  <2>4. /\ SamePrediction(f, g)
        /\ f.observation # NoObservation => g.observation # NoObservation /\ g.distance <= f.distance
        /\ Weighed(g)
        /\ FoundFor(f, h) => g.observation # NoObservation /\ g.distance <= Gap(h, f)
    <3>1. CASE g = Chosen(f, Seen)
      <4>1. /\ g.spans = f.spans /\ g.predicted = f.predicted /\ g.S = f.S
            /\ \/ g = f /\ f.observation # NoObservation /\ f.distance <= Gap(h, f)
               \/ /\ g.observation = Seen /\ g.distance = Gap(h, f)
                  /\ f.observation # NoObservation => Gap(h, f) < f.distance
        BY <1>2, <2>2, <3>1, ChosenIs
      <4>2. Seen # NoObservation /\ Gap(h, g) = Gap(h, f) /\ Gap(h, f) \in Int
        BY <1>2, <2>3, <4>1 DEF Observed, NoObservation, Gap
      <4>3. CASE g = f /\ f.distance <= Gap(h, f) /\ f.observation # NoObservation
        BY <1>5, <2>2, <4>3 DEF SamePrediction
      <4>4. CASE /\ g.observation = Seen /\ g.distance = Gap(h, f)
                 /\ f.observation # NoObservation => Gap(h, f) < f.distance
        BY <1>2, <2>2, <4>1, <4>2, <4>4 DEF SamePrediction, Weighed
      <4>5. QED
        BY <4>1, <4>3, <4>4
    <3>2. CASE g \in {f, PassedOver(f, h)} /\ ~FoundFor(f, h)
      <4>1. /\ g.spans = f.spans /\ g.predicted = f.predicted /\ g.S = f.S
            /\ g.observation = f.observation /\ g.distance = f.distance
        BY <1>1, <2>2, <3>2, PassedOverIs
      <4>2. Weighed(g)
        BY <1>5, <4>1 DEF Weighed, Gap
      <4>3. QED
        BY <2>2, <3>2, <4>1, <4>2 DEF SamePrediction
    <3>3. QED
      BY <2>1, <3>1, <3>2
  <2>5. ASSUME NEW obs PROVE /\ FoundFor(g, obs)' <=> FoundFor(f, obs)
                             /\ Gap(obs, g) = Gap(obs, f)
    <3>1. Window(obs)' = Window(obs)
      BY <1>1, <1>3, SameWindow
    <3>2. Found(g, obs)' <=> Found(g, obs)
      BY <1>1 DEF Found, accepts
    <3>3. /\ Found(g, obs) <=> Found(f, obs)
          /\ Gap(obs, g) = Gap(obs, f) /\ Position(g) = Position(f)
      BY <2>4, SameFound
    <3>4. QED
      BY <3>1, <3>2, <3>3 DEF FoundFor
  <2>6. ASSUME NEW c \in column', FoundFor(f, c.obs)
        PROVE  g.observation # NoObservation /\ g.distance <= Gap(c.obs, f)
    <3>1. CASE c.obs = h
      BY <2>4, <2>6, <3>1
    <3>2. CASE c \in column
      <4>1. f.observation # NoObservation /\ f.distance <= Gap(c.obs, f)
        BY <1>5, <2>6, <3>2
      <4>2. Gap(c.obs, f) \in Int /\ g.distance \in Int
        <5>1. g \in Tracker
          BY <1>3, HeldIs
        <5>2. QED
          BY <1>6, <2>3, <5>1 DEF Tracker
      <4>3. QED
        BY <2>2, <2>4, <4>1, <4>2
    <3>3. QED
      BY <1>4, <3>1, <3>2
  <2>7. QED
    BY <2>4, <2>5, <2>6
<1>8. QED
  BY <1>6, <1>7 DEF NearestOK

LEMMA NearestHolds == IInv /\ NearestOK /\ [Next]_vars => NearestOK'
<1> SUFFICES ASSUME IInv, NearestOK, [Next]_vars PROVE NearestOK'
  OBVIOUS
<1>1. CASE Match
  BY <1>1, MatchKeepsNearest
<1>2. CASE NextColumn
  <2> DEFINE s == [a \in DOMAIN trackers |-> Predicted(trackers[a])]
  <2>1. column' = {} /\ m_container' = AllInserted(EmptyBuckets, s)
    BY <1>2 DEF NextColumn
  <2>2. DOMAIN trackers = 1 .. Len(trackers) /\ \A a \in DOMAIN trackers : trackers[a] \in Tracker
    BY LenProperties, ElementOfSeq DEF IInv, TypeOK
  <2>3. \A a \in DOMAIN trackers : s[a] \in Tracker /\ s[a].observation = NoObservation
    BY <2>2, PredictedIs
  <2>4. s \in Seq(Tracker) /\ DOMAIN s = DOMAIN trackers
    <3>1. Len(trackers) \in Nat
      BY LenProperties DEF IInv, TypeOK
    <3>2. QED
      BY <2>2, <2>3, <3>1
  <2> HIDE DEF s
  <2>5. EmptyBuckets \in Container /\ Held(EmptyBuckets) = {}
    <3>1. \A b \in Bucket : EmptyBuckets[b] = <<>>
      BY DEF EmptyBuckets, Bucket
    <3>2. EmptyBuckets \in Container
      BY EmptyBucketsHold
    <3>3. QED
      BY <3>1, <3>2, HeldIs
  <2>6. Held(m_container') = Range(s)
    BY <2>1, <2>4, <2>5, AllInsertedHolds
  <2>7. \A f \in Held(m_container') : f.observation = NoObservation
    BY <2>3, <2>4, <2>6 DEF Range
  <2>8. QED
    BY <2>1, <2>7 DEF NearestOK, Weighed
<1>3. CASE UNCHANGED vars
  <2>1. /\ pc' = pc /\ column' = column /\ m_container' = m_container
        /\ descriptor' = descriptor
    BY <1>3 DEF vars
  <2>2. \A f, obs : FoundFor(f, obs)' = FoundFor(f, obs)
    BY <2>1 DEF FoundFor, Found, accepts, Window
  <2>3. QED
    BY <2>1, <2>2 DEF NearestOK
<1>4. CASE Release \/ StopSteep \/ Integrate \/ Continue \/ Stop \/ EndColumn \/ FinishTraversal
  <2>1. pc' # "match"
    BY <1>4 DEF Release, StopSteep, Integrate, Continue, Stop, EndColumn, FinishTraversal, Selecting
  <2>2. QED
    BY <2>1 DEF NearestOK
<1>5. QED
  BY <1>1, <1>2, <1>3, <1>4 DEF Next

(* Of an observation that one tracker accepted, or none, something remains. *)
LEMMA RemainingAreHeld ==
    ASSUME IInv, ObservationsOK, pc = "match", NEW c \in column,
           c.obs.thick < MaxThickness, c.accepted <= 1
    PROVE  Remains(c.obs)
<1>1. new_trackers \in Seq(Tracker) /\ m_container \in Container
  BY DEF IInv, TypeOK
<1>2. Occ(new_trackers, BeginsWith(c.obs)) # 0 \/ Occ(Released(m_container), Carries(c.obs)) # 0
  BY DEF ObservationsOK, StaysIn
<1>3. CASE Occ(new_trackers, BeginsWith(c.obs)) # 0
  <2>1. PICK a \in DOMAIN new_trackers : new_trackers[a] \in BeginsWith(c.obs)
    BY <1>1, <1>3, OccPositive
  <2>2. QED
    BY <2>1 DEF BeginsWith, Range, Remains
<1>4. CASE Occ(Released(m_container), Carries(c.obs)) # 0
  <2>1. PICK b \in Bucket : \E f \in Range(m_container[b]) : f \in Carries(c.obs)
    BY <1>1, <1>4, OccReleased
  <2>2. DOMAIN m_container = Bucket
    BY <1>1 DEF Container
  <2>3. QED
    BY <2>1, <2>2 DEF Carries, Remains, Matched
<1>5. QED
  BY <1>2, <1>3, <1>4

LEMMA LostAreOutbid == IInv /\ ObservationsOK /\ NearestOK => LostObservationsAreOutbid
<1> SUFFICES ASSUME IInv, ObservationsOK, NearestOK, pc = "match", NEW c \in column,
                    ~(c.obs.thick >= MaxThickness), ~Remains(c.obs)
             PROVE  c.accepted > 1 /\ \A f \in Matched : FoundFor(f, c.obs) => Outbid(f, c.obs)
  BY DEF LostObservationsAreOutbid
<1>1. m_container \in Container
  BY DEF IInv, TypeOK
<1>2. ASSUME NEW f \in Matched, FoundFor(f, c.obs) PROVE Outbid(f, c.obs)
  <2>1. f \in Held(m_container)
    BY <1>1 DEF Matched, Held, Container
  <2>2. /\ f.observation # NoObservation /\ f.distance <= Gap(c.obs, f)
        /\ f.distance = Gap(f.observation.obs, f)
    BY <1>2, <2>1 DEF NearestOK, Weighed
  <2>3. QED
    BY <2>2 DEF Outbid, Gap
<1>3. c.accepted \in Nat /\ ~(c.accepted <= 1)
  <2>1. c.obs.thick \in Nat /\ c.accepted \in Nat /\ MaxThickness \in Nat
    BY LineTrackingAssumption DEF NearestOK, Run
  <2>2. c.obs.thick < MaxThickness
    BY <2>1
  <2>3. QED
    BY <2>1, <2>2, RemainingAreHeld
<1>4. QED
  BY <1>2, <1>3

(***************************************************************************)
(* While a column is matched, a thin observation is held by a tracker, or  *)
(* begins one, unless several trackers were found for it and each holds    *)
(* another one that is not farther: for any columns, in any order.         *)
(***************************************************************************)
THEOREM OnlyOutbidAreLost == Spec => []LostObservationsAreOutbid
<1>1. Init => ObservationsOK /\ NearestOK
  BY DEF Init, ObservationsOK, NearestOK
<1>2. IInv /\ ObservationsOK /\ [Next]_vars => ObservationsOK'
  BY ObservationsHold
<1>3. IInv /\ NearestOK /\ [Next]_vars => NearestOK'
  BY NearestHolds
<1>4. IInv /\ ObservationsOK /\ NearestOK => LostObservationsAreOutbid
  BY LostAreOutbid
<1>5. QED
  BY <1>1, <1>2, <1>3, <1>4, TrackingInvariant, PTL DEF Spec
=============================================================================
