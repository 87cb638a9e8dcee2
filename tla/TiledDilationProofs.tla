------------------------ MODULE TiledDilationProofs ------------------------
(***************************************************************************)
(* Proofs about a tiled dilation, for every image, structuring element,    *)
(* size of the tiles, way of splitting and order of the tasks: what a      *)
(* filter computes, that no two tasks meet, that the regions of the chain  *)
(* fit in its buffers, and that the output is the dilation.                *)
(***************************************************************************)
EXTENDS TiledDilation, DataLemmas, SequenceTheorems

(* The elements that are run by a filter of their own. *)
IsFilter(se) ==
    \/ /\ se.kind = "line" /\ se.k \in Nat /\ se.delta \in Int \X Int
       /\ se.delta[2] > 0 \/ (se.delta[2] = 0 /\ se.delta[1] > 0)
    \/ se.kind = "disc" /\ se.radius \in Nat

AreFilters(S) == \A se \in S : IsFilter(se)

IsChain(F) == \E S : F \in Seq(S) /\ AreFilters(S)

(* The regions the filters of a chain work on, from the input to the tile. *)
AreRegions(region, F, tile) ==
    region = [f \in 0 .. Len(F) |->
                 IF f = Len(F) THEN tile ELSE compute_input_region(F[f + 1], region[f + 1])]

RegionsOf(F, tile) == CHOOSE region : AreRegions(region, F, tile)

Boxes == [x0 : Int, y0 : Int, x1 : Int, y1 : Int]

LEMMA BoxesAre == \A b : IsBox(b) <=> b \in Boxes /\ b.x0 < b.x1 /\ b.y0 < b.y1
BY DEF IsBox, Boxes

LEMMA ExtentsAre ==
    ASSUME NEW se, IsFilter(se)
    PROVE  /\ ExtentX(se) \in Nat /\ ExtentY(se) \in Nat
           /\ \A b \in Boxes : /\ compute_input_region(se, b) \in Boxes
                               /\ compute_output_region(se, compute_input_region(se, b)) = b
<1>1. ExtentX(se) \in Nat /\ ExtentY(se) \in Nat
  <2>1. CASE se.kind = "line" /\ se.k \in Nat /\ se.delta \in Int \X Int
    <3>1. Abs(se.delta[1]) \in Nat /\ Abs(se.delta[2]) \in Nat
      BY <2>1 DEF Abs
    <3>2. \A a, b \in Nat : a * b \in Nat
      OBVIOUS
    <3>3. ExtentX(se) = Abs(se.delta[1]) * se.k /\ ExtentY(se) = Abs(se.delta[2]) * se.k
      BY <2>1 DEF ExtentX, ExtentY
    <3>4. QED
      BY <2>1, <3>1, <3>2, <3>3
  <2>2. CASE se.kind = "disc" /\ se.radius \in Nat
    BY <2>2 DEF ExtentX, ExtentY
  <2>3. QED
    BY <2>1, <2>2 DEF IsFilter
<1>2. QED
  BY <1>1 DEF Boxes, compute_input_region, compute_output_region, Inflate

(* The sizes of the lines of a disc add up to its radius. *)
LEMMA RoundingIs ==
    ASSUME NEW z \in Int
    PROVE  /\ z \div 1000000 \in Int
           /\ 1000000 * (z \div 1000000) <= z
           /\ z < 1000000 * (z \div 1000000) + 1000000
BY DivisionBounds

LEMMA DiscReach ==
    ASSUME NEW radius \in Nat
    PROVE  LET k == DiscCoefficients(radius)
           IN  /\ k = <<k[1], k[2], k[3]>>
               /\ k[1] \in Nat /\ k[2] \in Nat /\ k[3] \in Nat
               /\ k[1] + 2 * k[2] + 6 * k[3] = radius
<1> DEFINE k0 == IF radius < 11 THEN 1 + ((radius + 1) % 2) ELSE Rounded(224981, radius, -749978)
           k2 == IF radius < 7 THEN 0 ELSE Rounded(92869, radius, 34719)
           r  == radius - k0 - 6 * k2
<1>1. radius # 0 => k0 \in Nat /\ k2 \in Nat /\ r \in Nat
  <2> SUFFICES ASSUME radius # 0 PROVE k0 \in Nat /\ k2 \in Nat /\ r \in Nat
    OBVIOUS
  <2>1. CASE radius < 7
    <3>1. radius \in {1, 2, 3, 4, 5, 6}
      BY <2>1
    <3>2. k0 = 1 + ((radius + 1) % 2) /\ k2 = 0
      BY <2>1
    <3>3. QED
      BY <3>1, <3>2
  <2>2. CASE ~(radius < 7)
    <3> DEFINE c == 224981 * radius + (-749978) + 500000
               d == 92869 * radius + 34719 + 500000
    <3>1. c \in Int /\ d \in Int
      OBVIOUS
    <3>2. k2 = d \div 1000000
      BY <2>2 DEF Rounded
    <3>3. /\ k2 \in Int /\ 1000000 * k2 <= 92869 * radius + 534719
          /\ 92869 * radius + 534719 < 1000000 * k2 + 1000000
      BY <3>1, <3>2, RoundingIs
    <3>4. CASE radius < 11
      <4>1. radius \in {7, 8, 9, 10}
        BY <2>2, <3>4
      <4>2. k0 = 1 + ((radius + 1) % 2)
        BY <3>4
      <4> HIDE DEF k0, k2
      <4>3. k2 = 1
        BY <3>3, <4>1
      <4>4. QED
        BY <4>1, <4>2, <4>3
    <3>5. CASE ~(radius < 11)
      <4>1. k0 = c \div 1000000
        BY <3>5 DEF Rounded
      <4>2. /\ k0 \in Int /\ 1000000 * k0 <= 224981 * radius - 249978
            /\ 224981 * radius - 249978 < 1000000 * k0 + 1000000
        BY <3>1, <4>1, RoundingIs
      <4> HIDE DEF k0, k2
      <4>3. k0 \in Nat /\ k2 \in Nat
        BY <3>3, <3>5, <4>2
      <4>4. k0 + 6 * k2 <= radius
        BY <3>3, <3>5, <4>2
      <4>5. QED
        BY <4>3, <4>4
    <3>6. QED
      BY <3>4, <3>5
  <2>3. QED
    BY <2>1, <2>2
<1> HIDE DEF k0, k2
<1>2. CASE radius = 0
  <2>1. DiscCoefficients(radius) = <<0, 0, 0>>
    BY <1>2 DEF DiscCoefficients
  <2>2. QED
    BY <1>2, <2>1
<1>3. CASE radius # 0
  <2>1. DiscCoefficients(radius) = IF r > 0 THEN <<k0 + (r % 2), r \div 2, k2>> ELSE <<k0, 0, k2>>
    BY <1>3 DEF DiscCoefficients, k0, k2
  <2>2. r % 2 \in Nat /\ r \div 2 \in Nat /\ r = 2 * (r \div 2) + (r % 2)
    BY <1>1, <1>3
  <2>3. r = radius - k0 - 6 * k2 /\ k0 \in Nat /\ k2 \in Nat /\ r \in Nat
    BY <1>1, <1>3
  <2> HIDE DEF r
  <2>4. CASE r > 0
    <3>1. DiscCoefficients(radius) = <<k0 + (r % 2), r \div 2, k2>>
      BY <2>1, <2>4
    <3> DEFINE a == r % 2
               b == r \div 2
    <3>2. a \in Nat /\ b \in Nat /\ r = 2 * b + a
      BY <2>2
    <3>3. DiscCoefficients(radius) = <<k0 + a, b, k2>>
      BY <3>1
    <3> HIDE DEF a, b
    <3>4. (k0 + a) + 2 * b + 6 * k2 = radius /\ k0 + a \in Nat
      BY <2>3, <3>2
    <3>5. QED
      BY <2>3, <3>2, <3>3, <3>4
  <2>5. CASE ~(r > 0)
    <3>1. DiscCoefficients(radius) = <<k0, 0, k2>>
      BY <2>1, <2>5
    <3>2. QED
      BY <2>3, <2>5, <3>1
  <2>6. QED
    BY <2>4, <2>5
<1>4. QED
  BY <1>2, <1>3

LEMMA LineIs ==
    ASSUME NEW a \in Int, NEW b \in Nat, NEW k \in Nat, b > 0 \/ a > 0
    PROVE  /\ IsFilter(Line(<<a, b>>, k))
           /\ ExtentX(Line(<<a, b>>, k)) = Abs(a) * k
           /\ ExtentY(Line(<<a, b>>, k)) = Abs(b) * k
<1> DEFINE delta == <<a, b>>
<1>1. ~(delta[2] < 0 \/ (delta[2] = 0 /\ delta[1] < 0))
  OBVIOUS
<1>2. Line(delta, k) = [kind |-> "line", k |-> k, delta |-> delta]
  BY <1>1 DEF Line
<1>3. delta \in Int \X Int /\ (delta[2] > 0 \/ (delta[2] = 0 /\ delta[1] > 0)) /\ delta[1] = a /\ delta[2] = b
  OBVIOUS
<1> HIDE DEF delta
<1>4. QED
  BY <1>2, <1>3 DEF IsFilter, ExtentX, ExtentY, delta

(* The elements of a chain reach together as far as X and Y. *)
Reaches(F, X, Y) ==
    /\ IsChain(F) /\ X \in Int /\ Y \in Int
    /\ \A tile \in Boxes : \A region :
          AreRegions(region, F, tile) => region[0] = Inflate(tile, X, Y)

LEMMA ChainIs ==
    ASSUME NEW F, IsChain(F)
    PROVE  Len(F) \in Nat /\ \A f \in 1 .. Len(F) : IsFilter(F[f])
BY DEF IsChain, AreFilters

(* The regions, from the last one to the first. *)
LEMMA RegionsAre ==
    ASSUME NEW F, IsChain(F), NEW tile \in Boxes, NEW region, AreRegions(region, F, tile)
    PROVE  /\ region[Len(F)] = tile
           /\ \A f \in 0 .. Len(F) - 1 : region[f] = compute_input_region(F[f + 1], region[f + 1])
<1>1. \A f \in 0 .. Len(F) : region[f] = IF f = Len(F) THEN tile ELSE compute_input_region(F[f + 1], region[f + 1])
  BY DEF AreRegions
<1>2. Len(F) \in Nat
  BY ChainIs
<1>3. region[Len(F)] = tile
  BY <1>1, <1>2
<1>4. ASSUME NEW f \in 0 .. Len(F) - 1
      PROVE  region[f] = compute_input_region(F[f + 1], region[f + 1])
  <2>1. f \in 0 .. Len(F) /\ f # Len(F)
    BY <1>2
  <2>2. QED
    BY <1>1, <2>1
<1>5. QED
  BY <1>3, <1>4

LEMMA InflateTwice ==
    ASSUME NEW b \in Boxes, NEW x \in Int, NEW y \in Int
    PROVE  /\ Inflate(b, x, y) \in Boxes
           /\ \A z, v \in Int : Inflate(Inflate(b, x, y), z, v) = Inflate(b, x + z, y + v)
           /\ Inflate(b, 0, 0) = b
BY DEF Boxes, Inflate

LEMMA ReachOfNone == Reaches(<<>>, 0, 0)
<1>1. IsChain(<<>>) /\ Len(<<>>) = 0
  <2>1. <<>> \in Seq({}) /\ Len(<<>>) = 0
    BY EmptySeq
  <2>2. \E S : <<>> \in Seq(S) /\ AreFilters(S)
    <3>1. AreFilters({})
      BY DEF AreFilters
    <3>2. QED
      BY <2>1, <3>1, Zenon
  <2>3. QED
    BY <2>1, <2>2 DEF IsChain
<1>2. ASSUME NEW tile \in Boxes, NEW region, AreRegions(region, <<>>, tile)
      PROVE  region[0] = Inflate(tile, 0, 0)
  <2>1. region[0] = tile
    BY <1>1, <1>2, RegionsAre
  <2>2. QED
    BY <2>1, InflateTwice
<1>3. QED
  BY <1>1, <1>2 DEF Reaches

LEMMA ReachOfOne ==
    ASSUME NEW se, IsFilter(se)
    PROVE  Reaches(<<se>>, ExtentX(se), ExtentY(se))
<1>1. IsChain(<<se>>) /\ Len(<<se>>) = 1 /\ <<se>>[1] = se
  <2>1. <<se>> \in Seq({se}) /\ Len(<<se>>) = 1 /\ <<se>>[1] = se
    OBVIOUS
  <2>2. \E S : <<se>> \in Seq(S) /\ AreFilters(S)
    <3>1. AreFilters({se})
      BY DEF AreFilters
    <3>2. QED
      BY <2>1, <3>1, Zenon
  <2>3. QED
    BY <2>1, <2>2 DEF IsChain
<1>2. ASSUME NEW tile \in Boxes, NEW region, AreRegions(region, <<se>>, tile)
      PROVE  region[0] = Inflate(tile, ExtentX(se), ExtentY(se))
  <2>1. /\ region[Len(<<se>>)] = tile
        /\ \A f \in 0 .. Len(<<se>>) - 1 :
              region[f] = compute_input_region(<<se>>[f + 1], region[f + 1])
    BY <1>1, <1>2, RegionsAre
  <2>2. region[1] = tile /\ region[0] = compute_input_region(<<se>>[0 + 1], region[0 + 1])
    BY <1>1, <2>1
  <2>3. QED
    BY <1>1, <2>2 DEF compute_input_region
<1>3. QED
  BY <1>1, <1>2, ExtentsAre DEF Reaches

(* The extents of two chains add up. *)
LEMMA ReachOfBoth ==
    ASSUME NEW F, NEW G, NEW X, NEW Y, NEW Z, NEW V, Reaches(F, X, Y), Reaches(G, Z, V)
    PROVE  Reaches(F \o G, X + Z, Y + V)
<1> DEFINE FG == F \o G
           n == Len(F)
           m == Len(G)
<1>1. X \in Int /\ Y \in Int /\ Z \in Int /\ V \in Int /\ IsChain(F) /\ IsChain(G)
  BY DEF Reaches
<1>2. /\ IsChain(FG) /\ Len(FG) = n + m
      /\ \A f \in 1 .. n : FG[f] = F[f]
      /\ \A f \in 1 .. m : FG[n + f] = G[f]
  <2>1. PICK S : F \in Seq(S) /\ AreFilters(S)
    BY <1>1 DEF IsChain
  <2>2. PICK T : G \in Seq(T) /\ AreFilters(T)
    BY <1>1 DEF IsChain
  <2>3. F \in Seq(S \cup T) /\ G \in Seq(S \cup T) /\ AreFilters(S \cup T)
    BY <2>1, <2>2 DEF AreFilters
  <2>4. /\ FG \in Seq(S \cup T) /\ Len(FG) = n + m
        /\ \A i \in 1 .. n + m : FG[i] = IF i <= n THEN F[i] ELSE G[i - n]
    BY <2>3, ConcatProperties
  <2>5. n \in Nat /\ m \in Nat
    BY <1>1, ChainIs
  <2> HIDE DEF n, m, FG
  <2>6. IsChain(FG)
    BY <2>3, <2>4 DEF IsChain
  <2>7. ASSUME NEW f \in 1 .. n PROVE FG[f] = F[f]
    <3>1. f \in 1 .. n + m /\ f <= n
      BY <2>5
    <3>2. QED
      BY <2>4, <3>1
  <2>8. ASSUME NEW f \in 1 .. m PROVE FG[n + f] = G[f]
    <3>1. n + f \in 1 .. n + m /\ ~(n + f <= n) /\ (n + f) - n = f
      BY <2>5
    <3>2. QED
      BY <2>4, <3>1
  <2>9. QED
    BY <2>4, <2>6, <2>7, <2>8
<1>3. n \in Nat /\ m \in Nat
  BY <1>1, ChainIs
<1> HIDE DEF n, m, FG
<1>4. ASSUME NEW tile \in Boxes, NEW region, AreRegions(region, FG, tile)
      PROVE  region[0] = Inflate(tile, X + Z, Y + V)
  <2>1. /\ region[n + m] = tile
        /\ \A f \in 0 .. n + m - 1 : region[f] = compute_input_region(FG[f + 1], region[f + 1])
    <3>1. \A f \in 0 .. n + m :
             region[f] = IF f = n + m THEN tile ELSE compute_input_region(FG[f + 1], region[f + 1])
      BY <1>2, <1>4 DEF AreRegions
    <3>2. n + m \in 0 .. n + m
      BY <1>3
    <3>3. \A f \in 0 .. n + m - 1 : f \in 0 .. n + m /\ f # n + m
      BY <1>3
    <3>4. QED
      BY <3>1, <3>2, <3>3
  <2> DEFINE last == [f \in 0 .. m |-> region[n + f]]
             first == [f \in 0 .. n |-> region[f]]
  <2>2. ASSUME NEW f \in 0 .. m
        PROVE  last[f] = IF f = m THEN tile ELSE compute_input_region(G[f + 1], last[f + 1])
    <3>1. CASE f = m
      BY <2>1, <3>1
    <3>2. CASE f # m
      <4>1. /\ n + f \in 0 .. n + m - 1 /\ f + 1 \in 1 .. m /\ f + 1 \in 0 .. m
            /\ n + f + 1 = n + (f + 1)
        BY <1>3, <3>2
      <4>2. region[n + f] = compute_input_region(FG[n + f + 1], region[n + f + 1])
        BY <2>1, <4>1
      <4>3. FG[n + (f + 1)] = G[f + 1]
        BY <1>2, <4>1
      <4>4. QED
        BY <3>2, <4>1, <4>2, <4>3
    <3>3. QED
      BY <3>1, <3>2
  <2>3. last = [f \in 0 .. m |-> last[f]]
    OBVIOUS
  <2>4. ASSUME NEW f \in 0 .. n
        PROVE  first[f] = IF f = n THEN region[n] ELSE compute_input_region(F[f + 1], first[f + 1])
    <3>1. CASE f = n
      BY <3>1
    <3>2. CASE f # n
      <4>1. f \in 0 .. n + m - 1 /\ f + 1 \in 1 .. n /\ f + 1 \in 0 .. n
        BY <1>3, <3>2
      <4>2. region[f] = compute_input_region(FG[f + 1], region[f + 1])
        BY <2>1, <4>1
      <4>3. FG[f + 1] = F[f + 1]
        BY <1>2, <4>1
      <4>4. QED
        BY <3>2, <4>1, <4>2, <4>3
    <3>3. QED
      BY <3>1, <3>2
  <2>5. first = [f \in 0 .. n |-> first[f]]
    OBVIOUS
  <2>6. last[0] = region[n] /\ first[0] = region[0]
    BY <1>3
  <2> HIDE DEF last, first
  <2>7. AreRegions(last, G, tile)
    BY <2>2, <2>3 DEF AreRegions, m
  <2>8. last[0] = Inflate(tile, Z, V)
    BY <2>7 DEF Reaches
  <2>9. last[0] \in Boxes
    BY <1>1, <2>8, InflateTwice
  <2>10. AreRegions(first, F, region[n])
    BY <2>4, <2>5 DEF AreRegions, n
  <2>11. first[0] = Inflate(region[n], X, Y)
    BY <2>6, <2>9, <2>10 DEF Reaches
  <2>12. Inflate(Inflate(tile, Z, V), X, Y) = Inflate(tile, Z + X, V + Y)
    BY <1>1 DEF Inflate, Boxes
  <2>13. Z + X = X + Z /\ V + Y = Y + V
    BY <1>1
  <2>14. QED
    BY <2>6, <2>8, <2>11, <2>12, <2>13
<1>5. X + Z \in Int /\ Y + V \in Int
  BY <1>1
<1>6. QED
  BY <1>2, <1>4, <1>5 DEF Reaches, FG

(* Chains of two and of four. *)
LEMMA TwoAre ==
    ASSUME NEW a, NEW b
    PROVE  <<a, b>> = <<a>> \o <<b>>
<1> DEFINE S == {a, b}
<1>1. <<a>> \in Seq(S) /\ <<b>> \in Seq(S) /\ <<a, b>> \in Seq(S)
  OBVIOUS
<1>2. Len(<<a>>) = 1 /\ Len(<<b>>) = 1 /\ Len(<<a, b>>) = 2
  OBVIOUS
<1> DEFINE u == <<a>> \o <<b>>
<1>3. /\ u \in Seq(S) /\ Len(u) = 2
      /\ \A i \in 1 .. 2 : u[i] = IF i <= 1 THEN <<a>>[i] ELSE <<b>>[i - 1]
  BY <1>1, <1>2, ConcatProperties
<1>4. \A i \in 1 .. 2 : <<a, b>>[i] = u[i]
  <2>1. u[1] = a /\ u[2] = b
    BY <1>3
  <2> HIDE DEF u
  <2>2. QED
    BY <2>1
<1> HIDE DEF u
<1>5. <<a, b>> = u
  BY <1>1, <1>2, <1>3, <1>4, SeqEqual
<1>6. QED
  BY <1>5 DEF u

LEMMA FourAre ==
    ASSUME NEW a, NEW b, NEW c, NEW d
    PROVE  <<a, b, c, d>> = <<a, b>> \o <<c, d>>
<1> DEFINE S == {a, b, c, d}
<1>1. <<a, b>> \in Seq(S) /\ <<c, d>> \in Seq(S) /\ <<a, b, c, d>> \in Seq(S)
  OBVIOUS
<1>2. Len(<<a, b>>) = 2 /\ Len(<<c, d>>) = 2 /\ Len(<<a, b, c, d>>) = 4
  OBVIOUS
<1> DEFINE u == <<a, b>> \o <<c, d>>
<1>3. /\ u \in Seq(S) /\ Len(u) = 4
      /\ \A i \in 1 .. 4 : u[i] = IF i <= 2 THEN <<a, b>>[i] ELSE <<c, d>>[i - 2]
  BY <1>1, <1>2, ConcatProperties
<1>4. \A i \in 1 .. 4 : <<a, b, c, d>>[i] = u[i]
  <2>1. u[1] = a /\ u[2] = b /\ u[3] = c /\ u[4] = d
    BY <1>3
  <2> HIDE DEF u
  <2>2. QED
    BY <2>1
<1> HIDE DEF u
<1>5. <<a, b, c, d>> = u
  BY <1>1, <1>2, <1>3, <1>4, SeqEqual
<1>6. QED
  BY <1>5 DEF u

LEMMA ReachOfRect ==
    ASSUME NEW se, se.kind = "rect", se.h \in Nat, se.v \in Nat
    PROVE  Reaches(RectLines(se), se.h, se.v)
<1> DEFINE H == IF se.h > 0 THEN <<Line(<<1, 0>>, se.h)>> ELSE <<>>
           V == IF se.v > 0 THEN <<Line(<<0, 1>>, se.v)>> ELSE <<>>
<1>1. Reaches(H, se.h, 0)
  <2>1. CASE se.h > 0
    <3>1. Abs(1) * se.h = se.h /\ Abs(0) * se.h = 0
      BY DEF Abs
    <3>2. /\ IsFilter(Line(<<1, 0>>, se.h))
          /\ ExtentX(Line(<<1, 0>>, se.h)) = se.h /\ ExtentY(Line(<<1, 0>>, se.h)) = 0
      BY <3>1, LineIs
    <3>3. QED
      BY <2>1, <3>2, ReachOfOne
  <2>2. CASE se.h = 0
    BY <2>2, ReachOfNone
  <2>3. QED
    BY <2>1, <2>2
<1>2. Reaches(V, 0, se.v)
  <2>1. CASE se.v > 0
    <3>1. Abs(1) * se.v = se.v /\ Abs(0) * se.v = 0
      BY DEF Abs
    <3>2. /\ IsFilter(Line(<<0, 1>>, se.v))
          /\ ExtentX(Line(<<0, 1>>, se.v)) = 0 /\ ExtentY(Line(<<0, 1>>, se.v)) = se.v
      BY <3>1, LineIs
    <3>3. QED
      BY <2>1, <3>2, ReachOfOne
  <2>2. CASE se.v = 0
    BY <2>2, ReachOfNone
  <2>3. QED
    BY <2>1, <2>2
<1>3. RectLines(se) = H \o V
  BY DEF RectLines
<1> HIDE DEF H, V
<1>4. Reaches(H \o V, se.h + 0, 0 + se.v)
  BY <1>1, <1>2, ReachOfBoth
<1>5. QED
  BY <1>3, <1>4

(* The chain of a line, with what it reaches. *)
LEMMA ReachOfLine ==
    ASSUME NEW a \in Int, NEW b \in Nat, NEW k \in Nat, b > 0 \/ a > 0,
           NEW X, NEW Y, X = Abs(a) * k, Y = Abs(b) * k
    PROVE  Reaches(<<Line(<<a, b>>, k)>>, X, Y)
<1> DEFINE se == Line(<<a, b>>, k)
<1>1. IsFilter(se) /\ ExtentX(se) = X /\ ExtentY(se) = Y
  BY LineIs
<1> HIDE DEF se
<1>2. Reaches(<<se>>, X, Y)
  BY <1>1, ReachOfOne
<1>3. QED
  BY <1>2 DEF se

LEMMA ReachOfDisc ==
    ASSUME NEW se, se.kind = "disc", se.radius \in Nat
    PROVE  Reaches(DiscLines(se), se.radius, se.radius)
<1> DEFINE c == DiscCoefficients(se.radius)
           k == c[1]
           l == c[2]
           m == c[3]
<1>1. k \in Nat /\ l \in Nat /\ m \in Nat /\ k + 2 * l + 6 * m = se.radius
  BY DiscReach
<1> DEFINE A == <<Line(<<1, 0>>, k), Line(<<0, 1>>, k)>>
           B == IF l > 0 THEN <<Line(<<1, 1>>, l), Line(<<-1, 1>>, l)>> ELSE <<>>
           C == IF m > 0 THEN <<Line(<<1, 2>>, m), Line(<<2, 1>>, m), Line(<<-1, 2>>, m), Line(<<-2, 1>>, m)>>
                         ELSE <<>>
<1>2. DiscLines(se) = A \o B \o C
  BY DEF DiscLines
<1> HIDE DEF c, k, l, m
<1>3. Reaches(A, k, k)
  <2>1. Reaches(<<Line(<<1, 0>>, k)>>, k, 0)
    BY <1>1, ReachOfLine DEF Abs
  <2>2. Reaches(<<Line(<<0, 1>>, k)>>, 0, k)
    BY <1>1, ReachOfLine DEF Abs
  <2>3. Reaches(<<Line(<<1, 0>>, k)>> \o <<Line(<<0, 1>>, k)>>, k + 0, 0 + k)
    BY <2>1, <2>2, ReachOfBoth
  <2>4. A = <<Line(<<1, 0>>, k)>> \o <<Line(<<0, 1>>, k)>>
    BY TwoAre
  <2>5. k + 0 = k /\ 0 + k = k
    BY <1>1
  <2> HIDE DEF A
  <2>6. QED
    BY <2>3, <2>4, <2>5
<1>4. Reaches(B, 2 * l, 2 * l)
  <2>1. CASE l > 0
    <3>1. Reaches(<<Line(<<1, 1>>, l)>>, l, l)
      BY <1>1, ReachOfLine DEF Abs
    <3>2. Reaches(<<Line(<<-1, 1>>, l)>>, l, l)
      BY <1>1, ReachOfLine DEF Abs
    <3>3. Reaches(<<Line(<<1, 1>>, l)>> \o <<Line(<<-1, 1>>, l)>>, l + l, l + l)
      BY <3>1, <3>2, ReachOfBoth
    <3>4. l + l = 2 * l
      BY <1>1
    <3>5. QED
      BY <2>1, <3>3, <3>4, TwoAre
  <2>2. CASE l = 0
    BY <2>2, ReachOfNone
  <2>3. QED
    BY <1>1, <2>1, <2>2
<1>5. Reaches(C, 6 * m, 6 * m)
  <2>1. CASE m > 0
    <3>1. Reaches(<<Line(<<1, 2>>, m)>>, m, 2 * m)
      BY <1>1, ReachOfLine DEF Abs
    <3>2. Reaches(<<Line(<<2, 1>>, m)>>, 2 * m, m)
      BY <1>1, ReachOfLine DEF Abs
    <3>3. Reaches(<<Line(<<-1, 2>>, m)>>, m, 2 * m)
      BY <1>1, ReachOfLine DEF Abs
    <3>4. Reaches(<<Line(<<-2, 1>>, m)>>, 2 * m, m)
      BY <1>1, ReachOfLine DEF Abs
    <3>5. Reaches(<<Line(<<1, 2>>, m), Line(<<2, 1>>, m)>>, m + 2 * m, 2 * m + m)
      BY <3>1, <3>2, ReachOfBoth, TwoAre
    <3>6. Reaches(<<Line(<<-1, 2>>, m), Line(<<-2, 1>>, m)>>, m + 2 * m, 2 * m + m)
      BY <3>3, <3>4, ReachOfBoth, TwoAre
    <3> DEFINE D == <<Line(<<1, 2>>, m), Line(<<2, 1>>, m)>>
               E == <<Line(<<-1, 2>>, m), Line(<<-2, 1>>, m)>>
    <3>10. C = D \o E
      <4> DEFINE a == Line(<<1, 2>>, m)
                 b == Line(<<2, 1>>, m)
                 d == Line(<<-1, 2>>, m)
                 e == Line(<<-2, 1>>, m)
      <4>1. C = <<a, b, d, e>> /\ D = <<a, b>> /\ E = <<d, e>>
        BY <2>1
      <4> HIDE DEF C, D, E, a, b, d, e
      <4>2. <<a, b, d, e>> = <<a, b>> \o <<d, e>>
        BY FourAre
      <4>3. QED
        BY <4>1, <4>2
    <3> HIDE DEF C, D, E
    <3>7. Reaches(D \o E, (m + 2 * m) + (m + 2 * m), (2 * m + m) + (2 * m + m))
      BY <3>5, <3>6, ReachOfBoth DEF D, E
    <3>8. (m + 2 * m) + (m + 2 * m) = 6 * m /\ (2 * m + m) + (2 * m + m) = 6 * m
      BY <1>1
    <3>9. QED
      BY <3>7, <3>8, <3>10
  <2>2. CASE m = 0
    BY <2>2, ReachOfNone
  <2>3. QED
    BY <1>1, <2>1, <2>2
<1> HIDE DEF A, B, C
<1>6. Reaches(A \o B, k + 2 * l, k + 2 * l)
  BY <1>3, <1>4, ReachOfBoth
<1>7. Reaches(A \o B \o C, k + 2 * l + 6 * m, k + 2 * l + 6 * m)
  BY <1>5, <1>6, ReachOfBoth
<1>8. QED
  BY <1>1, <1>2, <1>7

(* The chain of any element. *)
LEMMA ReachOfElement ==
    ASSUME NEW se, IsElement(se)
    PROVE  Reaches(Decomposition(se), ExtentX(se), ExtentY(se))
<1>1. CASE se.kind = "rect"
  <2>1. se.h \in Nat /\ se.v \in Nat
    BY <1>1 DEF IsElement
  <2>2. Decomposition(se) = RectLines(se) /\ ExtentX(se) = se.h /\ ExtentY(se) = se.v
    BY <1>1 DEF Decomposition, ExtentX, ExtentY
  <2>3. QED
    BY <1>1, <2>1, <2>2, ReachOfRect
<1>2. CASE se.kind = "disc" /\ ~se.exact
  <2>1. se.radius \in Nat
    BY <1>2 DEF IsElement
  <2>2. Decomposition(se) = DiscLines(se) /\ ExtentX(se) = se.radius /\ ExtentY(se) = se.radius
    BY <1>2 DEF Decomposition, ExtentX, ExtentY
  <2>3. QED
    BY <1>2, <2>1, <2>2, ReachOfDisc
<1>3. CASE se.kind # "rect" /\ ~(se.kind = "disc" /\ ~se.exact)
  <2>1. IsFilter(se)
    BY <1>3 DEF IsElement, IsFilter
  <2>2. Decomposition(se) = <<se>>
    BY <1>3 DEF Decomposition
  <2>3. QED
    BY <2>1, <2>2, ReachOfOne
<1>4. QED
  BY <1>1, <1>2, <1>3

-----------------------------------------------------------------------------
(* traverse_along_direction: as many steps as the region allows. *)
LEMMA CountIs ==
    ASSUME NEW start \in Int, NEW end \in Int, NEW step \in Nat \ {0}
    PROVE  /\ Count(start, end, step) \in Int
           /\ \A i \in Nat : start + i * step < end => i < Count(start, end, step)
<1> DEFINE p == (end - start - 1) \div step
<1>1. end - start - 1 \in Int
  OBVIOUS
<1>2. p \in Int /\ end - start - 1 < step * p + step
  BY <1>1, DivisionBounds
<1>3. Count(start, end, step) = IF start >= end THEN 0 ELSE p + 1
  BY DEF Count
<1> HIDE DEF p
<1>4. ASSUME NEW i \in Nat, start + i * step < end
      PROVE  i < Count(start, end, step)
  <2>1. i * step \in Nat /\ step * p \in Int
    BY <1>2
  <2>2. start < end
    BY <1>4, <2>1
  <2>3. ASSUME p + 1 <= i PROVE FALSE
    <3>1. CASE p + 1 = i
      <4>1. i * step = step * p + step
        BY <1>2, <3>1
      <4>2. QED
        BY <1>2, <1>4, <2>1, <4>1
    <3>2. CASE p + 1 < i
      <4>1. (p + 1) * step < i * step
        BY <1>2, <3>2, ProductsGrow
      <4>2. (p + 1) * step = step * p + step
        BY <1>2
      <4>3. QED
        BY <1>2, <1>4, <2>1, <4>1, <4>2
    <3>3. QED
      BY <1>2, <2>3, <3>1, <3>2
  <2>4. QED
    BY <1>2, <1>3, <2>2, <2>3
<1>5. QED
  BY <1>2, <1>3, <1>4

(* The directions of the lines. *)
IsDown(delta) ==
    /\ delta \in Int \X Int
    /\ delta[2] > 0 \/ (delta[2] = 0 /\ delta[1] > 0)

LEMMA LinesAreLong ==
    ASSUME NEW roi, IsBox(roi), NEW delta, IsDown(delta),
           NEW l \in LinesAlong(roi, delta)
    PROVE  l.n \in Nat /\ l.origin \in Int \X Int
<1> DEFINE dx == delta[1]
           dy == delta[2]
<1>1. dx \in Int /\ dy \in Nat
  BY DEF IsDown
<1>2. roi.x0 \in Int /\ roi.x1 \in Int /\ roi.y0 \in Int /\ roi.y1 \in Int
  BY DEF IsBox
<1> HIDE DEF dx, dy
<1>3. ASSUME NEW x \in Int, dx # 0 PROVE CountX(roi, x, dx) \in Int
  <2>1. CASE dx > 0
    <3>1. CountX(roi, x, dx) = Count(x, roi.x1, dx)
      BY <2>1 DEF CountX
    <3>2. dx \in Nat \ {0}
      BY <1>1, <2>1
    <3>3. QED
      BY <1>2, <3>1, <3>2, CountIs
  <2>2. CASE dx < 0
    <3>1. CountX(roi, x, dx) = Count(roi.x0, x + 1, -dx)
      BY <1>1, <2>2 DEF CountX
    <3>2. -dx \in Nat \ {0} /\ x + 1 \in Int
      BY <1>1, <2>2
    <3>3. QED
      BY <1>2, <3>1, <3>2, CountIs
  <2>3. QED
    BY <1>1, <1>3, <2>1, <2>2
<1>4. CASE l \in TopLines(roi, dx, dy)
  <2> DEFINE n(x, j) == IF dx = 0 THEN Count(roi.y0 + j, roi.y1, dy)
                        ELSE Min({Count(roi.y0 + j, roi.y1, dy), CountX(roi, x, dx)})
  <2>7. TopLines(roi, dx, dy) = {[origin |-> <<x, roi.y0 + j>>, n |-> n(x, j)] :
                                    x \in roi.x0 .. roi.x1 - 1, j \in 0 .. dy - 1}
    BY DEF TopLines
  <2> HIDE DEF n
  <2>1. PICK x \in roi.x0 .. roi.x1 - 1, j \in 0 .. dy - 1 :
            l = [origin |-> <<x, roi.y0 + j>>, n |-> n(x, j)]
    BY <1>4, <2>7
  <2>2. x \in Int /\ j \in Int /\ roi.y0 + j \in Int /\ dy \in Nat \ {0}
    BY <1>1, <1>2
  <2>3. Count(roi.y0 + j, roi.y1, dy) \in Int
    BY <1>2, <2>2, CountIs
  <2>4. dx # 0 => Min({Count(roi.y0 + j, roi.y1, dy), CountX(roi, x, dx)}) \in Int
    BY <1>3, <2>2, <2>3, MinOfTwo
  <2>5. l.n \in Int /\ l.origin = <<x, roi.y0 + j>>
    <3>1. n(x, j) \in Int
      BY <2>3, <2>4 DEF n
    <3>2. QED
      BY <2>1, <3>1
  <2>6. QED
    BY <2>2, <2>5 DEF LinesAlong
<1>5. CASE l \in SideLines(roi, dx, dy)
  <2> DEFINE x(j) == IF dx > 0 THEN roi.x0 + j ELSE roi.x1 - 1 - j
             n(j, y) == IF dy = 0 THEN Count(roi.x0 + j, roi.x1, Abs(dx))
                        ELSE Min({Count(roi.x0 + j, roi.x1, Abs(dx)), Count(y, roi.y1, dy)})
  <2>8. SideLines(roi, dx, dy) = {[origin |-> <<x(j), y>>, n |-> n(j, y)] :
                                     j \in 0 .. Abs(dx) - 1, y \in roi.y0 + dy .. roi.y1 - 1}
    BY DEF SideLines
  <2> HIDE DEF n, x
  <2>1. PICK j \in 0 .. Abs(dx) - 1, y \in roi.y0 + dy .. roi.y1 - 1 :
            l = [origin |-> <<x(j), y>>, n |-> n(j, y)]
    BY <1>5, <2>8
  <2>2. y \in Int /\ j \in Int /\ roi.x0 + j \in Int /\ Abs(dx) \in Nat \ {0} /\ roi.x1 - 1 - j \in Int
    BY <1>1, <1>2 DEF Abs
  <2>3. Count(roi.x0 + j, roi.x1, Abs(dx)) \in Int
    BY <1>2, <2>2, CountIs
  <2>4. dy # 0 => Count(y, roi.y1, dy) \in Int
    BY <1>1, <1>2, <2>2, CountIs
  <2>5. dy # 0 => Min({Count(roi.x0 + j, roi.x1, Abs(dx)), Count(y, roi.y1, dy)}) \in Int
    BY <2>3, <2>4, MinOfTwo
  <2>6. l.n \in Int /\ l.origin \in Int \X Int
    <3>1. n(j, y) \in Int /\ x(j) \in Int
      BY <2>2, <2>3, <2>5 DEF n, x
    <3>2. QED
      BY <2>1, <2>2, <3>1
  <2>7. QED
    BY <2>2, <2>6 DEF LinesAlong
<1>6. QED
  BY <1>4, <1>5 DEF LinesAlong, dx, dy

(* Each point of a region is on a line: the one that starts where, going    *)
(* back, the region is left.                                                *)
LEMMA GoingBack ==
    ASSUME NEW roi, IsBox(roi), NEW delta, IsDown(delta), NEW q \in PointsOf(roi)
    PROVE  \E i \in Nat : /\ Has(roi, Plus(q, delta, -i))
                          /\ ~Has(roi, Plus(q, delta, -(i + 1)))
                          /\ (i < Width(roi) \/ i < Height(roi))
<1> DEFINE dx == delta[1]
           dy == delta[2]
           Out == {i \in Nat : ~Has(roi, Plus(q, delta, -i))}
<1>1. dx \in Int /\ dy \in Nat /\ (dy > 0 \/ dx > 0)
  BY DEF IsDown
<1>2. roi.x0 \in Int /\ roi.x1 \in Int /\ roi.y0 \in Int /\ roi.y1 \in Int
  BY DEF IsBox
<1>3. /\ q[1] \in Int /\ q[2] \in Int /\ roi.x0 <= q[1] /\ q[1] < roi.x1
      /\ roi.y0 <= q[2] /\ q[2] < roi.y1
  BY <1>2 DEF PointsOf
<1>4. \A i \in Int : Has(roi, Plus(q, delta, -i)) <=>
          /\ roi.x0 <= q[1] - i * dx /\ q[1] - i * dx < roi.x1
          /\ roi.y0 <= q[2] - i * dy /\ q[2] - i * dy < roi.y1
  <2> SUFFICES ASSUME NEW i \in Int
               PROVE  Has(roi, Plus(q, delta, -i)) <=>
                          /\ roi.x0 <= q[1] - i * dx /\ q[1] - i * dx < roi.x1
                          /\ roi.y0 <= q[2] - i * dy /\ q[2] - i * dy < roi.y1
    OBVIOUS
  <2>1. Plus(q, delta, -i) = <<q[1] + (-i) * dx, q[2] + (-i) * dy>>
    BY DEF Plus
  <2> HIDE DEF dx, dy
  <2>2. (-i) * dx = -(i * dx) /\ (-i) * dy = -(i * dy) /\ i * dx \in Int /\ i * dy \in Int
    BY <1>1
  <2>3. q[1] + (-i) * dx = q[1] - i * dx /\ q[2] + (-i) * dy = q[2] - i * dy
    BY <1>3, <2>2
  <2>4. QED
    BY <2>1, <2>3 DEF Has
<1> HIDE DEF dx, dy
<1>5. 0 \notin Out
  <2>1. 0 * dx = 0 /\ 0 * dy = 0
    BY <1>1
  <2>2. QED
    BY <1>2, <1>3, <1>4, <2>1
<1>6. ASSUME NEW i \in Nat, i >= Width(roi), i >= Height(roi)
      PROVE  i \in Out
  <2>1. i \in Nat \ {0} /\ i * dx \in Int /\ i * dy \in Int
    BY <1>1, <1>2, <1>3, <1>6 DEF Width
  <2>2. CASE dy > 0
    <3>1. i <= i * dy
      BY <1>1, <2>1, <2>2, ProductsKeep
    <3>2. QED
      BY <1>2, <1>3, <1>4, <1>6, <2>1, <3>1 DEF Height
  <2>3. CASE dx > 0
    <3>1. i <= i * dx
      BY <1>1, <2>1, <2>3, ProductsKeep
    <3>2. QED
      BY <1>2, <1>3, <1>4, <1>6, <2>1, <3>1 DEF Width
  <2>4. QED
    BY <1>1, <2>2, <2>3
<1>7. Out # {}
  <2>1. PICK i \in Nat : i >= Width(roi) /\ i >= Height(roi)
    <3>1. Width(roi) \in Nat /\ Height(roi) \in Nat
      BY DEF IsBox, Width, Height
    <3>2. Width(roi) + Height(roi) \in Nat
      BY <3>1
    <3>3. QED
      BY <3>1, <3>2
  <2>2. QED
    BY <1>6, <2>1
<1>8. PICK m \in Out : \A k \in Out : m <= k
  BY <1>7, LeastElement
<1>9. m \in Nat /\ m # 0 /\ m - 1 \in Nat /\ (m - 1) + 1 = m
  BY <1>5, <1>8
<1>10. m - 1 \notin Out
  BY <1>8, <1>9
<1>11. Has(roi, Plus(q, delta, -(m - 1)))
  BY <1>9, <1>10
<1>12. ~Has(roi, Plus(q, delta, -((m - 1) + 1)))
  <2>1. ~Has(roi, Plus(q, delta, -m))
    BY <1>8
  <2>2. QED
    BY <1>9, <2>1
<1>13. m - 1 < Width(roi) \/ m - 1 < Height(roi)
  <2>1. ~(m - 1 >= Width(roi) /\ m - 1 >= Height(roi))
    BY <1>6, <1>9, <1>10
  <2>2. Width(roi) \in Int /\ Height(roi) \in Int
    BY <1>2 DEF Width, Height
  <2>3. QED
    BY <1>9, <2>1, <2>2
<1>14. QED
  BY <1>9, <1>11, <1>12, <1>13

LEMMA PointIsOnALine ==
    ASSUME NEW roi, IsBox(roi), NEW delta, IsDown(delta), NEW q \in PointsOf(roi)
    PROVE  \E l \in LinesAlong(roi, delta), i \in Nat :
               i < l.n /\ Plus(l.origin, delta, i) = q /\ (i < Width(roi) \/ i < Height(roi))
<1> DEFINE dx == delta[1]
           dy == delta[2]
<1>1. dx \in Int /\ dy \in Nat /\ (dy > 0 \/ dx > 0)
  BY DEF IsDown
<1>2. roi.x0 \in Int /\ roi.x1 \in Int /\ roi.y0 \in Int /\ roi.y1 \in Int
  BY DEF IsBox
<1>3. /\ q = <<q[1], q[2]>> /\ q[1] \in Int /\ q[2] \in Int /\ roi.x0 <= q[1] /\ q[1] < roi.x1
      /\ roi.y0 <= q[2] /\ q[2] < roi.y1
  BY <1>2 DEF PointsOf
<1>4. PICK i \in Nat : /\ Has(roi, Plus(q, delta, -i))
                      /\ ~Has(roi, Plus(q, delta, -(i + 1)))
                      /\ (i < Width(roi) \/ i < Height(roi))
  BY GoingBack
<1> DEFINE a == q[1] - i * dx
           b == q[2] - i * dy
<1> HIDE DEF dx, dy
<1>6. i * dx \in Int /\ i * dy \in Nat
  BY <1>1
<1>7. a \in Int /\ b \in Int /\ a + i * dx = q[1] /\ b + i * dy = q[2]
  <2> DEFINE u == i * dx
             v == i * dy
  <2>1. u \in Int /\ v \in Int
    BY <1>6
  <2> HIDE DEF u, v
  <2>2. q[1] - u \in Int /\ q[2] - v \in Int /\ (q[1] - u) + u = q[1] /\ (q[2] - v) + v = q[2]
    BY <1>3, <2>1
  <2>3. QED
    BY <2>2 DEF u, v
<1>5. Plus(q, delta, -i) = <<a, b>> /\ Plus(q, delta, -(i + 1)) = <<a - dx, b - dy>>
  <2>1. /\ Plus(q, delta, -i) = <<q[1] + (-i) * dx, q[2] + (-i) * dy>>
        /\ Plus(q, delta, -(i + 1)) = <<q[1] + (-(i + 1)) * dx, q[2] + (-(i + 1)) * dy>>
    BY DEF Plus, dx, dy
  <2>2. ASSUME NEW z \in Int
        PROVE  (-i) * z = -(i * z) /\ (-(i + 1)) * z = -(i * z) - z /\ i * z \in Int
    OBVIOUS
  <2>3. ASSUME NEW z \in Int, NEW p \in Int
        PROVE  p + (-i) * z = p - i * z /\ p + (-(i + 1)) * z = (p - i * z) - z
    <3> DEFINE u == i * z
    <3>1. (-i) * z = -u /\ (-(i + 1)) * z = -u - z /\ u \in Int
      BY <2>2
    <3>2. p + (-i) * z = p + (-u) /\ p + (-(i + 1)) * z = p + (-u - z)
      BY <3>1
    <3> HIDE DEF u
    <3>3. p + (-u) = p - u /\ p + (-u - z) = (p - u) - z
      BY <3>1
    <3>4. QED
      BY <3>2, <3>3 DEF u
  <2>4. q[1] + (-i) * dx = a /\ q[1] + (-(i + 1)) * dx = a - dx
    BY <1>1, <1>3, <2>3
  <2>5. q[2] + (-i) * dy = b /\ q[2] + (-(i + 1)) * dy = b - dy
    BY <1>1, <1>3, <2>3
  <2> HIDE DEF a, b
  <2>6. QED
    BY <2>1, <2>4, <2>5
<1> HIDE DEF a, b
<1>8. roi.x0 <= a /\ a < roi.x1 /\ roi.y0 <= b /\ b < roi.y1
  <2>1. Has(roi, <<a, b>>)
    BY <1>4, <1>5, Zenon
  <2>2. QED
    BY <2>1 DEF Has
<1>9. ~(roi.x0 <= a - dx /\ a - dx < roi.x1 /\ roi.y0 <= b - dy /\ b - dy < roi.y1)
  <2>1. ~Has(roi, <<a - dx, b - dy>>)
    BY <1>4, <1>5, Zenon
  <2>2. QED
    BY <2>1 DEF Has
<1>10. Plus(<<a, b>>, delta, i) = q
  BY <1>3, <1>7 DEF Plus, dx, dy
<1>11. ASSUME NEW l, l \in TopLines(roi, dx, dy) \cup SideLines(roi, dx, dy),
              l.origin = <<a, b>>, l.n \in Int, i < l.n
       PROVE  \E k \in LinesAlong(roi, delta), j \in Nat :
                  j < k.n /\ Plus(k.origin, delta, j) = q /\ (j < Width(roi) \/ j < Height(roi))
  <2>1. l.n > 0
    BY <1>11
  <2>2. l \in LinesAlong(roi, delta)
    BY <1>11, <2>1 DEF LinesAlong, dx, dy
  <2>3. QED
    BY <1>4, <1>10, <1>11, <2>2
<1>12. dy > 0 => /\ Count(b, roi.y1, dy) \in Int
                 /\ i < Count(b, roi.y1, dy)
  <2> SUFFICES ASSUME dy > 0
               PROVE  Count(b, roi.y1, dy) \in Int /\ i < Count(b, roi.y1, dy)
    OBVIOUS
  <2>1. dy \in Nat \ {0} /\ b + i * dy < roi.y1
    BY <1>1, <1>3, <1>7
  <2>2. QED
    BY <1>2, <1>7, <2>1, CountIs
<1>13. CASE b - dy < roi.y0
  <2> DEFINE n(x, j) == IF dx = 0 THEN Count(roi.y0 + j, roi.y1, dy)
                        ELSE Min({Count(roi.y0 + j, roi.y1, dy), CountX(roi, x, dx)})
  <2>1. TopLines(roi, dx, dy) = {[origin |-> <<x, roi.y0 + j>>, n |-> n(x, j)] :
                                    x \in roi.x0 .. roi.x1 - 1, j \in 0 .. dy - 1}
    BY DEF TopLines
  <2>2. a \in roi.x0 .. roi.x1 - 1 /\ b - roi.y0 \in 0 .. dy - 1 /\ roi.y0 + (b - roi.y0) = b /\ dy > 0
    BY <1>1, <1>2, <1>7, <1>8, <1>13
  <2>3. n(a, b - roi.y0) \in Int /\ i < n(a, b - roi.y0)
    <3>1. CASE dx = 0
      BY <1>12, <2>2, <3>1
    <3>2. CASE dx # 0
      <4>1. CountX(roi, a, dx) \in Int /\ i < CountX(roi, a, dx)
        <5>1. CASE dx > 0
          <6>1. dx \in Nat \ {0} /\ a + i * dx < roi.x1
            BY <1>1, <1>3, <1>7, <5>1
          <6>2. CountX(roi, a, dx) = Count(a, roi.x1, dx)
            BY <5>1 DEF CountX
          <6>3. QED
            BY <1>2, <1>7, <6>1, <6>2, CountIs
        <5>2. CASE dx < 0
          <6>1. -dx \in Nat \ {0} /\ i * (-dx) = -(i * dx)
            BY <1>1, <5>2
          <6>2. roi.x0 + i * (-dx) < a + 1 /\ a + 1 \in Int
            BY <1>2, <1>3, <1>6, <1>7, <6>1
          <6>3. CountX(roi, a, dx) = Count(roi.x0, a + 1, -dx)
            BY <1>1, <5>2 DEF CountX
          <6>4. QED
            BY <1>2, <6>1, <6>2, <6>3, CountIs
        <5>3. QED
          BY <1>1, <3>2, <5>1, <5>2
      <4>2. QED
        BY <1>12, <2>2, <3>2, <4>1, MinOfTwo
    <3>3. QED
      BY <3>1, <3>2
  <2> HIDE DEF n
  <2> DEFINE l == [origin |-> <<a, b>>, n |-> n(a, b - roi.y0)]
  <2>4. l \in TopLines(roi, dx, dy)
    BY <2>1, <2>2
  <2>5. l.origin = <<a, b>> /\ l.n = n(a, b - roi.y0)
    OBVIOUS
  <2> HIDE DEF l
  <2>6. QED
    BY <1>11, <2>3, <2>4, <2>5
<1>14. CASE ~(b - dy < roi.y0)
  <2> DEFINE x(j) == IF dx > 0 THEN roi.x0 + j ELSE roi.x1 - 1 - j
             n(j, y) == IF dy = 0 THEN Count(roi.x0 + j, roi.x1, Abs(dx))
                        ELSE Min({Count(roi.x0 + j, roi.x1, Abs(dx)), Count(y, roi.y1, dy)})
             c == IF dx > 0 THEN a - roi.x0 ELSE roi.x1 - 1 - a
  <2>1. SideLines(roi, dx, dy) = {[origin |-> <<x(j), y>>, n |-> n(j, y)] :
                                     j \in 0 .. Abs(dx) - 1, y \in roi.y0 + dy .. roi.y1 - 1}
    BY DEF SideLines
  <2>2. dx # 0 /\ (IF dx > 0 THEN a - dx < roi.x0 ELSE a - dx >= roi.x1)
    BY <1>1, <1>2, <1>7, <1>8, <1>9, <1>14
  <2>3. c \in 0 .. Abs(dx) - 1 /\ x(c) = a /\ b \in roi.y0 + dy .. roi.y1 - 1 /\ Abs(dx) \in Nat \ {0}
    BY <1>1, <1>2, <1>7, <1>8, <1>14, <2>2 DEF Abs
  <2>4. Count(roi.x0 + c, roi.x1, Abs(dx)) \in Int /\ i < Count(roi.x0 + c, roi.x1, Abs(dx))
    <3>1. CASE dx > 0
      <4>1. Abs(dx) = dx /\ roi.x0 + c = a
        BY <1>1, <1>2, <1>7, <3>1 DEF Abs
      <4>2. a + i * dx < roi.x1
        BY <1>3, <1>7
      <4> HIDE DEF c
      <4>3. QED
        BY <1>2, <1>7, <2>3, <4>1, <4>2, CountIs
    <3>2. CASE ~(dx > 0)
      <4>1. Abs(dx) = -dx /\ i * (-dx) = -(i * dx) /\ roi.x0 + c \in Int
        BY <1>1, <1>2, <1>7, <2>2, <3>2 DEF Abs
      <4>2. roi.x0 + c + i * (-dx) < roi.x1
        BY <1>2, <1>3, <1>6, <1>7, <3>2, <4>1
      <4> HIDE DEF c
      <4>3. roi.x0 + c + i * Abs(dx) < roi.x1
        BY <4>1, <4>2
      <4>4. QED
        BY <1>2, <2>3, <4>1, <4>3, CountIs
    <3>3. QED
      BY <3>1, <3>2
  <2> HIDE DEF c
  <2>5. n(c, b) \in Int /\ i < n(c, b)
    <3>1. CASE dy = 0
      BY <2>4, <3>1
    <3>2. CASE dy # 0
      <4>1. dy > 0
        BY <1>1, <3>2
      <4>2. QED
        BY <1>12, <2>4, <3>2, <4>1, MinOfTwo
    <3>3. QED
      BY <3>1, <3>2
  <2> HIDE DEF n
  <2> HIDE DEF x
  <2> DEFINE l == [origin |-> <<x(c), b>>, n |-> n(c, b)]
  <2>6. l \in SideLines(roi, dx, dy)
    <3>1. \A j \in 0 .. Abs(dx) - 1, y \in roi.y0 + dy .. roi.y1 - 1 :
             [origin |-> <<x(j), y>>, n |-> n(j, y)] \in SideLines(roi, dx, dy)
      BY <2>1
    <3>2. QED
      BY <2>3, <3>1
  <2>7. l.origin = <<a, b>> /\ l.n = n(c, b)
    BY <2>3
  <2> HIDE DEF l
  <2>8. QED
    BY <1>11, <2>5, <2>6, <2>7
<1>15. QED
  BY <1>13, <1>14

LEMMA PlusOnALine ==
    ASSUME NEW o \in Int \X Int, NEW d \in Int \X Int, NEW x \in Int, NEW z \in Int
    PROVE  Plus(o, d, z) = Plus(Plus(o, d, x), <<(z - x) * d[1], (z - x) * d[2]>>, 1)
<1>1. ASSUME NEW a \in Int, NEW b \in Int
      PROVE  a + z * b = (a + x * b) + 1 * ((z - x) * b)
  <2>1. (z - x) * b = z * b - x * b
    OBVIOUS
  <2> DEFINE u == z * b
             v == x * b
  <2>2. u \in Int /\ v \in Int /\ (z - x) * b = u - v
    BY <2>1
  <2> HIDE DEF u, v
  <2>3. a + u = (a + v) + 1 * (u - v)
    BY <2>2
  <2>4. QED
    BY <2>2, <2>3 DEF u, v
<1>2. o[1] \in Int /\ o[2] \in Int /\ d[1] \in Int /\ d[2] \in Int
  OBVIOUS
<1>3. /\ o[1] + z * d[1] = (o[1] + x * d[1]) + 1 * ((z - x) * d[1])
      /\ o[2] + z * d[2] = (o[2] + x * d[2]) + 1 * ((z - x) * d[2])
  BY <1>1, <1>2
<1>4. QED
  BY <1>3 DEF Plus

(***************************************************************************)
(* The running maximum of a value is the supremum of its whole window and  *)
(* of nothing else: the suffix of the chunk of the first value and the     *)
(* prefix of the chunk of the last one meet, be they in one chunk, in two  *)
(* or in the last one, which is cut (block_running_max).                   *)
(***************************************************************************)
THEOREM RunningMaxIsWindow ==
    ASSUME NEW k \in Nat, NEW n \in Nat, NEW x \in 0 .. n - 1, NEW f
    PROVE  RunningMax(f, x, n, k) = UNION {f[z] : z \in x - k .. x + k}
<1> DEFINE w == Alpha(k)
           p == x \div w
           q == (x + 2 * k) \div w
<1>1. w \in Nat \ {0} /\ w = 2 * k + 1
  BY DEF Alpha
<1>2. p \in Int /\ w * p <= x /\ x < w * p + w
  <2>1. x \in Int
    OBVIOUS
  <2> HIDE DEF w
  <2>2. QED
    BY <1>1, <2>1, DivisionBounds
<1>3. q \in Int /\ w * q <= x + 2 * k /\ x + 2 * k < w * q + w
  <2>1. x + 2 * k \in Int
    OBVIOUS
  <2> HIDE DEF w
  <2>2. QED
    BY <1>1, <2>1, DivisionBounds
<1> HIDE DEF w, p, q
<1>4. w * p \in Int /\ w * q \in Int
  BY <1>1, <1>2, <1>3
<1>5. w * q <= w * p + w
  <2>1. ASSUME p + 1 < q PROVE FALSE
    <3>1. (p + 1) * w < q * w
      BY <1>1, <1>2, <1>3, <2>1, ProductsGrow
    <3>2. (p + 1) * w = w * p + w /\ q * w = w * q
      BY <1>1, <1>2, <1>3
    <3>3. ASSUME p + 2 < q PROVE FALSE
      <4>1. (p + 2) * w < q * w
        BY <1>1, <1>2, <1>3, <3>3, ProductsGrow
      <4>2. (p + 2) * w = w * p + 2 * w
        BY <1>1, <1>2
      <4>3. QED
        BY <1>1, <1>2, <1>3, <1>4, <3>2, <4>1, <4>2
    <3>4. q = p + 2
      BY <1>2, <1>3, <2>1, <3>3
    <3>5. w * q = w * p + 2 * w
      BY <1>1, <1>2, <3>4
    <3>6. QED
      BY <1>1, <1>2, <1>3, <1>4, <3>5
  <2>2. q <= p + 1
    BY <1>2, <1>3, <2>1
  <2>3. CASE q = p + 1
    BY <1>1, <1>2, <2>3
  <2>4. CASE q < p + 1
    <3>1. q * w < (p + 1) * w
      BY <1>1, <1>2, <1>3, <2>4, ProductsGrow
    <3>2. (p + 1) * w = w * p + w /\ q * w = w * q
      BY <1>1, <1>2, <1>3
    <3>3. QED
      BY <1>1, <1>4, <3>1, <3>2
  <2>5. QED
    BY <1>2, <1>3, <2>2, <2>3, <2>4
<1>6. ChunkStart(x + k, k) = w * q - k
  <2>1. (x + k) + k = x + 2 * k
    OBVIOUS
  <2>2. QED
    BY <2>1 DEF ChunkStart, w, q
<1>7. ChunkStart(x - k, k) = w * p - k
  <2>1. (x - k) + k = x
    OBVIOUS
  <2>2. QED
    BY <2>1 DEF ChunkStart, w, p
<1> DEFINE last == ChunkEnd(x - k, n, k)
<1>8. last = (IF w * p - k + w <= n + k THEN w * p - k + w ELSE n + k) - 1
  <2>1. w * p - k + w \in Int /\ n + k \in Int
    BY <1>1, <1>4
  <2>2. Min({w * p - k + w, n + k}) = IF w * p - k + w <= n + k THEN w * p - k + w ELSE n + k
    BY <2>1, MinOfTwo
  <2>3. QED
    BY <1>7, <2>2 DEF ChunkEnd, w, last
<1> HIDE DEF last
<1>9. /\ last \in Int
      /\ last <= x + k
      /\ w * q - k >= x - k
      /\ w * q - k <= last + 1
  BY <1>1, <1>2, <1>3, <1>4, <1>5, <1>8
<1>10. RunningMax(f, x, n, k)
         = (UNION {f[z] : z \in x - k .. last}) \cup (UNION {f[z] : z \in w * q - k .. x + k})
  BY <1>6 DEF RunningMax, last
<1>11. x - k .. x + k = (x - k .. last) \cup (w * q - k .. x + k)
  BY <1>1, <1>4, <1>9
<1> DEFINE S == x - k .. last
           T == w * q - k .. x + k
<1>12. UNION {f[z] : z \in S \cup T} = (UNION {f[z] : z \in S}) \cup (UNION {f[z] : z \in T})
  OBVIOUS
<1>13. QED
  BY <1>10, <1>11, <1>12

(* A line gives the supremum of its whole window (block_running_max along   *)
(* the lines of the region).                                                *)
LEMMA LineFilterIs ==
    ASSUME NEW se, IsFilter(se), se.kind = "line", NEW in, NEW roi, IsBox(roi),
           NEW q \in PointsOf(roi)
    PROVE  DilatedByLine(se, in, roi)[q] = UNION {in[Plus(q, e, 1)] : e \in LineOffsets(se)}
<1> DEFINE d == se.delta
           k == se.k
           L == LinesAlong(roi, d)
           M == 0 .. Max({Width(roi), Height(roi)})
           on(r) == {at \in L \X M : at[2] < at[1].n /\ Plus(at[1].origin, d, at[2]) = r}
           value(at) == [i \in -k .. at[1].n + k - 1 |-> in[Plus(at[1].origin, d, i)]]
           max(at) == RunningMax(value(at), at[2], at[1].n, k)
           W == {in[Plus(q, e, 1)] : e \in LineOffsets(se)}
<1>1. IsDown(d) /\ k \in Nat /\ d \in Int \X Int
  BY DEF IsFilter, IsDown
<1>2. DilatedByLine(se, in, roi) = [r \in PointsOf(roi) |-> UNION {max(at) : at \in on(r)}]
  BY DEF DilatedByLine
<1>3. LineOffsets(se) = {<<i * d[1], i * d[2]>> : i \in -k .. k}
  BY DEF LineOffsets
<1> HIDE DEF d, k, L, M, on, max
<1>4. ASSUME NEW at \in on(q) PROVE max(at) = UNION W
  <2> DEFINE o == at[1].origin
             n == at[1].n
             x == at[2]
  <2>1. at[1] \in L /\ x \in M /\ x < n /\ Plus(o, d, x) = q
    BY DEF on
  <2>2. n \in Nat /\ o \in Int \X Int
    BY <1>1, <2>1, LinesAreLong DEF L
  <2>3. x \in 0 .. n - 1
    BY <2>1, <2>2 DEF M
  <2> HIDE DEF o, n, x, value
  <2>4. max(at) = UNION {value(at)[z] : z \in x - k .. x + k}
    <3>1. max(at) = RunningMax(value(at), x, n, k)
      BY DEF max, x, n
    <3>2. QED
      BY <1>1, <2>2, <2>3, <3>1, RunningMaxIsWindow
  <2>5. \A z \in x - k .. x + k : value(at)[z] = in[Plus(o, d, z)]
    <3>1. value(at) = [i \in -k .. n + k - 1 |-> in[Plus(o, d, i)]]
      BY DEF value, o, n
    <3>2. \A z \in x - k .. x + k : z \in -k .. n + k - 1
      BY <1>1, <2>2, <2>3
    <3>3. QED
      BY <3>1, <3>2
  <2>6. \A z \in Int : Plus(o, d, z) = Plus(q, <<(z - x) * d[1], (z - x) * d[2]>>, 1)
    <3>1. x \in Int
      BY <2>3
    <3>2. QED
      BY <1>1, <2>1, <2>2, <3>1, PlusOnALine
  <2>7. \A z \in x - k .. x + k : value(at)[z] \in W
    <3> SUFFICES ASSUME NEW z \in x - k .. x + k PROVE value(at)[z] \in W
      OBVIOUS
    <3>1. z \in Int /\ z - x \in -k .. k
      BY <1>1, <2>3
    <3>2. <<(z - x) * d[1], (z - x) * d[2]>> \in LineOffsets(se)
      BY <1>3, <3>1
    <3>3. QED
      BY <2>5, <2>6, <3>1, <3>2
  <2>8. ASSUME NEW e \in LineOffsets(se)
        PROVE  \E z \in x - k .. x + k : value(at)[z] = in[Plus(q, e, 1)]
    <3>1. PICK i \in -k .. k : e = <<i * d[1], i * d[2]>>
      BY <1>3
    <3> DEFINE z == x + i
    <3>2. z \in x - k .. x + k /\ z \in Int /\ z - x = i
      BY <1>1, <2>3
    <3> HIDE DEF z
    <3>3. value(at)[z] = in[Plus(q, e, 1)]
      BY <2>5, <2>6, <3>1, <3>2
    <3>4. QED
      BY <3>2, <3>3
  <2>9. {value(at)[z] : z \in x - k .. x + k} = W
    BY <2>7, <2>8
  <2>10. QED
    BY <2>4, <2>9
<1>5. on(q) # {}
  <2>1. PICK l \in L, i \in Nat :
            i < l.n /\ Plus(l.origin, d, i) = q /\ (i < Width(roi) \/ i < Height(roi))
    BY <1>1, PointIsOnALine DEF L
  <2>2. i \in M
    <3>1. Width(roi) \in Int /\ Height(roi) \in Int
      BY DEF IsBox, Width, Height
    <3>2. QED
      BY <2>1, <3>1, MaxOfTwo DEF M
  <2>3. <<l, i>> \in on(q)
    BY <2>1, <2>2 DEF on
  <2>4. QED
    BY <2>3
<1>6. {max(at) : at \in on(q)} = {UNION W}
  BY <1>4, <1>5
<1>7. UNION {max(at) : at \in on(q)} = UNION W
  BY <1>6
<1>8. QED
  BY <1>2, <1>7

(* A disc gives the supremum of its whole window: what is taken and what is *)
(* left from one pixel of the row to the next make up the window of the     *)
(* latter (LocalAccumulation).                                              *)
Around(x, y, offsets) == {Plus(<<x, y>>, d, 1) : d \in offsets}

LEMMA WindowMoves ==
    ASSUME NEW se, se.radius \in Nat, NEW x \in Int, NEW y \in Int
    PROVE  /\ Around(x, y, DecOffsets(se)) \subseteq Around(x - 1, y, DiscOffsets(se))
           /\ (Around(x - 1, y, DiscOffsets(se)) \ Around(x, y, DecOffsets(se)))
                 \cup Around(x, y, IncOffsets(se)) = Around(x, y, DiscOffsets(se))
<1> DEFINE D == DiscOffsets(se)
<1>1. \A d \in D : d = <<d[1], d[2]>> /\ d[1] \in Int /\ d[2] \in Int
  BY DEF DiscOffsets
<1>2. /\ IncOffsets(se) = {d \in D : <<d[1] + 1, d[2]>> \notin D}
      /\ DecOffsets(se) = {<<d[1] - 1, d[2]>> : d \in {e \in D : <<e[1] - 1, e[2]>> \notin D}}
  BY DEF IncOffsets, DecOffsets
<1> HIDE DEF D
<1>3. \A d \in Int \X Int : \A z \in Int : Plus(<<z, y>>, d, 1) = <<z + d[1], y + d[2]>>
  BY DEF Plus
<1>4. ASSUME NEW z \in Int
      PROVE  \A p : p \in Around(z, y, D) <=> /\ p = <<p[1], p[2]>> /\ p[1] \in Int /\ p[2] \in Int
                                              /\ <<p[1] - z, p[2] - y>> \in D
  <2>1. ASSUME NEW p \in Around(z, y, D)
        PROVE  /\ p = <<p[1], p[2]>> /\ p[1] \in Int /\ p[2] \in Int
               /\ <<p[1] - z, p[2] - y>> \in D
    <3>1. PICK d \in D : p = Plus(<<z, y>>, d, 1)
      BY DEF Around
    <3>2. d = <<d[1], d[2]>> /\ d[1] \in Int /\ d[2] \in Int
      BY <1>1
    <3>3. p = <<z + d[1], y + d[2]>>
      BY <1>3, <3>1, <3>2
    <3>4. p[1] - z = d[1] /\ p[2] - y = d[2] /\ p[1] \in Int /\ p[2] \in Int /\ p = <<p[1], p[2]>>
      BY <3>2, <3>3
    <3>5. QED
      BY <3>2, <3>4
  <2>2. ASSUME NEW p, p = <<p[1], p[2]>>, p[1] \in Int, p[2] \in Int, <<p[1] - z, p[2] - y>> \in D
        PROVE  p \in Around(z, y, D)
    <3> DEFINE d == <<p[1] - z, p[2] - y>>
    <3>1. Plus(<<z, y>>, d, 1) = p
      BY <2>2 DEF Plus
    <3>2. QED
      BY <2>2, <3>1 DEF Around
  <2>3. QED
    BY <2>1, <2>2
<1>5. \A p : p \in Around(x, y, IncOffsets(se)) <=>
                 p \in Around(x, y, D) /\ p \notin Around(x - 1, y, D)
  <2>1. ASSUME NEW p \in Around(x, y, IncOffsets(se))
        PROVE  p \in Around(x, y, D) /\ p \notin Around(x - 1, y, D)
    <3>1. PICK d \in D : p = Plus(<<x, y>>, d, 1) /\ <<d[1] + 1, d[2]>> \notin D
      BY <1>2 DEF Around
    <3>2. d = <<d[1], d[2]>> /\ d[1] \in Int /\ d[2] \in Int
      BY <1>1
    <3>3. p = <<x + d[1], y + d[2]>>
      BY <1>3, <3>1, <3>2
    <3>4. p[1] - (x - 1) = d[1] + 1 /\ p[2] - y = d[2]
      BY <3>2, <3>3
    <3>5. p \in Around(x, y, D)
      BY <3>1 DEF Around
    <3>6. p \notin Around(x - 1, y, D)
      BY <1>4, <3>1, <3>4
    <3>7. QED
      BY <3>5, <3>6
  <2>2. ASSUME NEW p \in Around(x, y, D), p \notin Around(x - 1, y, D)
        PROVE  p \in Around(x, y, IncOffsets(se))
    <3>1. PICK d \in D : p = Plus(<<x, y>>, d, 1)
      BY DEF Around
    <3>2. d = <<d[1], d[2]>> /\ d[1] \in Int /\ d[2] \in Int
      BY <1>1
    <3>3. p = <<x + d[1], y + d[2]>>
      BY <1>3, <3>1, <3>2
    <3>4. p[1] - (x - 1) = d[1] + 1 /\ p[2] - y = d[2] /\ p = <<p[1], p[2]>> /\ p[1] \in Int /\ p[2] \in Int
      BY <3>2, <3>3
    <3>5. <<d[1] + 1, d[2]>> \notin D
      BY <1>4, <2>2, <3>4
    <3>6. d \in IncOffsets(se)
      BY <1>2, <3>5
    <3>7. QED
      BY <3>1, <3>6 DEF Around
  <2>3. QED
    BY <2>1, <2>2
<1>6. \A p : p \in Around(x, y, DecOffsets(se)) <=>
                 p \in Around(x - 1, y, D) /\ p \notin Around(x, y, D)
  <2>1. ASSUME NEW p \in Around(x, y, DecOffsets(se))
        PROVE  p \in Around(x - 1, y, D) /\ p \notin Around(x, y, D)
    <3>1. PICK d \in D : p = Plus(<<x, y>>, <<d[1] - 1, d[2]>>, 1) /\ <<d[1] - 1, d[2]>> \notin D
      BY <1>2 DEF Around
    <3>2. d = <<d[1], d[2]>> /\ d[1] \in Int /\ d[2] \in Int
      BY <1>1
    <3>3. p = <<x + (d[1] - 1), y + d[2]>>
      BY <3>1, <3>2 DEF Plus
    <3>4. /\ p[1] - (x - 1) = d[1] /\ p[1] - x = d[1] - 1 /\ p[2] - y = d[2]
          /\ p = <<p[1], p[2]>> /\ p[1] \in Int /\ p[2] \in Int
      BY <3>2, <3>3
    <3>5. p \in Around(x - 1, y, D)
      BY <1>4, <3>2, <3>4
    <3>6. p \notin Around(x, y, D)
      BY <1>4, <3>1, <3>4
    <3>7. QED
      BY <3>5, <3>6
  <2>2. ASSUME NEW p \in Around(x - 1, y, D), p \notin Around(x, y, D)
        PROVE  p \in Around(x, y, DecOffsets(se))
    <3>1. PICK d \in D : p = Plus(<<x - 1, y>>, d, 1)
      BY DEF Around
    <3>2. d = <<d[1], d[2]>> /\ d[1] \in Int /\ d[2] \in Int
      BY <1>1
    <3>3. p = <<(x - 1) + d[1], y + d[2]>>
      BY <1>3, <3>1, <3>2
    <3>4. p[1] - x = d[1] - 1 /\ p[2] - y = d[2] /\ p = <<p[1], p[2]>> /\ p[1] \in Int /\ p[2] \in Int
      BY <3>2, <3>3
    <3>5. <<d[1] - 1, d[2]>> \notin D
      BY <1>4, <2>2, <3>4
    <3>6. <<d[1] - 1, d[2]>> \in DecOffsets(se)
      BY <1>2, <3>5
    <3>7. p = Plus(<<x, y>>, <<d[1] - 1, d[2]>>, 1)
      BY <3>2, <3>3 DEF Plus
    <3>8. QED
      BY <3>6, <3>7 DEF Around
  <2>3. QED
    BY <2>1, <2>2
<1>7. QED
  BY <1>5, <1>6 DEF D

AreWindows(upTo, se, x0, x1, y) ==
    upTo = [x \in x0 .. x1 |->
               IF x = x0 THEN Around(x, y, DiscOffsets(se))
               ELSE UNION {IF Around(x, y, DecOffsets(se)) \subseteq previous
                           THEN (previous \ Around(x, y, DecOffsets(se)))
                                \cup Around(x, y, IncOffsets(se))
                           ELSE {} : previous \in {upTo[x - 1]}}]

LEMMA WindowIs ==
    ASSUME NEW se, se.radius \in Nat, NEW x0 \in Int, NEW x1 \in Int, x0 <= x1, NEW y \in Int,
           NEW upTo, AreWindows(upTo, se, x0, x1, y)
    PROVE  upTo[x1] = Around(x1, y, DiscOffsets(se))
<1> DEFINE D(x) == Around(x, y, DiscOffsets(se))
           In(x) == Around(x, y, IncOffsets(se))
           Out(x) == Around(x, y, DecOffsets(se))
           T == {i \in Nat : x0 + i <= x1 => upTo[x0 + i] = D(x0 + i)}
<1>1. \A x \in Int : Out(x) \subseteq D(x - 1) /\ (D(x - 1) \ Out(x)) \cup In(x) = D(x)
  BY WindowMoves
<1>2. \A x \in x0 .. x1 :
          upTo[x] = IF x = x0 THEN D(x)
                    ELSE UNION {IF Out(x) \subseteq previous THEN (previous \ Out(x)) \cup In(x) ELSE {} :
                                   previous \in {upTo[x - 1]}}
  BY Zenon DEF AreWindows
<1> HIDE DEF D, In, Out
<1>3. 0 \in T
  <2>1. x0 \in x0 .. x1 /\ x0 + 0 = x0
    OBVIOUS
  <2>2. upTo[x0] = D(x0)
    BY <1>2, <2>1
  <2>3. QED
    BY <2>1, <2>2
<1>4. ASSUME NEW i \in T PROVE i + 1 \in T
  <2>1. i \in Nat /\ (x0 + i <= x1 => upTo[x0 + i] = D(x0 + i))
    OBVIOUS
  <2>2. CASE x0 + (i + 1) <= x1
    <3> DEFINE x == x0 + (i + 1)
    <3>1. x \in x0 .. x1 /\ x # x0 /\ x - 1 = x0 + i /\ x0 + i <= x1 /\ x \in Int
      BY <2>1, <2>2
    <3> HIDE DEF x
    <3>2. upTo[x - 1] = D(x - 1)
      BY <2>1, <3>1
    <3>3. upTo[x] = UNION {IF Out(x) \subseteq previous THEN (previous \ Out(x)) \cup In(x) ELSE {} :
                              previous \in {D(x - 1)}}
      BY <1>2, <3>1, <3>2
    <3>4. upTo[x] = (D(x - 1) \ Out(x)) \cup In(x)
      BY <1>1, <3>1, <3>3
    <3>5. upTo[x] = D(x)
      BY <1>1, <3>1, <3>4
    <3>6. QED
      BY <2>1, <3>5 DEF x
  <2>3. CASE ~(x0 + (i + 1) <= x1)
    BY <2>1, <2>3
  <2>4. QED
    BY <2>2, <2>3
<1> HIDE DEF T
<1>5. T = Nat
  BY <1>3, <1>4, SetOfAllNaturals DEF T
<1>6. x1 - x0 \in T
  BY <1>5
<1>7. x0 + (x1 - x0) = x1
  OBVIOUS
<1>8. QED
  BY <1>6, <1>7 DEF T, D

LEMMA DiscFilterIs ==
    ASSUME NEW se, se.radius \in Nat, NEW in, NEW roi, IsBox(roi), NEW q \in PointsOf(roi)
    PROVE  DilatedByDisc(se, in, roi)[q] = UNION {in[Plus(q, e, 1)] : e \in DiscOffsets(se)}
<1> DEFINE Body(u, x) ==
               IF x = roi.x0 THEN Around(x, q[2], DiscOffsets(se))
               ELSE UNION {IF Around(x, q[2], DecOffsets(se)) \subseteq previous
                           THEN (previous \ Around(x, q[2], DecOffsets(se)))
                                \cup Around(x, q[2], IncOffsets(se))
                           ELSE {} : previous \in {u[x - 1]}}
           Is(u) == u = [x \in roi.x0 .. q[1] |-> Body(u, x)]
           upTo == CHOOSE u : Is(u)
<1>1. /\ q = <<q[1], q[2]>> /\ q[1] \in Int /\ q[2] \in Int /\ roi.x0 \in Int /\ roi.x0 <= q[1]
  BY DEF PointsOf, IsBox
<1>2. \E u : Is(u)
  <2> DEFINE v == [x \in roi.x0 .. q[1] |-> Around(x, q[2], DiscOffsets(se))]
  <2>1. ASSUME NEW x \in roi.x0 .. q[1] PROVE v[x] = Body(v, x)
    <3>1. CASE x = roi.x0
      BY <3>1
    <3>2. CASE x # roi.x0
      <4>1. x \in Int /\ x - 1 \in roi.x0 .. q[1]
        BY <1>1, <3>2
      <4>2. v[x - 1] = Around(x - 1, q[2], DiscOffsets(se))
        BY <4>1
      <4>3. /\ Around(x, q[2], DecOffsets(se)) \subseteq v[x - 1]
            /\ (v[x - 1] \ Around(x, q[2], DecOffsets(se)))
                  \cup Around(x, q[2], IncOffsets(se)) = v[x]
        BY <1>1, <4>1, <4>2, WindowMoves
      <4> HIDE DEF v
      <4>4. QED
        BY <3>2, <4>3
    <3>3. QED
      BY <3>1, <3>2
  <2>2. v = [x \in roi.x0 .. q[1] |-> v[x]]
    OBVIOUS
  <2> HIDE DEF v, Body
  <2>3. Is(v)
    BY <2>1, <2>2
  <2> HIDE DEF Is
  <2>4. QED
    BY <2>3
<1> HIDE DEF Is, Body
<1>3. Is(upTo)
  BY <1>2
<1>4. DilatedByDisc(se, in, roi)[q] = UNION {in[r] : r \in upTo[q[1]]}
  BY DEF DilatedByDisc, Is, Body, Around
<1> HIDE DEF upTo
<1>5. upTo[q[1]] = Around(q[1], q[2], DiscOffsets(se))
  <2>1. AreWindows(upTo, se, roi.x0, q[1], q[2])
    BY <1>3, Zenon DEF Is, Body, AreWindows
  <2>2. QED
    BY <1>1, <2>1, WindowIs
<1>6. Around(q[1], q[2], DiscOffsets(se)) = {Plus(q, e, 1) : e \in DiscOffsets(se)}
  BY <1>1 DEF Around
<1>7. QED
  BY <1>4, <1>5, <1>6

(* What a filter takes into account around a pixel. *)
OffsetsOf(se) == IF se.kind = "line" THEN LineOffsets(se) ELSE DiscOffsets(se)

LEMMA FilterIs ==
    ASSUME NEW se, IsFilter(se), NEW in, NEW roi, IsBox(roi)
    PROVE  /\ DOMAIN Filtered(se, in, roi) = PointsOf(roi)
           /\ \A q \in PointsOf(roi) :
                 Filtered(se, in, roi)[q] = UNION {in[Plus(q, e, 1)] : e \in OffsetsOf(se)}
<1>1. CASE se.kind = "line"
  <2>1. Filtered(se, in, roi) = DilatedByLine(se, in, roi) /\ OffsetsOf(se) = LineOffsets(se)
    BY <1>1 DEF Filtered, OffsetsOf
  <2>2. DOMAIN DilatedByLine(se, in, roi) = PointsOf(roi)
    BY DEF DilatedByLine
  <2>3. QED
    BY <1>1, <2>1, <2>2, LineFilterIs
<1>2. CASE se.kind # "line"
  <2>1. Filtered(se, in, roi) = DilatedByDisc(se, in, roi) /\ OffsetsOf(se) = DiscOffsets(se)
    BY <1>2 DEF Filtered, OffsetsOf
  <2>2. DOMAIN DilatedByDisc(se, in, roi) = PointsOf(roi)
    BY DEF DilatedByDisc
  <2>3. se.radius \in Nat
    BY <1>2 DEF IsFilter
  <2>4. QED
    BY <2>1, <2>2, <2>3, DiscFilterIs
<1>3. QED
  BY <1>1, <1>2

(* The window of a pixel of the output region is in the input region. *)
LEMMA WindowFits ==
    ASSUME NEW se, IsFilter(se), NEW e \in OffsetsOf(se), NEW roi, IsBox(roi), NEW q \in PointsOf(roi)
    PROVE  e \in Int \X Int /\ Plus(q, e, 1) \in PointsOf(compute_input_region(se, roi))
<1>1. /\ e = <<e[1], e[2]>> /\ e[1] \in Int /\ e[2] \in Int
      /\ -ExtentX(se) <= e[1] /\ e[1] <= ExtentX(se)
      /\ -ExtentY(se) <= e[2] /\ e[2] <= ExtentY(se)
  <2>1. CASE se.kind = "line"
    <3>1. se.k \in Nat /\ se.delta[1] \in Int /\ se.delta[2] \in Int
      BY <2>1 DEF IsFilter
    <3>2. PICK i \in -se.k .. se.k : e = <<i * se.delta[1], i * se.delta[2]>>
      BY <2>1 DEF OffsetsOf, LineOffsets
    <3>3. ASSUME NEW d \in Int, NEW k \in Nat, NEW j \in -k .. k
          PROVE  j * d \in Int /\ -(Abs(d) * k) <= j * d /\ j * d <= Abs(d) * k
      <4>1. /\ Abs(d) \in Nat /\ Abs(d) * k \in Nat /\ k - j \in Nat /\ k + j \in Nat
            /\ Abs(d) = d \/ Abs(d) = -d
        BY DEF Abs
      <4> DEFINE a == Abs(d)
      <4> HIDE DEF a
      <4>2. a \in Nat /\ a * (k - j) \in Nat /\ a * (k + j) \in Nat
        BY <4>1 DEF a
      <4>3. a * (k - j) = a * k - a * j /\ a * (k + j) = a * k + a * j /\ a * k \in Int /\ a * j \in Int
        BY <4>2
      <4>4. -(a * k) <= a * j /\ a * j <= a * k
        BY <4>2, <4>3
      <4>5. j * d = a * j \/ j * d = -(a * j)
        BY <4>1 DEF a
      <4>6. QED
        BY <4>3, <4>4, <4>5 DEF a
    <3>4. ExtentX(se) = Abs(se.delta[1]) * se.k /\ ExtentY(se) = Abs(se.delta[2]) * se.k
      BY <2>1 DEF ExtentX, ExtentY
    <3>5. QED
      BY <3>1, <3>2, <3>3, <3>4
  <2>2. CASE se.kind # "line"
    <3>1. se.kind = "disc" /\ se.radius \in Nat
      BY <2>2 DEF IsFilter
    <3>2. ExtentX(se) = se.radius /\ ExtentY(se) = se.radius
      BY <3>1 DEF ExtentX, ExtentY
    <3>3. e \in {<<x, y>> : x \in -se.radius .. se.radius, y \in -se.radius .. se.radius}
      BY <2>2 DEF OffsetsOf, DiscOffsets
    <3>4. QED
      BY <3>1, <3>2, <3>3
  <2>3. QED
    BY <2>1, <2>2
<1>2. ExtentX(se) \in Nat /\ ExtentY(se) \in Nat
  BY ExtentsAre
<1>3. /\ q[1] \in Int /\ q[2] \in Int /\ roi.x0 <= q[1] /\ q[1] <= roi.x1 - 1
      /\ roi.y0 <= q[2] /\ q[2] <= roi.y1 - 1
      /\ roi.x0 \in Int /\ roi.x1 \in Int /\ roi.y0 \in Int /\ roi.y1 \in Int
  BY DEF PointsOf, IsBox
<1>4. Plus(q, e, 1) = <<q[1] + e[1], q[2] + e[2]>>
  BY <1>1 DEF Plus
<1>5. QED
  BY <1>1, <1>2, <1>3, <1>4 DEF PointsOf, compute_input_region, Inflate

-----------------------------------------------------------------------------
(* Two boxes that a vertical or a horizontal line separates. *)
Apart(a, b) == a.x1 <= b.x0 \/ b.x1 <= a.x0 \/ a.y1 <= b.y0 \/ b.y1 <= a.y0

(* A task computes a box of the output with the chain of its top left. *)
Computes(box, chain) ==
    /\ IsBox(box) /\ IsBox(chain)
    /\ Includes(job.out, box)
    /\ job.parallel => TopLeft(chain) = TopLeft(box)

(* What the tasks know of one another. *)
TasksOK ==
    /\ \A t \in ranges : /\ t = [region |-> t.region, chain |-> t.chain]
                         /\ Computes(t.region, t.chain)
    /\ \A t \in running : /\ t = [tile |-> t.tile, roi |-> t.roi, chain |-> t.chain, f |-> t.f]
                          /\ Computes(t.tile, t.chain)
    /\ \A t, u \in ranges : t = u \/ Apart(t.region, u.region)
    /\ \A t, u \in running : t = u \/ (job.parallel /\ Apart(t.tile, u.tile))
    /\ \A t \in ranges, u \in running : Apart(t.region, u.tile)

TasksInv == job \in Jobs /\ TasksOK

-----------------------------------------------------------------------------
(* Boxes that are apart have no point in common. *)
LEMMA ApartHaveNoPoint ==
    ASSUME NEW a, NEW b, IsBox(a), IsBox(b), Apart(a, b)
    PROVE  PointsOf(a) \cap PointsOf(b) = {}
<1> SUFFICES ASSUME NEW q \in PointsOf(a), q \in PointsOf(b) PROVE FALSE
  OBVIOUS
<1>1. PICK x \in a.x0 .. a.x1 - 1, y \in a.y0 .. a.y1 - 1 : q = <<x, y>>
  BY DEF PointsOf
<1>2. PICK z \in b.x0 .. b.x1 - 1, v \in b.y0 .. b.y1 - 1 : q = <<z, v>>
  BY DEF PointsOf
<1>3. x = z /\ y = v
  BY <1>1, <1>2
<1>4. QED
  BY <1>3 DEF IsBox, Apart

(* Boxes that are apart do not have the same top left. *)
LEMMA ApartStartElsewhere ==
    ASSUME NEW a, NEW b, IsBox(a), IsBox(b), Apart(a, b)
    PROVE  TopLeft(a) # TopLeft(b)
BY DEF IsBox, Apart, TopLeft

(* The invariant says what the property asks for. *)
LEMMA TasksAreExclusive == TasksInv => TilesAreExclusive
<1> SUFFICES ASSUME TasksInv PROVE TilesAreExclusive
  OBVIOUS
<1>1. \A t \in ranges : IsBox(t.region) /\ Includes(job.out, t.region)
  BY DEF TasksInv, TasksOK, Computes
<1>2. \A t \in running : IsBox(t.tile) /\ Includes(job.out, t.tile)
  BY DEF TasksInv, TasksOK, Computes
<1>3. ASSUME NEW t \in ranges, NEW u \in ranges \ {t}
      PROVE  PointsOf(t.region) \cap PointsOf(u.region) = {} /\ (job.parallel => t.chain # u.chain)
  <2>1. Apart(t.region, u.region)
    BY DEF TasksInv, TasksOK
  <2>2. QED
    BY <1>1, <2>1, ApartHaveNoPoint, ApartStartElsewhere DEF TasksInv, TasksOK, Computes
<1>4. ASSUME NEW t \in running, NEW u \in running \ {t}
      PROVE  PointsOf(t.tile) \cap PointsOf(u.tile) = {} /\ t.chain # u.chain
  <2>1. job.parallel /\ Apart(t.tile, u.tile)
    BY DEF TasksInv, TasksOK
  <2>2. QED
    BY <1>2, <2>1, ApartHaveNoPoint, ApartStartElsewhere DEF TasksInv, TasksOK, Computes
<1>5. ASSUME NEW t \in ranges, NEW u \in running
      PROVE  PointsOf(t.region) \cap PointsOf(u.tile) = {} /\ (job.parallel => t.chain # u.chain)
  <2>1. Apart(t.region, u.tile)
    BY DEF TasksInv, TasksOK
  <2>2. QED
    BY <1>1, <1>2, <2>1, ApartHaveNoPoint, ApartStartElsewhere DEF TasksInv, TasksOK, Computes
<1>6. \A b \in Regions : Includes(job.out, b)
  BY <1>1, <1>2 DEF Regions
<1>7. QED
  BY <1>3, <1>4, <1>5, <1>6 DEF TilesAreExclusive

-----------------------------------------------------------------------------
(* At the start: one region, or tiles that are multiples of a size apart. *)
LEMMA TilesOfTheLoops ==
    ASSUME NEW roi, NEW tw \in Nat \ {0}, NEW th \in Nat \ {0}, IsBox(roi)
    PROVE  /\ \A b \in SequentialTiles(roi, tw, th) : IsBox(b) /\ Includes(roi, b)
           /\ \A a, b \in SequentialTiles(roi, tw, th) : a = b \/ Apart(a, b)
<1> DEFINE LowerOf(x, y) == IF x < y THEN x ELSE y
           Starts == {q \in PointsOf(roi) : (q[1] - roi.x0) % tw = 0 /\ (q[2] - roi.y0) % th = 0}
           TileAt(q) == Box(q[1], q[2], LowerOf(tw, roi.x1 - q[1]), LowerOf(th, roi.y1 - q[2]))
<1>1. SequentialTiles(roi, tw, th) = {TileAt(q) : q \in Starts}
  BY DEF SequentialTiles
<1>2. \A q \in Starts : /\ q[1] \in Int /\ q[2] \in Int
                        /\ roi.x0 <= q[1] /\ q[1] < roi.x1
                        /\ roi.y0 <= q[2] /\ q[2] < roi.y1
                        /\ q = <<q[1], q[2]>>
                        /\ (q[1] - roi.x0) % tw = 0 /\ (q[2] - roi.y0) % th = 0
  BY DEF PointsOf, IsBox
<1>3. ASSUME NEW q \in Starts
      PROVE  IsBox(TileAt(q)) /\ Includes(roi, TileAt(q))
  BY <1>2 DEF IsBox, Includes, Box
<1>4. ASSUME NEW q \in Starts, NEW r \in Starts, q[1] < r[1]
      PROVE  Apart(TileAt(q), TileAt(r))
  <2>1. q[1] - roi.x0 \in Int /\ r[1] - roi.x0 \in Int /\ q[1] - roi.x0 < r[1] - roi.x0
    BY <1>2, <1>4 DEF IsBox
  <2>2. q[1] - roi.x0 + tw <= r[1] - roi.x0
    BY <1>2, <2>1, MultiplesAreApart
  <2>3. TileAt(q).x1 <= TileAt(r).x0
    BY <1>2, <2>2 DEF IsBox, Box
  <2>4. QED
    BY <2>3 DEF Apart
<1>5. ASSUME NEW q \in Starts, NEW r \in Starts, q[2] < r[2]
      PROVE  Apart(TileAt(q), TileAt(r))
  <2>1. q[2] - roi.y0 \in Int /\ r[2] - roi.y0 \in Int /\ q[2] - roi.y0 < r[2] - roi.y0
    BY <1>2, <1>5 DEF IsBox
  <2>2. q[2] - roi.y0 + th <= r[2] - roi.y0
    BY <1>2, <2>1, MultiplesAreApart
  <2>3. TileAt(q).y1 <= TileAt(r).y0
    BY <1>2, <2>2 DEF IsBox, Box
  <2>4. QED
    BY <2>3 DEF Apart
<1>6. \A a, b : Apart(a, b) => Apart(b, a)
  BY DEF Apart
<1>7. ASSUME NEW q \in Starts, NEW r \in Starts
      PROVE  TileAt(q) = TileAt(r) \/ Apart(TileAt(q), TileAt(r))
  <2>1. CASE q[1] = r[1] /\ q[2] = r[2]
    <3>1. q = r
      BY <1>2, <2>1
    <3>2. QED
      BY <3>1
  <2>2. CASE q[1] < r[1] \/ r[1] < q[1]
    BY <1>4, <1>6, <2>2
  <2>3. CASE q[2] < r[2] \/ r[2] < q[2]
    BY <1>5, <1>6, <2>3
  <2>4. QED
    BY <1>2, <2>1, <2>2, <2>3
<1> HIDE DEF TileAt, Starts
<1>8. QED
  BY <1>1, <1>3, <1>7

LEMMA TasksAtStart == TDInit => TasksInv
<1> SUFFICES ASSUME TDInit PROVE TasksInv
  OBVIOUS
<1> DEFINE First == IF job.parallel THEN {job.out} ELSE SequentialTiles(job.out, job.tw, job.th)
<1>1. job \in Jobs /\ running = {} /\ ranges = {[region |-> r, chain |-> job.out] : r \in First}
  BY DEF TDInit
<1>2. IsBox(job.out) /\ job.tw \in Nat \ {0} /\ job.th \in Nat \ {0}
  BY <1>1, TiledDilationAssumption
<1>3. /\ \A b \in First : IsBox(b) /\ Includes(job.out, b)
      /\ \A a, b \in First : a = b \/ Apart(a, b)
      /\ job.parallel => First = {job.out}
  <2>1. CASE job.parallel
    BY <1>2, <2>1 DEF IsBox, Includes
  <2>2. CASE ~job.parallel
    BY <1>2, <2>2, TilesOfTheLoops
  <2>3. QED
    BY <2>1, <2>2
<1> HIDE DEF First
<1>4. ASSUME NEW t \in ranges
      PROVE  /\ t = [region |-> t.region, chain |-> t.chain]
             /\ t.region \in First
             /\ Computes(t.region, t.chain)
  <2>1. PICK r \in First : t = [region |-> r, chain |-> job.out]
    BY <1>1
  <2>2. QED
    BY <1>2, <1>3, <2>1 DEF Computes
<1>5. ASSUME NEW t \in ranges, NEW u \in ranges
      PROVE  t = u \/ Apart(t.region, u.region)
  <2>1. PICK r \in First : t = [region |-> r, chain |-> job.out]
    BY <1>1
  <2>2. PICK s \in First : u = [region |-> s, chain |-> job.out]
    BY <1>1
  <2>3. QED
    BY <1>3, <2>1, <2>2
<1>6. QED
  BY <1>1, <1>4, <1>5 DEF TasksInv, TasksOK

-----------------------------------------------------------------------------
(* A range that is divisible is cut in two boxes: the side that is cut is   *)
(* two pixels long at least.                                                *)
LEMMA HalvesOfARange ==
    ASSUME NEW b, IsBox(b), job \in Jobs, IsDivisible(b)
    PROVE  /\ IsBox(LeftPart(b)) /\ IsBox(RightPart(b))
           /\ Includes(b, LeftPart(b)) /\ Includes(b, RightPart(b))
           /\ Apart(LeftPart(b), RightPart(b))
           /\ TopLeft(LeftPart(b)) = TopLeft(b)
<1> DEFINE w == Width(b)
           h == Height(b)
<1>1. job.tw \in Nat \ {0} /\ job.th \in Nat \ {0}
  BY TiledDilationAssumption
<1>2. w \in Nat \ {0} /\ h \in Nat \ {0}
  BY DEF IsBox, Width, Height
<1>3. CASE CutsColumns(b)
  <2>1. h * job.tw < w * job.th
    BY <1>3 DEF CutsColumns
  <2>2. ASSUME w = 1 PROVE FALSE
    <3>1. h > job.th
      BY <1>1, <2>2 DEF IsDivisible
    <3>2. w * job.th = job.th
      BY <1>1, <2>2
    <3>3. h <= h * job.tw
      BY <1>1, <1>2, ProductsKeep
    <3>4. h * job.tw \in Int
      BY <1>1, <1>2
    <3>5. QED
      BY <1>1, <1>2, <2>1, <3>1, <3>2, <3>3, <3>4
  <2>3. b.x0 < MiddleX(b) /\ MiddleX(b) < b.x1 /\ MiddleX(b) \in Int
    <3>1. w \div 2 \in Int /\ 0 < w \div 2 /\ w \div 2 < w
      BY <1>2, <2>2, HalfIsBetween
    <3>2. MiddleX(b) = b.x0 + (w \div 2) /\ w = b.x1 - b.x0 /\ b.x0 \in Int /\ b.x1 \in Int
      BY DEF IsBox, MiddleX, Width
    <3>3. QED
      BY <3>1, <3>2
  <2>4. /\ LeftPart(b) = [x0 |-> b.x0, y0 |-> b.y0, x1 |-> MiddleX(b), y1 |-> b.y1]
        /\ RightPart(b) = [x0 |-> MiddleX(b), y0 |-> b.y0, x1 |-> b.x1, y1 |-> b.y1]
    BY <1>3 DEF IsBox, LeftPart, RightPart
  <2>5. QED
    BY <2>3, <2>4 DEF IsBox, Includes, Apart, TopLeft
<1>4. CASE ~CutsColumns(b)
  <2>1. ~(h * job.tw < w * job.th)
    BY <1>4 DEF CutsColumns
  <2>2. ASSUME h = 1 PROVE FALSE
    <3>1. w > job.tw
      BY <1>1, <2>2 DEF IsDivisible
    <3>2. h * job.tw = job.tw
      BY <1>1, <2>2
    <3>3. w <= w * job.th
      BY <1>1, <1>2, ProductsKeep
    <3>4. w * job.th \in Int
      BY <1>1, <1>2
    <3>5. QED
      BY <1>1, <1>2, <2>1, <3>1, <3>2, <3>3, <3>4
  <2>3. b.y0 < MiddleY(b) /\ MiddleY(b) < b.y1 /\ MiddleY(b) \in Int
    <3>1. h \div 2 \in Int /\ 0 < h \div 2 /\ h \div 2 < h
      BY <1>2, <2>2, HalfIsBetween
    <3>2. MiddleY(b) = b.y0 + (h \div 2) /\ h = b.y1 - b.y0 /\ b.y0 \in Int /\ b.y1 \in Int
      BY DEF IsBox, MiddleY, Height
    <3>3. QED
      BY <3>1, <3>2
  <2>4. /\ LeftPart(b) = [x0 |-> b.x0, y0 |-> b.y0, x1 |-> b.x1, y1 |-> MiddleY(b)]
        /\ RightPart(b) = [x0 |-> b.x0, y0 |-> MiddleY(b), x1 |-> b.x1, y1 |-> b.y1]
    BY <1>4 DEF IsBox, LeftPart, RightPart
  <2>5. QED
    BY <2>3, <2>4 DEF IsBox, Includes, Apart, TopLeft
<1>5. QED
  BY <1>3, <1>4

(* What is apart from a box is apart from its parts. *)
LEMMA ApartFromParts ==
    ASSUME NEW a, NEW b, NEW c, IsBox(a), IsBox(b), IsBox(c), Includes(b, c),
           Apart(a, b)
    PROVE  Apart(a, c) /\ Apart(c, a)
BY DEF IsBox, Includes, Apart

-----------------------------------------------------------------------------
(* The region that splits off is computed with a chain of its own. *)
LEMMA SplitKeepsTasks ==
    ASSUME TasksInv, NEW t \in ranges, Split(t)
    PROVE  TasksInv'
<1>1. PICK left, right :
         /\ left = [region |-> LeftPart(t.region), chain |-> t.chain]
         /\ right = [region |-> RightPart(t.region), chain |-> RightPart(t.region)]
  OBVIOUS
<1> DEFINE others == ranges \ {t}
<1>2. /\ job \in Jobs /\ job' = job /\ running' = running
      /\ job.parallel /\ IsDivisible(t.region)
  BY DEF Split, TasksInv
<1>3. t = [region |-> t.region, chain |-> t.chain] /\ Computes(t.region, t.chain)
  BY DEF TasksInv, TasksOK
<1>4. ranges' = others \cup {left, right}
  <2>1. [t EXCEPT !.region = LeftPart(t.region)] = left
    BY <1>1, <1>3
  <2>2. QED
    BY <1>1, <2>1 DEF Split, ClonedChain
<1>5. /\ left.region = LeftPart(t.region) /\ left.chain = t.chain
      /\ left = [region |-> left.region, chain |-> left.chain]
      /\ right.region = RightPart(t.region) /\ right.chain = right.region
      /\ right = [region |-> right.region, chain |-> right.chain]
  BY <1>1
<1>6. /\ IsBox(LeftPart(t.region)) /\ IsBox(RightPart(t.region))
      /\ Includes(t.region, LeftPart(t.region)) /\ Includes(t.region, RightPart(t.region))
      /\ Apart(LeftPart(t.region), RightPart(t.region))
      /\ TopLeft(LeftPart(t.region)) = TopLeft(t.region)
  BY <1>2, <1>3, HalvesOfARange DEF Computes
<1>7. IsBox(job.out) /\ IsBox(t.region)
  BY <1>2, <1>3, TiledDilationAssumption DEF Computes
<1>8. Computes(left.region, left.chain) /\ Computes(right.region, right.chain)
  <2>1. Includes(job.out, LeftPart(t.region)) /\ Includes(job.out, RightPart(t.region))
    BY <1>3, <1>6, <1>7 DEF Computes, IsBox, Includes
  <2>2. QED
    BY <1>5, <1>3, <1>6, <2>1 DEF Computes
<1>9. ASSUME NEW u \in others
      PROVE  /\ Apart(u.region, left.region) /\ Apart(left.region, u.region)
             /\ Apart(u.region, right.region) /\ Apart(right.region, u.region)
  <2>1. Apart(u.region, t.region) /\ IsBox(u.region)
    BY DEF TasksInv, TasksOK, Computes
  <2>2. QED
    BY <1>5, <1>6, <1>7, <2>1, ApartFromParts
<1>10. ASSUME NEW u \in running
      PROVE  Apart(left.region, u.tile) /\ Apart(right.region, u.tile)
  <2>1. Apart(t.region, u.tile) /\ IsBox(u.tile)
    BY DEF TasksInv, TasksOK, Computes
  <2>2. Apart(u.tile, t.region)
    BY <2>1 DEF Apart
  <2>3. QED
    BY <1>5, <1>6, <1>7, <2>1, <2>2, ApartFromParts
<1>11. \A a, b : Computes(a, b) => Computes(a, b)'
  BY <1>2 DEF Computes
<1>12. Apart(left.region, right.region) /\ Apart(right.region, left.region)
  BY <1>5, <1>6 DEF Apart
<1> DEFINE Keeps(u) == u = [region |-> u.region, chain |-> u.chain] /\ Computes(u.region, u.chain)'
<1>13. \A u \in others : Keeps(u)
  BY <1>11 DEF TasksInv, TasksOK
<1>14. Keeps(left) /\ Keeps(right)
  BY <1>5, <1>8, <1>11
<1>15. \A u, v \in others : u = v \/ Apart(u.region, v.region)
  BY DEF TasksInv, TasksOK
<1>16. \A u \in others, v \in running : Apart(u.region, v.tile)
  BY DEF TasksInv, TasksOK
<1>17. \A u \in running' : /\ u = [tile |-> u.tile, roi |-> u.roi, chain |-> u.chain, f |-> u.f]
                           /\ Computes(u.tile, u.chain)'
  BY <1>2, <1>11 DEF TasksInv, TasksOK
<1>18. \A u, v \in running' : u = v \/ (job'.parallel /\ Apart(u.tile, v.tile))
  BY <1>2 DEF TasksInv, TasksOK
<1> HIDE DEF others
<1>19. \A u \in ranges' : Keeps(u)
  BY <1>4, <1>13, <1>14
<1>20. \A u, v \in ranges' : u = v \/ Apart(u.region, v.region)
  BY <1>4, <1>9, <1>12, <1>15
<1>21. \A u \in ranges', v \in running' : Apart(u.region, v.tile)
  BY <1>2, <1>4, <1>10, <1>16
<1>22. QED
  BY <1>2, <1>17, <1>18, <1>19, <1>20, <1>21 DEF TasksInv, TasksOK

(* A tile takes the place of its range; in sequence it is the only one. *)
LEMMA LoadKeepsTasks ==
    ASSUME TasksInv, NEW t \in ranges, Load(t)
    PROVE  TasksInv'
<1>1. PICK n : /\ running' = running \cup {n}
               /\ n = [tile |-> t.region, roi |-> n.roi, chain |-> t.chain, f |-> 0]
  <2>1. PICK roi \in {ChainInputRegion(t.region)} :
            running' = running \cup {[tile |-> t.region, roi |-> roi, chain |-> t.chain, f |-> 0]}
    BY DEF Load
  <2>2. PICK n : n = [tile |-> t.region, roi |-> roi, chain |-> t.chain, f |-> 0]
    OBVIOUS
  <2>3. n.roi = roi
    BY <2>2
  <2>4. QED
    BY <2>1, <2>2, <2>3
<1>2. job \in Jobs /\ job' = job /\ ranges' = ranges \ {t} /\ IsNext(t)
  BY DEF Load, TasksInv
<1>3. \A a, b : Computes(a, b) => Computes(a, b)'
  BY <1>2 DEF Computes
<1>4. /\ n.tile = t.region /\ n.chain = t.chain
      /\ n = [tile |-> n.tile, roi |-> n.roi, chain |-> n.chain, f |-> n.f]
  BY <1>1
<1>5. Computes(n.tile, n.chain)
  BY <1>4 DEF TasksInv, TasksOK
<1>6. \A u \in running : job.parallel /\ Apart(n.tile, u.tile) /\ Apart(u.tile, n.tile)
  BY <1>2, <1>4 DEF TasksInv, TasksOK, IsNext, Apart
<1>7. \A u \in ranges \ {t} : Apart(u.region, n.tile)
  BY <1>4 DEF TasksInv, TasksOK
<1>8. \A u \in ranges' : u = [region |-> u.region, chain |-> u.chain] /\ Computes(u.region, u.chain)'
  BY <1>2, <1>3 DEF TasksInv, TasksOK
<1>9. \A u \in running' : /\ u = [tile |-> u.tile, roi |-> u.roi, chain |-> u.chain, f |-> u.f]
                          /\ Computes(u.tile, u.chain)'
  BY <1>1, <1>3, <1>4, <1>5 DEF TasksInv, TasksOK
<1>10. \A u, v \in ranges' : u = v \/ Apart(u.region, v.region)
  BY <1>2 DEF TasksInv, TasksOK
<1>11. \A u, v \in running' : u = v \/ (job'.parallel /\ Apart(u.tile, v.tile))
  BY <1>1, <1>2, <1>6 DEF TasksInv, TasksOK
<1>12. \A u \in ranges', v \in running' : Apart(u.region, v.tile)
  BY <1>1, <1>2, <1>7 DEF TasksInv, TasksOK
<1>13. QED
  BY <1>2, <1>8, <1>9, <1>10, <1>11, <1>12 DEF TasksInv, TasksOK

(* A filter changes neither the tile nor the chain of a task. *)
LEMMA ExecuteKeepsTasks ==
    ASSUME TasksInv, NEW t \in running, Execute(t)
    PROVE  TasksInv'
<1>1. job \in Jobs /\ job' = job /\ ranges' = ranges
  BY DEF Execute, TasksInv
<1>2. /\ t = [tile |-> t.tile, roi |-> t.roi, chain |-> t.chain, f |-> t.f]
      /\ Computes(t.tile, t.chain)
  BY DEF TasksInv, TasksOK
<1>3. PICK n : /\ running' = (running \ {t}) \cup {n}
               /\ n.tile = t.tile /\ n.chain = t.chain
               /\ n = [tile |-> n.tile, roi |-> n.roi, chain |-> n.chain, f |-> n.f]
  <2>1. PICK roi : running' = (running \ {t}) \cup {[t EXCEPT !.roi = roi, !.f = @ + 1]}
    BY DEF Execute
  <2>2. PICK u : u = [t EXCEPT !.roi = roi, !.f = @ + 1]
    OBVIOUS
  <2>3. DOMAIN t = {"tile", "roi", "chain", "f"}
    BY <1>2
  <2>4. /\ u = [e \in {"tile", "roi", "chain", "f"} |-> u[e]]
        /\ u.tile = t.tile /\ u.chain = t.chain
    BY <2>2, <2>3
  <2>5. u = [tile |-> u.tile, roi |-> u.roi, chain |-> u.chain, f |-> u.f]
    BY <2>4
  <2>6. QED
    BY <2>1, <2>2, <2>4, <2>5
<1>4. \A a, b : Computes(a, b) => Computes(a, b)'
  BY <1>1 DEF Computes
<1>5. \A u \in running \ {t} : /\ job.parallel
                               /\ Apart(u.tile, n.tile) /\ Apart(n.tile, u.tile)
  BY <1>3 DEF TasksInv, TasksOK
<1>6. \A u \in ranges : Apart(u.region, n.tile)
  BY <1>3 DEF TasksInv, TasksOK
<1>7. \A u \in ranges' : u = [region |-> u.region, chain |-> u.chain] /\ Computes(u.region, u.chain)'
  BY <1>1, <1>4 DEF TasksInv, TasksOK
<1>8. \A u \in running' : /\ u = [tile |-> u.tile, roi |-> u.roi, chain |-> u.chain, f |-> u.f]
                          /\ Computes(u.tile, u.chain)'
  BY <1>2, <1>3, <1>4 DEF TasksInv, TasksOK
<1>9. \A u, v \in ranges' : u = v \/ Apart(u.region, v.region)
  BY <1>1 DEF TasksInv, TasksOK
<1>10. \A u, v \in running' : u = v \/ (job'.parallel /\ Apart(u.tile, v.tile))
  BY <1>1, <1>3, <1>5 DEF TasksInv, TasksOK
<1>11. \A u \in ranges', v \in running' : Apart(u.region, v.tile)
  BY <1>1, <1>3, <1>6 DEF TasksInv, TasksOK
<1>12. QED
  BY <1>1, <1>7, <1>8, <1>9, <1>10, <1>11 DEF TasksInv, TasksOK

LEMMA WriteTileKeepsTasks ==
    ASSUME TasksInv, NEW t \in running, WriteTile(t)
    PROVE  TasksInv'
<1>1. job \in Jobs /\ job' = job /\ ranges' = ranges /\ running' = running \ {t}
  BY DEF WriteTile, TasksInv
<1>2. \A a, b : Computes(a, b) => Computes(a, b)'
  BY <1>1 DEF Computes
<1>3. QED
  BY <1>1, <1>2 DEF TasksInv, TasksOK

LEMMA TasksStutter == TasksInv /\ UNCHANGED vars => TasksInv'
BY DEF TasksInv, TasksOK, Computes, vars

(***************************************************************************)
(* No pixel of the output is computed by two tasks and no two tasks have   *)
(* the same buffers, whatever the image, the size of the tiles and the     *)
(* order in which the tasks run (ParallelLocalCanvas2DImpl).               *)
(***************************************************************************)
THEOREM TilesAreApart == TDSpec => []TilesAreExclusive
<1>1. TDInit => TasksInv
  BY TasksAtStart
<1>2. TasksInv /\ [TDNext]_vars => TasksInv'
  <2> SUFFICES ASSUME TasksInv, [TDNext]_vars PROVE TasksInv'
    OBVIOUS
  <2>1. CASE \E t \in ranges : Split(t) \/ Load(t)
    BY <2>1, SplitKeepsTasks, LoadKeepsTasks
  <2>2. CASE \E t \in running : Execute(t) \/ WriteTile(t)
    BY <2>2, ExecuteKeepsTasks, WriteTileKeepsTasks
  <2>3. CASE UNCHANGED vars
    BY <2>3, TasksStutter
  <2>4. QED
    BY <2>1, <2>2, <2>3 DEF TDNext
<1>3. TasksInv => TilesAreExclusive
  BY TasksAreExclusive
<1>4. QED
  BY <1>1, <1>2, <1>3, PTL DEF TDSpec

-----------------------------------------------------------------------------
(* What a job fixes. *)
LEMMA JobIs ==
    ASSUME job \in Jobs
    PROVE  /\ IsBox(job.in) /\ IsBox(job.out) /\ job.tw \in Nat \ {0} /\ job.th \in Nat \ {0}
           /\ IsChain(Filters) /\ Len(Filters) \in Nat
           /\ \A f \in 1 .. Len(Filters) : IsFilter(Filters[f])
           /\ ExtentX(job.se) \in Int /\ ExtentY(job.se) \in Int
           /\ Reaches(Filters, ExtentX(job.se), ExtentY(job.se))
<1>1. IsElement(job.se)
  BY TiledDilationAssumption
<1>2. Reaches(Filters, ExtentX(job.se), ExtentY(job.se))
  BY <1>1, ReachOfElement DEF Filters
<1>3. IsChain(Filters) /\ ExtentX(job.se) \in Int /\ ExtentY(job.se) \in Int
  BY <1>2 DEF Reaches
<1>4. QED
  BY <1>2, <1>3, ChainIs, TiledDilationAssumption

(* The regions of a tile exist and shrink from the input region to it. *)
LEMMA RegionsExist ==
    ASSUME NEW F, IsChain(F), NEW tile \in Boxes
    PROVE  AreRegions(RegionsOf(F, tile), F, tile)
<1> DEFINE n == Len(F)
           g == [e \in (1 .. n) \X Boxes |-> compute_input_region(F[n - e[1] + 1], e[2])]
<1>1. n \in Nat /\ \A f \in 1 .. n : IsFilter(F[f])
  BY ChainIs
<1>2. ASSUME NEW j \in 1 .. n, NEW b \in Boxes
      PROVE  g[<<j, b>>] = compute_input_region(F[n - j + 1], b) /\ g[<<j, b>>] \in Boxes
  <2>1. g[<<j, b>>] = compute_input_region(F[n - j + 1], b)
    OBVIOUS
  <2>2. n - j + 1 \in 1 .. n
    BY <1>1
  <2>3. IsFilter(F[n - j + 1])
    BY <1>1, <2>2
  <2>4. QED
    BY <2>1, <2>3, ExtentsAre
<1> HIDE DEF g, n
<1>3. PICK u \in [0 .. n -> Boxes] : IsRecursion(u, g, tile, n)
  BY <1>1, <1>2, RecursionExists
<1>4. u[0] = tile /\ \A j \in 1 .. n : u[j] = g[<<j, u[j - 1]>>]
  BY <1>1, <1>3 DEF IsRecursion
<1> DEFINE region == [f \in 0 .. n |-> u[n - f]]
<1>5. ASSUME NEW f \in 0 .. n
      PROVE  region[f] = IF f = n THEN tile ELSE compute_input_region(F[f + 1], region[f + 1])
  <2>1. CASE f = n
    BY <1>1, <1>4, <2>1
  <2>2. CASE f # n
    <3>1. /\ n - f \in 1 .. n /\ (n - f) - 1 = n - (f + 1) /\ f + 1 \in 0 .. n
          /\ n - (f + 1) \in 0 .. n /\ n - (n - f) + 1 = f + 1
      BY <1>1, <2>2
    <3>2. u[n - f] = g[<<n - f, u[(n - f) - 1]>>]
      BY <1>4, <3>1
    <3>3. u[n - (f + 1)] \in Boxes
      BY <3>1
    <3>4. g[<<n - f, u[n - (f + 1)]>>] = compute_input_region(F[n - (n - f) + 1], u[n - (f + 1)])
      BY <1>2, <3>1, <3>3
    <3>5. region[f] = u[n - f] /\ region[f + 1] = u[n - (f + 1)]
      BY <3>1
    <3> HIDE DEF region
    <3>6. QED
      BY <2>2, <3>1, <3>2, <3>4, <3>5
  <2>3. QED
    BY <2>1, <2>2
<1>6. region = [f \in 0 .. n |-> region[f]]
  OBVIOUS
<1> HIDE DEF region
<1>7. AreRegions(region, F, tile)
  BY <1>5, <1>6 DEF AreRegions, n
<1>8. QED
  BY <1>7 DEF RegionsOf

LEMMA RegionsShrink ==
    ASSUME NEW F, IsChain(F), NEW tile, IsBox(tile), NEW region, AreRegions(region, F, tile)
    PROVE  \A f \in 0 .. Len(F) : IsBox(region[f]) /\ Includes(region[f], tile) /\ Includes(region[0], region[f])
<1> DEFINE n == Len(F)
           Holds(f) == IsBox(region[f]) /\ Includes(region[f], tile)
           T == {i \in Nat : i <= n => Holds(n - i)}
           V == {i \in Nat : i <= n => Includes(region[0], region[i])}
<1>1. n \in Nat /\ \A f \in 1 .. n : IsFilter(F[f])
  BY ChainIs
<1>2. tile \in Boxes
  BY BoxesAre
<1>3. region[n] = tile /\ \A f \in 0 .. n - 1 : region[f] = compute_input_region(F[f + 1], region[f + 1])
  BY <1>2, RegionsAre
<1>4. ASSUME NEW se, IsFilter(se), NEW b, IsBox(b)
      PROVE  IsBox(compute_input_region(se, b)) /\ Includes(compute_input_region(se, b), b)
  <2>1. ExtentX(se) \in Nat /\ ExtentY(se) \in Nat
    BY <1>4, ExtentsAre
  <2>2. QED
    BY <1>4, <2>1 DEF IsBox, Includes, compute_input_region, Inflate
<1>5. \A a, b, c : IsBox(a) /\ IsBox(b) /\ IsBox(c) /\ Includes(a, b) /\ Includes(b, c) => Includes(a, c)
  BY DEF IsBox, Includes
<1>6. \A a : IsBox(a) => Includes(a, a)
  BY DEF IsBox, Includes
<1> HIDE DEF n
<1>7. 0 \in T
  <2>1. n - 0 = n
    BY <1>1
  <2>2. QED
    BY <1>3, <1>6, <2>1
<1>8. ASSUME NEW i \in T PROVE i + 1 \in T
  <2>1. i \in Nat /\ (i <= n => Holds(n - i))
    OBVIOUS
  <2>2. CASE i + 1 <= n
    <3> DEFINE f == n - (i + 1)
    <3>1. f \in 0 .. n - 1 /\ f + 1 \in 1 .. n /\ f + 1 = n - i /\ i <= n
      BY <1>1, <2>1, <2>2
    <3> HIDE DEF f
    <3>2. region[f] = compute_input_region(F[f + 1], region[f + 1]) /\ IsFilter(F[f + 1])
      BY <1>1, <1>3, <3>1
    <3>3. IsBox(region[f + 1]) /\ Includes(region[f + 1], tile)
      BY <2>1, <3>1
    <3>4. IsBox(region[f]) /\ Includes(region[f], region[f + 1])
      BY <1>4, <3>2, <3>3
    <3>5. Holds(f)
      BY <1>5, <3>3, <3>4
    <3>6. QED
      BY <2>1, <3>5 DEF f
  <2>3. CASE ~(i + 1 <= n)
    BY <2>1, <2>3
  <2>4. QED
    BY <2>2, <2>3
<1> HIDE DEF T
<1>9. T = Nat
  BY <1>7, <1>8, SetOfAllNaturals DEF T
<1>10. \A f \in 0 .. n : Holds(f)
  <2> SUFFICES ASSUME NEW f \in 0 .. n PROVE Holds(f)
    OBVIOUS
  <2>1. n - f \in T /\ n - f <= n /\ n - (n - f) = f
    BY <1>1, <1>9
  <2>2. QED
    BY <2>1 DEF T
<1>11. 0 \in V
  <2>1. 0 \in 0 .. n
    BY <1>1
  <2>2. QED
    BY <1>6, <1>10, <2>1
<1>12. ASSUME NEW i \in V PROVE i + 1 \in V
  <2>1. i \in Nat /\ (i <= n => Includes(region[0], region[i]))
    OBVIOUS
  <2>2. CASE i + 1 <= n
    <3>1. i \in 0 .. n - 1 /\ i \in 0 .. n /\ i + 1 \in 0 .. n /\ i + 1 \in 1 .. n /\ 0 \in 0 .. n /\ i <= n
      BY <1>1, <2>1, <2>2
    <3>2. region[i] = compute_input_region(F[i + 1], region[i + 1]) /\ IsFilter(F[i + 1])
      BY <1>1, <1>3, <3>1
    <3>3. IsBox(region[0]) /\ IsBox(region[i]) /\ IsBox(region[i + 1])
      BY <1>10, <3>1
    <3>4. Includes(region[i], region[i + 1])
      BY <1>4, <3>2, <3>3
    <3>5. Includes(region[0], region[i + 1])
      BY <1>5, <2>1, <3>1, <3>3, <3>4
    <3>6. QED
      BY <2>1, <3>5
  <2>3. CASE ~(i + 1 <= n)
    BY <2>1, <2>3
  <2>4. QED
    BY <2>2, <2>3
<1> HIDE DEF V
<1>13. V = Nat
  BY <1>11, <1>12, SetOfAllNaturals DEF V
<1>14. \A f \in 0 .. n : Includes(region[0], region[f])
  BY <1>1, <1>13 DEF V
<1>15. QED
  BY <1>10, <1>14 DEF n

(* The offsets the first filters of a chain reach together. *)
Sum(A, E) == {Plus(d, e, 1) : d \in A, e \in E}

SumAt(sum, F, f) ==
    IF f = 0 THEN {<<0, 0>>}
    ELSE UNION {{Plus(d, e, 1) : d \in previous,
                    e \in IF F[f].kind = "line" THEN LineOffsets(F[f]) ELSE DiscOffsets(F[f])} :
                   previous \in {sum[f - 1]}}

AreSums(sum, F) == sum = [f \in 0 .. Len(F) |-> SumAt(sum, F, f)]

SumsOf(F) == CHOOSE sum : AreSums(sum, F)

LEMMA SumsExist ==
    ASSUME NEW F, IsChain(F)
    PROVE  /\ SumsOf(F) \in [0 .. Len(F) -> SUBSET (Int \X Int)]
           /\ SumsOf(F)[0] = {<<0, 0>>}
           /\ \A f \in 0 .. Len(F) - 1 : SumsOf(F)[f + 1] = Sum(SumsOf(F)[f], OffsetsOf(F[f + 1]))
<1> DEFINE n == Len(F)
           S == SUBSET (Int \X Int)
           g == [e \in (1 .. n) \X S |-> Sum(e[2], OffsetsOf(F[e[1]]))]
           sums == SumsOf(F)
<1>1. n \in Nat /\ \A f \in 1 .. n : IsFilter(F[f])
  BY ChainIs
<1>2. \A sum : AreSums(sum, F) <=>
          sum = [f \in 0 .. n |-> IF f = 0 THEN {<<0, 0>>} ELSE Sum(sum[f - 1], OffsetsOf(F[f]))]
  <2> SUFFICES ASSUME NEW sum
               PROVE  AreSums(sum, F) <=>
                        sum = [f \in 0 .. n |-> IF f = 0 THEN {<<0, 0>>} ELSE Sum(sum[f - 1], OffsetsOf(F[f]))]
    OBVIOUS
  <2> DEFINE B(f) == IF f = 0 THEN {<<0, 0>>} ELSE Sum(sum[f - 1], OffsetsOf(F[f]))
  <2>2. \A f : SumAt(sum, F, f) = B(f)
    <3> SUFFICES ASSUME NEW f PROVE SumAt(sum, F, f) = B(f)
      OBVIOUS
    <3> DEFINE A == UNION {{Plus(d, e, 1) : d \in previous,
                    e \in IF F[f].kind = "line" THEN LineOffsets(F[f]) ELSE DiscOffsets(F[f])} :
                   previous \in {sum[f - 1]}}
    <3>1. A = Sum(sum[f - 1], OffsetsOf(F[f]))
      BY DEF Sum, OffsetsOf
    <3>2. SumAt(sum, F, f) = IF f = 0 THEN {<<0, 0>>} ELSE A
      BY DEF SumAt
    <3> HIDE DEF A
    <3>3. QED
      BY <3>1, <3>2
  <2> HIDE DEF B
  <2>4. [f \in 0 .. n |-> SumAt(sum, F, f)] = [f \in 0 .. n |-> B(f)]
    BY <2>2
  <2>5. AreSums(sum, F) <=> sum = [f \in 0 .. n |-> B(f)]
    BY <2>4 DEF AreSums
  <2>6. QED
    BY <2>5 DEF B
<1>3. ASSUME NEW j \in 1 .. n, NEW A \in S
      PROVE  g[<<j, A>>] = Sum(A, OffsetsOf(F[j])) /\ g[<<j, A>>] \in S
  <2>1. g[<<j, A>>] = Sum(A, OffsetsOf(F[j]))
    OBVIOUS
  <2>2. \A e \in OffsetsOf(F[j]) : e \in Int \X Int
    <3> SUFFICES ASSUME NEW e \in OffsetsOf(F[j]) PROVE e \in Int \X Int
      OBVIOUS
    <3>1. IsFilter(F[j])
      BY <1>1
    <3>2. IsBox(Box(0, 0, 1, 1)) /\ <<0, 0>> \in PointsOf(Box(0, 0, 1, 1))
      BY DEF IsBox, Box, PointsOf
    <3>3. QED
      BY <3>1, <3>2, WindowFits
  <2>3. \A d \in Int \X Int, e \in Int \X Int : Plus(d, e, 1) \in Int \X Int
    BY DEF Plus
  <2>4. QED
    BY <2>1, <2>2, <2>3 DEF Sum
<1>4. {<<0, 0>>} \in S
  OBVIOUS
<1> HIDE DEF g, n
<1>5. PICK u \in [0 .. n -> S] : IsRecursion(u, g, {<<0, 0>>}, n)
  BY <1>1, <1>3, <1>4, RecursionExists
<1>6. ASSUME NEW f \in 0 .. n
      PROVE  u[f] = IF f = 0 THEN {<<0, 0>>} ELSE Sum(u[f - 1], OffsetsOf(F[f]))
  <2>1. u[f] = IF f = 0 THEN {<<0, 0>>} ELSE g[<<f, u[f - 1]>>]
    BY <1>5 DEF IsRecursion
  <2>2. CASE f = 0
    BY <2>1, <2>2
  <2>3. CASE f # 0
    <3>1. f \in 1 .. n /\ f - 1 \in 0 .. n
      BY <1>1, <2>3
    <3>2. u[f - 1] \in S
      BY <3>1
    <3>3. QED
      BY <1>3, <2>1, <2>3, <3>1, <3>2
  <2>4. QED
    BY <2>2, <2>3
<1>7. AreSums(u, F)
  <2>1. u = [f \in 0 .. n |-> u[f]]
    OBVIOUS
  <2>2. u = [f \in 0 .. n |-> IF f = 0 THEN {<<0, 0>>} ELSE Sum(u[f - 1], OffsetsOf(F[f]))]
    BY <1>6, <2>1
  <2>3. QED
    BY <1>2, <2>2
<1>8. AreSums(sums, F)
  BY <1>7 DEF SumsOf
<1>9. sums = [f \in 0 .. n |-> IF f = 0 THEN {<<0, 0>>} ELSE Sum(sums[f - 1], OffsetsOf(F[f]))]
  BY <1>2, <1>8
<1> HIDE DEF sums
<1>10. sums[0] = {<<0, 0>>} /\ \A f \in 1 .. n : sums[f] = Sum(sums[f - 1], OffsetsOf(F[f]))
  <2>1. \A f \in 0 .. n : sums[f] = IF f = 0 THEN {<<0, 0>>} ELSE Sum(sums[f - 1], OffsetsOf(F[f]))
    BY <1>9, Zenon
  <2>2. 0 \in 0 .. n /\ \A f \in 1 .. n : f \in 0 .. n /\ f # 0
    BY <1>1
  <2>3. QED
    BY <2>1, <2>2
<1> DEFINE T == {i \in Nat : i <= n => sums[i] \in S}
<1>11. 0 \in T
  BY <1>4, <1>10
<1>12. ASSUME NEW i \in T PROVE i + 1 \in T
  <2>1. i \in Nat /\ (i <= n => sums[i] \in S)
    OBVIOUS
  <2>2. CASE i + 1 <= n
    <3>1. i + 1 \in 1 .. n /\ (i + 1) - 1 = i /\ i <= n
      BY <1>1, <2>1, <2>2
    <3>2. sums[i + 1] = Sum(sums[i], OffsetsOf(F[i + 1]))
      BY <1>10, <3>1
    <3>3. sums[i + 1] \in S
      BY <1>3, <2>1, <3>1, <3>2
    <3>4. QED
      BY <2>1, <3>3
  <2>3. CASE ~(i + 1 <= n)
    BY <2>1, <2>3
  <2>4. QED
    BY <2>2, <2>3
<1> HIDE DEF T
<1>13. T = Nat
  BY <1>11, <1>12, SetOfAllNaturals DEF T
<1>14. \A f \in 0 .. n : sums[f] \in S
  BY <1>13 DEF T
<1>15. \A f \in 0 .. n - 1 : f + 1 \in 1 .. n /\ (f + 1) - 1 = f
  BY <1>1
<1>16. sums \in [0 .. n -> S]
  BY <1>9, <1>14
<1>17. \A f \in 0 .. n - 1 : sums[f + 1] = Sum(sums[f], OffsetsOf(F[f + 1]))
  BY <1>10, <1>15
<1>18. QED
  BY <1>10, <1>16, <1>17 DEF sums, n

-----------------------------------------------------------------------------
(* The cells of a buffer, and those of the buffers of a chain. *)
Cells == PointsOf(BufferAt(<<0, 0>>))

Cell(q, origin) == Plus(q, origin, -1)

Small(b) == Width(b) <= job.tw /\ Height(b) <= job.th

LEMMA PointsAre ==
    ASSUME NEW b, b.x0 \in Int, b.x1 \in Int, b.y0 \in Int, b.y1 \in Int, NEW q
    PROVE  q \in PointsOf(b) <=> q = <<q[1], q[2]>> /\ q[1] \in Int /\ q[2] \in Int /\ Has(b, q)
<1>1. ASSUME q \in PointsOf(b)
      PROVE  q = <<q[1], q[2]>> /\ q[1] \in Int /\ q[2] \in Int /\ Has(b, q)
  <2>1. PICK x \in b.x0 .. b.x1 - 1, y \in b.y0 .. b.y1 - 1 : q = <<x, y>>
    BY <1>1 DEF PointsOf
  <2>2. q[1] = x /\ q[2] = y
    BY <2>1
  <2>3. QED
    BY <2>1, <2>2 DEF Has
<1>2. ASSUME q = <<q[1], q[2]>>, q[1] \in Int, q[2] \in Int, Has(b, q)
      PROVE  q \in PointsOf(b)
  <2>1. q[1] \in b.x0 .. b.x1 - 1 /\ q[2] \in b.y0 .. b.y1 - 1
    BY <1>2 DEF Has
  <2>2. QED
    BY <1>2, <2>1 DEF PointsOf
<1>3. QED
  BY <1>1, <1>2

LEMMA BufferIs ==
    ASSUME job \in Jobs, NEW origin \in Int \X Int
    PROVE  /\ BufferAt(origin) = [x0 |-> origin[1], y0 |-> origin[2],
                                  x1 |-> origin[1] + job.tw + 2 * ExtentX(job.se),
                                  y1 |-> origin[2] + job.th + 2 * ExtentY(job.se)]
           /\ \A q \in PointsOf(BufferAt(origin)) :
                 Cell(q, origin) \in Cells /\ Plus(origin, Cell(q, origin), 1) = q
<1> DEFINE X == ExtentX(job.se)
           Y == ExtentY(job.se)
           W == job.tw
           H == job.th
<1>1. X \in Int /\ Y \in Int /\ W \in Nat /\ H \in Nat
  BY JobIs
<1> HIDE DEF X, Y, W, H
<1>2. ASSUME NEW o \in Int \X Int
      PROVE  BufferAt(o) = [x0 |-> o[1], y0 |-> o[2], x1 |-> o[1] + W + 2 * X, y1 |-> o[2] + H + 2 * Y]
  <2>1. compute_input_region(job.se, Box(0, 0, job.tw, job.th))
          = [x0 |-> 0 - X, y0 |-> 0 - Y, x1 |-> (0 + W) + X, y1 |-> (0 + H) + Y]
    BY DEF compute_input_region, Inflate, Box, X, Y, W, H
  <2>2. BufferAt(o) = Box(o[1], o[2], (0 + W + X) - (0 - X), (0 + H + Y) - (0 - Y))
    BY <2>1 DEF BufferAt, Width, Height
  <2>3. (0 + W + X) - (0 - X) = W + 2 * X /\ (0 + H + Y) - (0 - Y) = H + 2 * Y
    BY <1>1
  <2>4. /\ o[1] + (W + 2 * X) = o[1] + W + 2 * X
        /\ o[2] + (H + 2 * Y) = o[2] + H + 2 * Y
    BY <1>1
  <2>5. QED
    BY <2>2, <2>3, <2>4 DEF Box
<1>3. BufferAt(<<0, 0>>) = [x0 |-> 0, y0 |-> 0, x1 |-> W + 2 * X, y1 |-> H + 2 * Y]
  BY <1>1, <1>2
<1>4. ASSUME NEW q \in PointsOf(BufferAt(origin))
      PROVE  Cell(q, origin) \in Cells /\ Plus(origin, Cell(q, origin), 1) = q
  <2>1. /\ q = <<q[1], q[2]>> /\ q[1] \in Int /\ q[2] \in Int
        /\ origin[1] <= q[1] /\ q[1] < origin[1] + W + 2 * X
        /\ origin[2] <= q[2] /\ q[2] < origin[2] + H + 2 * Y
    BY <1>1, <1>2 DEF PointsOf
  <2>2. Cell(q, origin) = <<q[1] - origin[1], q[2] - origin[2]>>
    BY <2>1 DEF Cell, Plus
  <2> DEFINE B == BufferAt(<<0, 0>>)
  <2>3. /\ 0 <= q[1] - origin[1] /\ q[1] - origin[1] < W + 2 * X
        /\ 0 <= q[2] - origin[2] /\ q[2] - origin[2] < H + 2 * Y
        /\ q[1] - origin[1] \in Int /\ q[2] - origin[2] \in Int
    BY <1>1, <2>1
  <2>7. B.x0 = 0 /\ B.y0 = 0 /\ B.x1 = W + 2 * X /\ B.y1 = H + 2 * Y
    BY <1>3
  <2>8. B.x0 \in Int /\ B.y0 \in Int /\ B.x1 \in Int /\ B.y1 \in Int
    BY <1>1, <2>7
  <2> HIDE DEF B
  <2>4. Cell(q, origin) \in Cells
    <3>1. Has(B, Cell(q, origin))
      BY <2>2, <2>3, <2>7 DEF Has
    <3>2. QED
      BY <2>2, <2>3, <2>8, <3>1, PointsAre DEF Cells, B
  <2>5. Plus(origin, Cell(q, origin), 1) = q
    BY <2>1, <2>2 DEF Plus
  <2>6. QED
    BY <2>4, <2>5
<1>5. QED
  BY <1>2, <1>4 DEF X, Y, W, H

(* The regions of a tile fit in the buffers. *)
LEMMA RegionsInBuffer ==
    ASSUME job \in Jobs, NEW tile, IsBox(tile), Small(tile),
           NEW region, AreRegions(region, Filters, tile)
    PROVE  /\ region[0] = compute_input_region(job.se, tile)
           /\ TopLeft(region[0]) \in Int \X Int
           /\ \A f \in 0 .. Len(Filters) :
                 /\ Includes(BufferAt(TopLeft(region[0])), region[f])
                 /\ PointsOf(region[f]) \subseteq PointsOf(BufferAt(TopLeft(region[0])))
<1> DEFINE X == ExtentX(job.se)
           Y == ExtentY(job.se)
           W == job.tw
           H == job.th
           b == region[0]
           o == TopLeft(b)
           B == BufferAt(o)
<1>1. X \in Int /\ Y \in Int /\ W \in Nat /\ H \in Nat /\ Len(Filters) \in Nat
  BY JobIs
<1>2. b = Inflate(tile, X, Y)
  BY BoxesAre, JobIs DEF Reaches
<1>3. /\ tile.x0 \in Int /\ tile.y0 \in Int /\ tile.x1 \in Int /\ tile.y1 \in Int
      /\ tile.x1 - tile.x0 <= W /\ tile.y1 - tile.y0 <= H
  BY DEF IsBox, Small, Width, Height
<1>6. \A f \in 0 .. Len(Filters) : IsBox(region[f]) /\ Includes(b, region[f])
  BY JobIs, RegionsShrink
<1>9. b = compute_input_region(job.se, tile)
  BY <1>2 DEF compute_input_region
<1> HIDE DEF X, Y, W, H, b
<1>4. b.x0 = tile.x0 - X /\ b.y0 = tile.y0 - Y /\ b.x1 = tile.x1 + X /\ b.y1 = tile.y1 + Y
  BY <1>2 DEF Inflate
<1>10. o[1] = b.x0 /\ o[2] = b.y0 /\ o \in Int \X Int
  BY <1>1, <1>3, <1>4 DEF TopLeft
<1> HIDE DEF o
<1>5. B = [x0 |-> o[1], y0 |-> o[2], x1 |-> o[1] + W + 2 * X, y1 |-> o[2] + H + 2 * Y]
  BY <1>10, BufferIs DEF X, Y, W, H
<1> HIDE DEF B
<1>11. B.x0 = b.x0 /\ B.y0 = b.y0 /\ B.x1 = b.x0 + W + 2 * X /\ B.y1 = b.y0 + H + 2 * Y
  BY <1>5, <1>10
<1>7. /\ b.x1 <= B.x1 /\ b.y1 <= B.y1
      /\ B.x0 \in Int /\ B.y0 \in Int /\ B.x1 \in Int /\ B.y1 \in Int
      /\ b.x0 \in Int /\ b.y0 \in Int /\ b.x1 \in Int /\ b.y1 \in Int
  <2>1. b.x0 \in Int /\ b.y0 \in Int /\ b.x1 \in Int /\ b.y1 \in Int
    <3>1. \A i, j \in Int : i - j \in Int /\ i + j \in Int
      OBVIOUS
    <3>2. QED
      BY <1>1, <1>3, <1>4, <3>1, Zenon
  <2>2. B.x0 \in Int /\ B.y0 \in Int /\ B.x1 \in Int /\ B.y1 \in Int
    <3>1. b.x0 + W + 2 * X \in Int /\ b.y0 + H + 2 * Y \in Int
      BY <1>1, <2>1
    <3>2. QED
      BY <1>11, <2>1, <3>1
  <2>3. tile.x1 + X <= (tile.x0 - X) + W + 2 * X
    BY <1>1, <1>3
  <2>4. tile.y1 + Y <= (tile.y0 - Y) + H + 2 * Y
    BY <1>1, <1>3
  <2>5. QED
    BY <1>4, <1>11, <2>1, <2>2, <2>3, <2>4
<1>8. ASSUME NEW f \in 0 .. Len(Filters)
      PROVE  Includes(B, region[f]) /\ PointsOf(region[f]) \subseteq PointsOf(B)
  <2> DEFINE c == region[f]
  <2>1. /\ c.x0 \in Int /\ c.x1 \in Int /\ c.y0 \in Int /\ c.y1 \in Int
        /\ b.x0 <= c.x0 /\ b.y0 <= c.y0 /\ c.x1 <= b.x1 /\ c.y1 <= b.y1
    BY <1>6 DEF IsBox, Includes
  <2> HIDE DEF c
  <2>2. B.x0 <= c.x0 /\ B.y0 <= c.y0 /\ c.x1 <= B.x1 /\ c.y1 <= B.y1
    BY <1>7, <1>11, <2>1
  <2>3. ASSUME NEW q \in PointsOf(c) PROVE q \in PointsOf(B)
    <3>1. q = <<q[1], q[2]>> /\ q[1] \in Int /\ q[2] \in Int /\ Has(c, q)
      BY <2>1, PointsAre
    <3>2. Has(B, q)
      <4>1. c.x0 <= q[1] /\ q[1] < c.x1 /\ c.y0 <= q[2] /\ q[2] < c.y1
        BY <3>1 DEF Has
      <4>2. B.x0 <= q[1] /\ q[1] < B.x1
        <5>1. B.x0 \in Int /\ B.x1 \in Int /\ c.x0 \in Int /\ c.x1 \in Int /\ q[1] \in Int
          BY <1>7, <2>1, <3>1, Zenon
        <5>2. B.x0 <= c.x0 /\ c.x1 <= B.x1 /\ c.x0 <= q[1] /\ q[1] < c.x1
          BY <2>2, <4>1, Zenon
        <5>3. QED
          BY <5>1, <5>2
      <4>3. B.y0 <= q[2] /\ q[2] < B.y1
        <5>1. B.y0 \in Int /\ B.y1 \in Int /\ c.y0 \in Int /\ c.y1 \in Int /\ q[2] \in Int
          BY <1>7, <2>1, <3>1, Zenon
        <5>2. B.y0 <= c.y0 /\ c.y1 <= B.y1 /\ c.y0 <= q[2] /\ q[2] < c.y1
          BY <2>2, <4>1, Zenon
        <5>3. QED
          BY <5>1, <5>2
      <4>4. QED
        BY <4>2, <4>3 DEF Has
    <3>3. QED
      BY <1>7, <3>1, <3>2, PointsAre
  <2>4. QED
    BY <2>2, <2>3 DEF Includes, c
<1>12. QED
  BY <1>8, <1>9, <1>10 DEF b, o, B

-----------------------------------------------------------------------------
(* The buffers of the chains all have the same cells. *)
BuffersOK ==
    \A c \in DOMAIN buffers : /\ DOMAIN buffers[c] = 0 .. 1
                              /\ \A b \in 0 .. 1 : DOMAIN buffers[c][b] = Cells

(* How far the work on a tile is: its region is the one the next filter is  *)
(* given.                                                                   *)
IsUnderWay(t) ==
    /\ Small(t.tile)
    /\ t.f \in 0 .. Len(Filters)
    /\ t.roi = RegionsOf(Filters, t.tile)[t.f]

WorkOK ==
    /\ \A t \in ranges : t.chain \in DOMAIN buffers /\ (~job.parallel => Small(t.region))
    /\ \A t \in running : t.chain \in DOMAIN buffers /\ IsUnderWay(t)

WorkInv == TasksInv /\ BuffersOK /\ WorkOK

LEMMA InputRegionIs ==
    \A tile : ChainInputRegion(tile) = RegionsOf(Filters, tile)[0]
BY DEF ChainInputRegion, RegionsOf, AreRegions

LEMMA RegionsAreThose ==
    ASSUME job \in Jobs, NEW tile, IsBox(tile)
    PROVE  AreRegions(RegionsOf(Filters, tile), Filters, tile)
<1>1. IsChain(Filters)
  BY JobIs
<1>2. tile \in Boxes
  BY BoxesAre
<1>3. QED
  BY <1>1, <1>2, RegionsExist

(* The invariant says what the property asks for. *)
LEMMA WorkFits == WorkInv => RegionsFit
<1> SUFFICES ASSUME WorkInv, NEW t \in running
             PROVE  /\ Includes(BufferAt(Origin(t)), t.roi)
                    /\ t.f = 0 => t.roi = compute_input_region(job.se, t.tile)
                    /\ t.f = Len(Filters) => t.roi = t.tile
  BY DEF RegionsFit
<1> DEFINE region == RegionsOf(Filters, t.tile)
<1>1. job \in Jobs /\ IsBox(t.tile)
  BY DEF WorkInv, TasksInv, TasksOK, Computes
<1>2. Small(t.tile) /\ t.f \in 0 .. Len(Filters) /\ t.roi = region[t.f]
  BY DEF WorkInv, WorkOK, IsUnderWay
<1>3. AreRegions(region, Filters, t.tile)
  BY <1>1, RegionsAreThose
<1>4. Origin(t) = TopLeft(region[0])
  BY InputRegionIs DEF Origin
<1>5. IsChain(Filters) /\ t.tile \in Boxes
  BY <1>1, JobIs, BoxesAre
<1> HIDE DEF region
<1>6. region[0] = compute_input_region(job.se, t.tile)
  BY <1>1, <1>2, <1>3, RegionsInBuffer
<1>7. Includes(BufferAt(TopLeft(region[0])), region[t.f])
  BY <1>1, <1>2, <1>3, RegionsInBuffer
<1>8. region[Len(Filters)] = t.tile
  BY <1>3, <1>5, RegionsAre
<1>9. QED
  BY <1>2, <1>4, <1>6, <1>7, <1>8

-----------------------------------------------------------------------------
(* What depends on the job alone does not change. *)
LEMMA JobStays ==
    ASSUME job' = job
    PROVE  /\ Filters' = Filters /\ Cells' = Cells
           /\ \A b : Small(b)' <=> Small(b)
           /\ \A t : IsUnderWay(t)' <=> IsUnderWay(t)
           /\ \A t : Origin(t)' = Origin(t)
           /\ \A q : Value(q)' = Value(q)
<1>1. Filters' = Filters
  BY DEF Filters
<1>2. \A q : BufferAt(q)' = BufferAt(q)
  BY DEF BufferAt
<1>3. Cells' = Cells
  BY <1>2 DEF Cells
<1>4. \A b : Small(b)' <=> Small(b)
  BY DEF Small
<1>5. \A t : IsUnderWay(t)' <=> IsUnderWay(t)
  BY <1>1, <1>4 DEF IsUnderWay
<1>6. \A t : Origin(t)' = Origin(t)
  BY <1>1 DEF Origin, ChainInputRegion
<1>7. \A q : Value(q)' = Value(q)
  BY DEF Value
<1>8. QED
  BY <1>1, <1>3, <1>4, <1>5, <1>6, <1>7

(* Two buffers of one chain, one of which is written. *)
LEMMA WriteIs ==
    ASSUME NEW F, NEW c \in DOMAIN F, NEW a \in DOMAIN F[c], NEW v,
           NEW G, G = [F EXCEPT ![c][a] = v]
    PROVE  /\ DOMAIN G = DOMAIN F
           /\ DOMAIN G[c] = DOMAIN F[c]
           /\ G[c][a] = v
           /\ \A b \in DOMAIN F[c] : b # a => G[c][b] = F[c][b]
           /\ \A d \in DOMAIN F : d # c => G[d] = F[d]
OBVIOUS

LEMMA WrittenIs ==
    ASSUME NEW buffer, NEW origin, NEW values
    PROVE  /\ DOMAIN Written(buffer, origin, values) = DOMAIN buffer
           /\ \A p \in DOMAIN buffer :
                 Plus(origin, p, 1) \in DOMAIN values =>
                     Written(buffer, origin, values)[p] = values[Plus(origin, p, 1)]
BY DEF Written

(* At the start: the tiles of the loops are not larger than a tile. *)
LEMMA LoopTilesAreSmall ==
    ASSUME NEW roi, IsBox(roi), NEW tw \in Nat \ {0}, NEW th \in Nat \ {0},
           NEW b \in SequentialTiles(roi, tw, th)
    PROVE  Width(b) <= tw /\ Height(b) <= th
<1> DEFINE LowerOf(x, y) == IF x < y THEN x ELSE y
           Starts == {q \in PointsOf(roi) : (q[1] - roi.x0) % tw = 0 /\ (q[2] - roi.y0) % th = 0}
           TileAt(q) == Box(q[1], q[2], LowerOf(tw, roi.x1 - q[1]), LowerOf(th, roi.y1 - q[2]))
<1>1. SequentialTiles(roi, tw, th) = {TileAt(q) : q \in Starts}
  BY DEF SequentialTiles
<1>2. \A q \in Starts : q[1] \in Int /\ q[2] \in Int
  BY DEF PointsOf, IsBox
<1>3. PICK q \in Starts : b = TileAt(q)
  BY <1>1
<1>4. q[1] \in Int /\ q[2] \in Int /\ roi.x1 \in Int /\ roi.y1 \in Int
  BY <1>2 DEF IsBox
<1> DEFINE w == LowerOf(tw, roi.x1 - q[1])
           h == LowerOf(th, roi.y1 - q[2])
<1>5. w \in Int /\ w <= tw /\ h \in Int /\ h <= th
  BY <1>4
<1>6. b = [x0 |-> q[1], y0 |-> q[2], x1 |-> q[1] + w, y1 |-> q[2] + h]
  BY <1>3 DEF Box
<1> HIDE DEF w, h
<1>7. Width(b) = (q[1] + w) - q[1] /\ Height(b) = (q[2] + h) - q[2]
  BY <1>6 DEF Width, Height
<1>8. QED
  BY <1>4, <1>5, <1>7

LEMMA WorkAtStart == TDInit => WorkInv
<1> SUFFICES ASSUME TDInit PROVE WorkInv
  OBVIOUS
<1>1. TasksInv /\ job \in Jobs /\ running = {}
  BY TasksAtStart DEF TDInit
<1>2. buffers = [c \in {job.out} |-> NewBuffers]
  BY DEF TDInit
<1>3. BuffersOK
  <2>1. DOMAIN NewBuffers = 0 .. 1 /\ \A b \in 0 .. 1 : DOMAIN NewBuffers[b] = Cells
    BY DEF NewBuffers, Cells
  <2>2. QED
    BY <1>2, <2>1 DEF BuffersOK
<1>4. ASSUME NEW t \in ranges
      PROVE  t.chain \in DOMAIN buffers /\ (~job.parallel => Small(t.region))
  <2>1. PICK r \in IF job.parallel THEN {job.out} ELSE SequentialTiles(job.out, job.tw, job.th) :
            t = [region |-> r, chain |-> job.out]
    BY DEF TDInit
  <2>2. t.region = r /\ t.chain = job.out
    BY <2>1
  <2>3. ASSUME ~job.parallel PROVE Small(r)
    <3>1. r \in SequentialTiles(job.out, job.tw, job.th)
      BY <2>1, <2>3
    <3>2. IsBox(job.out) /\ job.tw \in Nat \ {0} /\ job.th \in Nat \ {0}
      BY <1>1, TiledDilationAssumption
    <3>3. QED
      BY <3>1, <3>2, LoopTilesAreSmall DEF Small
  <2>4. QED
    BY <1>2, <2>2, <2>3
<1>5. WorkOK
  BY <1>1, <1>4 DEF WorkOK
<1>6. QED
  BY <1>1, <1>3, <1>5 DEF WorkInv

LEMMA SplitKeepsWork ==
    ASSUME WorkInv, NEW t \in ranges, Split(t)
    PROVE  WorkInv'
<1>1. job' = job /\ running' = running /\ job.parallel /\ job \in Jobs
  BY DEF Split, WorkInv, TasksInv
<1>2. TasksInv'
  BY SplitKeepsTasks DEF WorkInv
<1> DEFINE more == DOMAIN buffers \cup {ClonedChain(t)}
<1>3. buffers' = [c \in more |-> IF c \in DOMAIN buffers THEN buffers[c] ELSE NewBuffers]
  BY DEF Split
<1> HIDE DEF more
<1>4. DOMAIN buffers' = more
  BY <1>3
<1>5. BuffersOK'
  <2>1. DOMAIN NewBuffers = 0 .. 1 /\ \A b \in 0 .. 1 : DOMAIN NewBuffers[b] = Cells
    BY DEF NewBuffers, Cells
  <2>2. \A c \in more : buffers'[c] = IF c \in DOMAIN buffers THEN buffers[c] ELSE NewBuffers
    BY <1>3
  <2>3. \A c \in more : DOMAIN buffers'[c] = 0 .. 1 /\ \A b \in 0 .. 1 : DOMAIN buffers'[c][b] = Cells
    BY <2>1, <2>2 DEF WorkInv, BuffersOK
  <2>4. Cells' = Cells
    BY <1>1, JobStays
  <2>5. QED
    BY <1>4, <2>3, <2>4 DEF BuffersOK
<1>6. t = [region |-> t.region, chain |-> t.chain]
  BY DEF WorkInv, TasksInv, TasksOK
<1>7. ASSUME NEW u \in ranges' PROVE u.chain \in more
  <2>1. u \in ranges \/ u = [t EXCEPT !.region = LeftPart(t.region)]
        \/ u = [region |-> RightPart(t.region), chain |-> ClonedChain(t)]
    BY DEF Split
  <2>2. CASE u \in ranges
    BY <2>2 DEF WorkInv, WorkOK, more
  <2>3. CASE u = [t EXCEPT !.region = LeftPart(t.region)]
    <3>1. u.chain = t.chain
      BY <1>6, <2>3
    <3>2. QED
      BY <3>1 DEF WorkInv, WorkOK, more
  <2>4. CASE u = [region |-> RightPart(t.region), chain |-> ClonedChain(t)]
    BY <2>4 DEF more
  <2>5. QED
    BY <2>1, <2>2, <2>3, <2>4
<1>8. \A u \in running' : u.chain \in more /\ IsUnderWay(u)'
  <2>1. \A u \in running : u.chain \in DOMAIN buffers /\ IsUnderWay(u)
    BY DEF WorkInv, WorkOK
  <2>2. \A u : IsUnderWay(u)' <=> IsUnderWay(u)
    BY <1>1, JobStays
  <2>3. QED
    BY <1>1, <2>1, <2>2 DEF more
<1>9. WorkOK'
  BY <1>1, <1>4, <1>7, <1>8 DEF WorkOK
<1>10. QED
  BY <1>2, <1>5, <1>9 DEF WorkInv

(* A tile is loaded: what it becomes, and what its chain holds then. *)
LEMMA LoadIs ==
    ASSUME WorkInv, NEW t \in ranges, Load(t)
    PROVE  /\ job' = job /\ output' = output /\ ranges' = ranges \ {t} /\ job \in Jobs
           /\ t.chain \in DOMAIN buffers
           /\ IsBox(t.region) /\ Small(t.region)
           /\ \E n : /\ n.tile = t.region /\ n.chain = t.chain /\ n.f = 0
                    /\ n.roi = RegionsOf(Filters, t.region)[0]
                    /\ Origin(n) = TopLeft(n.roi)
                    /\ running' = running \cup {n}
                    /\ buffers' = [buffers EXCEPT ![t.chain][0] =
                                     Written(buffers[t.chain][0], TopLeft(n.roi), [q \in PointsOf(n.roi) |-> Value(q)])]
<1> DEFINE roi == ChainInputRegion(t.region)
<1>1. /\ job' = job /\ output' = output /\ ranges' = ranges \ {t}
      /\ ~(job.parallel /\ IsDivisible(t.region))
      /\ running' = running \cup {[tile |-> t.region, roi |-> roi, chain |-> t.chain, f |-> 0]}
      /\ buffers' = [buffers EXCEPT ![t.chain][0] =
                        Written(buffers[t.chain][0], TopLeft(roi), [q \in PointsOf(roi) |-> Value(q)])]
  BY DEF Load
<1>2. job \in Jobs /\ IsBox(t.region) /\ t.chain \in DOMAIN buffers
  BY DEF WorkInv, WorkOK, TasksInv, TasksOK, Computes
<1>3. Small(t.region)
  <2>1. CASE job.parallel
    <3>1. ~(Width(t.region) > job.tw) /\ ~(Height(t.region) > job.th)
      BY <1>1, <2>1 DEF IsDivisible
    <3>2. Width(t.region) \in Int /\ Height(t.region) \in Int
      BY <1>2 DEF IsBox, Width, Height
    <3>3. job.tw \in Int /\ job.th \in Int
      BY <1>2, TiledDilationAssumption
    <3>4. QED
      BY <3>1, <3>2, <3>3 DEF Small
  <2>2. CASE ~job.parallel
    BY <2>2 DEF WorkInv, WorkOK
  <2>3. QED
    BY <2>1, <2>2
<1> DEFINE n == [tile |-> t.region, roi |-> roi, chain |-> t.chain, f |-> 0]
<1>4. /\ n.tile = t.region /\ n.chain = t.chain /\ n.f = 0 /\ n.roi = roi
      /\ running' = running \cup {n}
  BY <1>1
<1> HIDE DEF n, roi
<1>5. roi = RegionsOf(Filters, t.region)[0] /\ Origin(n) = TopLeft(roi)
  BY <1>4, InputRegionIs DEF Origin, roi
<1>6. QED
  BY <1>1, <1>2, <1>3, <1>4, <1>5

LEMMA LoadKeepsWork ==
    ASSUME WorkInv, NEW t \in ranges, Load(t)
    PROVE  WorkInv'
<1>1. TasksInv'
  BY LoadKeepsTasks DEF WorkInv
<1>2. /\ job' = job /\ ranges' = ranges \ {t} /\ job \in Jobs
      /\ t.chain \in DOMAIN buffers /\ Small(t.region)
  BY LoadIs
<1>3. PICK n : /\ n.tile = t.region /\ n.chain = t.chain /\ n.f = 0
               /\ n.roi = RegionsOf(Filters, t.region)[0]
               /\ running' = running \cup {n}
               /\ buffers' = [buffers EXCEPT ![t.chain][0] =
                                Written(buffers[t.chain][0], TopLeft(n.roi), [q \in PointsOf(n.roi) |-> Value(q)])]
  BY LoadIs
<1>4. DOMAIN buffers[t.chain] = 0 .. 1 /\ 0 \in 0 .. 1 /\ DOMAIN buffers[t.chain][0] = Cells
  BY <1>2 DEF WorkInv, BuffersOK
<1> DEFINE v == Written(buffers[t.chain][0], TopLeft(n.roi), [q \in PointsOf(n.roi) |-> Value(q)])
<1>5. DOMAIN v = Cells /\ buffers' = [buffers EXCEPT ![t.chain][0] = v]
  BY <1>3, <1>4, WrittenIs
<1> HIDE DEF v
<1>6. /\ DOMAIN buffers' = DOMAIN buffers
      /\ DOMAIN buffers'[t.chain] = DOMAIN buffers[t.chain]
      /\ buffers'[t.chain][0] = v
      /\ \A b \in DOMAIN buffers[t.chain] : b # 0 => buffers'[t.chain][b] = buffers[t.chain][b]
      /\ \A d \in DOMAIN buffers : d # t.chain => buffers'[d] = buffers[d]
  BY <1>2, <1>4, <1>5, WriteIs
<1>7. BuffersOK'
  <2>1. ASSUME NEW c \in DOMAIN buffers
        PROVE  DOMAIN buffers'[c] = 0 .. 1 /\ \A b \in 0 .. 1 : DOMAIN buffers'[c][b] = Cells
    BY <1>4, <1>5, <1>6 DEF WorkInv, BuffersOK
  <2>2. Cells' = Cells
    BY <1>2, JobStays
  <2>3. QED
    BY <1>6, <2>1, <2>2 DEF BuffersOK
<1>8. IsUnderWay(n) /\ n.chain \in DOMAIN buffers
  <2>1. Len(Filters) \in Nat
    BY <1>2, JobIs
  <2>2. QED
    BY <1>2, <1>3, <2>1 DEF IsUnderWay
<1>9. \A u \in running' : u.chain \in DOMAIN buffers' /\ IsUnderWay(u)'
  <2>1. \A u : IsUnderWay(u)' <=> IsUnderWay(u)
    BY <1>2, JobStays
  <2>2. QED
    BY <1>3, <1>6, <1>8, <2>1 DEF WorkInv, WorkOK
<1>10. \A u \in ranges' : u.chain \in DOMAIN buffers' /\ (~job'.parallel => Small(u.region)')
  <2>1. \A b : Small(b)' <=> Small(b)
    BY <1>2, JobStays
  <2>2. QED
    BY <1>2, <1>6, <2>1 DEF WorkInv, WorkOK
<1>11. WorkOK'
  BY <1>9, <1>10 DEF WorkOK
<1>12. QED
  BY <1>1, <1>7, <1>11 DEF WorkInv

-----------------------------------------------------------------------------
(* The input of the next filter, as its chain holds it. *)
InputOf(t) ==
    [q \in PointsOf(BufferAt(Origin(t))) |-> buffers[t.chain][Aux(t)][Plus(q, Origin(t), -1)]]

(* Where the values of a filter are put. *)
ArePut(c, a, se, origin, values) ==
    buffers' = [buffers EXCEPT
        ![c][1 - a] = Written(@, origin, values),
        ![c][a] = IF RunsInPlace(se) THEN Written(@, origin, values) ELSE @]

(* A filter is run: the region its values are for, and where they are put. *)
HasRun(t, n, values) ==
    /\ n.tile = t.tile /\ n.chain = t.chain /\ n.f = t.f + 1
    /\ n.roi = RegionsOf(Filters, t.tile)[t.f + 1]
    /\ Origin(n) = Origin(t) /\ Aux(n) = 1 - Aux(t)
    /\ running' = (running \ {t}) \cup {n}
    /\ values = Filtered(Filters[t.f + 1], InputOf(t), n.roi)
    /\ ArePut(t.chain, Aux(t), Filters[t.f + 1], Origin(t), values)

LEMMA ExecuteIs ==
    ASSUME WorkInv, NEW t \in running, Execute(t)
    PROVE  /\ job' = job /\ output' = output /\ ranges' = ranges /\ job \in Jobs
           /\ t.chain \in DOMAIN buffers /\ t.f \in Nat /\ Aux(t) \in 0 .. 1
           /\ IsBox(t.tile) /\ Small(t.tile) /\ t.f + 1 \in 1 .. Len(Filters)
           /\ t.f \in 0 .. Len(Filters) - 1
           /\ \E n, values : HasRun(t, n, values)
<1> DEFINE se == Filters[t.f + 1]
           roi == compute_output_region(se, t.roi)
           n == [t EXCEPT !.roi = roi, !.f = @ + 1]
           values == Filtered(se, InputOf(t), roi)
           region == RegionsOf(Filters, t.tile)
<1>1. /\ job' = job /\ output' = output /\ ranges' = ranges
      /\ t.f < Len(Filters)
      /\ running' = (running \ {t}) \cup {n}
      /\ buffers' = [buffers EXCEPT
            ![t.chain][1 - Aux(t)] = Written(@, Origin(t), values),
            ![t.chain][Aux(t)] = IF RunsInPlace(se) THEN Written(@, Origin(t), values) ELSE @]
  BY DEF Execute, InputOf
<1>2. /\ job \in Jobs /\ IsBox(t.tile) /\ t.chain \in DOMAIN buffers
      /\ t = [tile |-> t.tile, roi |-> t.roi, chain |-> t.chain, f |-> t.f]
  BY DEF WorkInv, WorkOK, TasksInv, TasksOK, Computes
<1>3. Small(t.tile) /\ t.f \in 0 .. Len(Filters) /\ t.roi = region[t.f]
  BY DEF WorkInv, WorkOK, IsUnderWay
<1>4. /\ Len(Filters) \in Nat /\ IsChain(Filters)
      /\ \A f \in 1 .. Len(Filters) : IsFilter(Filters[f])
  BY <1>2, JobIs
<1>5. t.f \in Nat /\ t.f + 1 \in 1 .. Len(Filters) /\ t.f \in 0 .. Len(Filters) - 1
  BY <1>1, <1>3, <1>4
<1>6. n.tile = t.tile /\ n.chain = t.chain /\ n.f = t.f + 1 /\ n.roi = roi
  BY <1>2
<1> HIDE DEF n
<1>7. roi = region[t.f + 1]
  <2>1. AreRegions(region, Filters, t.tile) /\ t.tile \in Boxes
    BY <1>2, RegionsAreThose, BoxesAre
  <2> HIDE DEF region
  <2>2. region[t.f] = compute_input_region(se, region[t.f + 1])
    BY <1>4, <1>5, <2>1, RegionsAre
  <2>3. region[t.f + 1] \in Boxes
    <3>1. t.f + 1 \in 0 .. Len(Filters)
      BY <1>4, <1>5
    <3>2. IsBox(region[t.f + 1])
      BY <1>2, <1>4, <2>1, <3>1, RegionsShrink
    <3>3. QED
      BY <3>2, BoxesAre
  <2>4. IsFilter(se)
    BY <1>4, <1>5
  <2>5. QED
    BY <1>3, <2>2, <2>3, <2>4, ExtentsAre
<1>8. Aux(t) \in 0 .. 1 /\ Aux(n) = 1 - Aux(t)
  <2>1. Aux(t) = t.f % 2 /\ Aux(n) = (t.f + 1) % 2
    BY <1>6 DEF Aux
  <2>2. QED
    BY <1>5, <2>1
<1>9. Origin(n) = Origin(t)
  BY <1>6 DEF Origin
<1> HIDE DEF se, roi, region
<1>10. values = Filtered(se, InputOf(t), n.roi)
  BY <1>6
<1> HIDE DEF values
<1>13. ArePut(t.chain, Aux(t), se, Origin(t), values)
  BY <1>1 DEF ArePut
<1>11. HasRun(t, n, values)
  BY <1>1, <1>6, <1>7, <1>8, <1>9, <1>10, <1>13 DEF HasRun, se, region
<1>12. QED
  BY <1>1, <1>2, <1>3, <1>5, <1>8, <1>11

(* The buffers after a filter: the one of its output holds its values.       *)
LEMMA TwoWritesAre ==
    ASSUME NEW F, NEW c \in DOMAIN F, DOMAIN F[c] = 0 .. 1, NEW a \in 0 .. 1, NEW v, NEW w,
           NEW G, G = [F EXCEPT ![c][1 - a] = v, ![c][a] = w]
    PROVE  /\ DOMAIN G = DOMAIN F
           /\ DOMAIN G[c] = 0 .. 1
           /\ G[c][1 - a] = v /\ G[c][a] = w
           /\ \A d \in DOMAIN F : d # c => G[d] = F[d]
<1>1. 1 - a \in 0 .. 1 /\ 1 - a # a
  OBVIOUS
<1> DEFINE b == 1 - a
<1>2. b \in 0 .. 1 /\ b # a
  BY <1>1
<1> HIDE DEF b
<1> DEFINE E == [F EXCEPT ![c][b] = v]
<1>3. /\ DOMAIN E = DOMAIN F /\ DOMAIN E[c] = 0 .. 1 /\ E[c][b] = v
      /\ \A d \in DOMAIN F : d # c => E[d] = F[d]
  BY <1>2
<1>4. G = [E EXCEPT ![c][a] = w]
  BY DEF b
<1> HIDE DEF E
<1>5. /\ DOMAIN G = DOMAIN E /\ DOMAIN G[c] = DOMAIN E[c] /\ G[c][a] = w
      /\ \A d \in DOMAIN E[c] : d # a => G[c][d] = E[c][d]
      /\ \A d \in DOMAIN E : d # c => G[d] = E[d]
  BY <1>3, <1>4, WriteIs
<1>6. G[c][b] = v
  BY <1>2, <1>3, <1>5
<1>7. QED
  BY <1>3, <1>5, <1>6 DEF b

LEMMA ExecutedBuffersAre ==
    ASSUME BuffersOK, NEW c \in DOMAIN buffers, NEW a \in 0 .. 1, NEW se, NEW origin, NEW values,
           ArePut(c, a, se, origin, values)
    PROVE  /\ DOMAIN buffers' = DOMAIN buffers
           /\ DOMAIN buffers'[c] = 0 .. 1
           /\ buffers'[c][1 - a] = Written(buffers[c][1 - a], origin, values)
           /\ DOMAIN buffers'[c][1 - a] = Cells /\ DOMAIN buffers'[c][a] = Cells
           /\ \A d \in DOMAIN buffers : d # c => buffers'[d] = buffers[d]
<1> DEFINE v == Written(buffers[c][1 - a], origin, values)
           w == IF RunsInPlace(se) THEN Written(buffers[c][a], origin, values) ELSE buffers[c][a]
<1>1. 1 - a \in 0 .. 1 /\ 1 - a # a
  OBVIOUS
<1>2. DOMAIN buffers[c] = 0 .. 1 /\ DOMAIN buffers[c][a] = Cells /\ DOMAIN buffers[c][1 - a] = Cells
  BY <1>1 DEF BuffersOK
<1>3. DOMAIN v = Cells /\ DOMAIN w = Cells
  BY <1>2, WrittenIs
<1>4. buffers' = [buffers EXCEPT ![c][1 - a] = v, ![c][a] = w]
  BY <1>1 DEF ArePut
<1> HIDE DEF v, w
<1>5. /\ DOMAIN buffers' = DOMAIN buffers
      /\ DOMAIN buffers'[c] = 0 .. 1
      /\ buffers'[c][1 - a] = v /\ buffers'[c][a] = w
      /\ \A d \in DOMAIN buffers : d # c => buffers'[d] = buffers[d]
  BY <1>2, <1>4, TwoWritesAre
<1>6. QED
  BY <1>3, <1>5 DEF v

LEMMA ExecuteKeepsWork ==
    ASSUME WorkInv, NEW t \in running, Execute(t)
    PROVE  WorkInv'
<1>1. TasksInv'
  BY ExecuteKeepsTasks DEF WorkInv
<1>2. /\ job' = job /\ ranges' = ranges /\ job \in Jobs
      /\ t.chain \in DOMAIN buffers /\ Aux(t) \in 0 .. 1
      /\ Small(t.tile) /\ t.f + 1 \in 1 .. Len(Filters)
  BY ExecuteIs
<1>14. PICK n, values : HasRun(t, n, values)
  BY ExecuteIs
<1>3. /\ n.tile = t.tile /\ n.chain = t.chain /\ n.f = t.f + 1
      /\ n.roi = RegionsOf(Filters, t.tile)[t.f + 1]
      /\ running' = (running \ {t}) \cup {n}
      /\ ArePut(t.chain, Aux(t), Filters[t.f + 1], Origin(t), values)
  BY <1>14 DEF HasRun
<1>4. BuffersOK
  BY DEF WorkInv
<1> DEFINE c == t.chain
           a == Aux(t)
<1>5. c \in DOMAIN buffers /\ a \in 0 .. 1
  BY <1>2
<1>6. ArePut(c, a, Filters[t.f + 1], Origin(t), values)
  BY <1>3
<1> HIDE DEF c, a
<1>7. /\ DOMAIN buffers' = DOMAIN buffers
      /\ DOMAIN buffers'[c] = 0 .. 1
      /\ DOMAIN buffers'[c][1 - a] = Cells /\ DOMAIN buffers'[c][a] = Cells
      /\ \A d \in DOMAIN buffers : d # c => buffers'[d] = buffers[d]
  BY <1>4, <1>5, <1>6, ExecutedBuffersAre
<1>8. BuffersOK'
  <2>1. \A b \in 0 .. 1 : b = a \/ b = 1 - a
    BY <1>5
  <2>2. ASSUME NEW d \in DOMAIN buffers
        PROVE  DOMAIN buffers'[d] = 0 .. 1 /\ \A b \in 0 .. 1 : DOMAIN buffers'[d][b] = Cells
    <3>1. CASE d = c
      BY <1>7, <2>1, <3>1
    <3>2. CASE d # c
      BY <1>4, <1>7, <3>2 DEF BuffersOK
    <3>3. QED
      BY <3>1, <3>2
  <2>3. Cells' = Cells
    BY <1>2, JobStays
  <2>4. QED
    BY <1>7, <2>2, <2>3 DEF BuffersOK
<1>9. IsUnderWay(n) /\ n.chain \in DOMAIN buffers
  <2>1. Len(Filters) \in Nat
    BY <1>2, JobIs
  <2>2. t.f + 1 \in 0 .. Len(Filters)
    BY <1>2, <2>1
  <2>3. QED
    BY <1>2, <1>3, <2>2 DEF IsUnderWay
<1>10. \A u \in running' : u.chain \in DOMAIN buffers' /\ IsUnderWay(u)'
  <2>1. \A u : IsUnderWay(u)' <=> IsUnderWay(u)
    BY <1>2, JobStays
  <2>2. QED
    BY <1>3, <1>7, <1>9, <2>1 DEF WorkInv, WorkOK
<1>11. \A u \in ranges' : u.chain \in DOMAIN buffers' /\ (~job'.parallel => Small(u.region)')
  <2>1. \A b : Small(b)' <=> Small(b)
    BY <1>2, JobStays
  <2>2. QED
    BY <1>2, <1>7, <2>1 DEF WorkInv, WorkOK
<1>12. WorkOK'
  BY <1>10, <1>11 DEF WorkOK
<1>13. QED
  BY <1>1, <1>8, <1>12 DEF WorkInv

LEMMA WriteTileKeepsWork ==
    ASSUME WorkInv, NEW t \in running, WriteTile(t)
    PROVE  WorkInv'
<1>1. TasksInv'
  BY WriteTileKeepsTasks DEF WorkInv
<1>2. job' = job /\ ranges' = ranges /\ buffers' = buffers /\ running' = running \ {t}
  BY DEF WriteTile
<1>3. /\ Cells' = Cells /\ \A b : Small(b)' <=> Small(b)
      /\ \A u : IsUnderWay(u)' <=> IsUnderWay(u)
  BY <1>2, JobStays
<1>4. BuffersOK'
  BY <1>2, <1>3 DEF WorkInv, BuffersOK
<1>5. WorkOK'
  BY <1>2, <1>3 DEF WorkInv, WorkOK
<1>6. QED
  BY <1>1, <1>4, <1>5 DEF WorkInv

LEMMA WorkStutters ==
    ASSUME WorkInv, UNCHANGED vars
    PROVE  WorkInv'
<1>1. TasksInv'
  BY TasksStutter DEF WorkInv
<1>2. job' = job /\ ranges' = ranges /\ buffers' = buffers /\ running' = running
  BY DEF vars
<1>3. /\ Cells' = Cells /\ \A b : Small(b)' <=> Small(b)
      /\ \A u : IsUnderWay(u)' <=> IsUnderWay(u)
  BY <1>2, JobStays
<1>4. BuffersOK'
  BY <1>2, <1>3 DEF WorkInv, BuffersOK
<1>5. WorkOK'
  BY <1>2, <1>3 DEF WorkInv, WorkOK
<1>6. QED
  BY <1>1, <1>4, <1>5 DEF WorkInv

(***************************************************************************)
(* The regions the filters work on fit in the buffers of their chain, and  *)
(* the last one is the tile, whatever the element and its decomposition    *)
(* (FilterChain::ComputeInputRegion, se::disc).                            *)
(***************************************************************************)
THEOREM RegionsFitInBuffers == TDSpec => []RegionsFit
<1>1. TDInit => WorkInv
  BY WorkAtStart
<1>2. WorkInv /\ [TDNext]_vars => WorkInv'
  <2> SUFFICES ASSUME WorkInv, [TDNext]_vars PROVE WorkInv'
    OBVIOUS
  <2>1. CASE \E t \in ranges : Split(t) \/ Load(t)
    BY <2>1, SplitKeepsWork, LoadKeepsWork
  <2>2. CASE \E t \in running : Execute(t) \/ WriteTile(t)
    BY <2>2, ExecuteKeepsWork, WriteTileKeepsWork
  <2>3. CASE UNCHANGED vars
    BY <2>3, WorkStutters
  <2>4. QED
    BY <2>1, <2>2, <2>3 DEF TDNext
<1>3. WorkInv => RegionsFit
  BY WorkFits
<1>4. QED
  BY <1>1, <1>2, <1>3, PTL DEF TDSpec

-----------------------------------------------------------------------------
(* The supremum of the values around a pixel. *)
Dilated(offsets, q) == UNION {Value(Plus(q, d, 1)) : d \in offsets}

(* What the first filters of the chain have computed. *)
IsDilated(t, buffer) ==
    \A q \in PointsOf(t.roi) : buffer[Cell(q, Origin(t))] = Dilated(SumsOf(Filters)[t.f], q)

ContentsOK == \A t \in running : IsDilated(t, buffers[t.chain][Aux(t)])

(* A pixel that is not written belongs to a task that is not over. *)
Waits(q) ==
    \/ \E t \in ranges : q \in PointsOf(t.region)
    \/ \E t \in running : q \in PointsOf(t.tile)

OutputOK ==
    /\ DOMAIN output = PointsOf(job.out)
    /\ \A q \in PointsOf(job.out) : \/ output[q] = Dilated(Offsets, q)
                                    \/ output[q] = NONE /\ Waits(q)

ImageInv == WorkInv /\ ContentsOK /\ OutputOK

LEMMA OffsetsAreSums == Offsets = SumsOf(Filters)[Len(Filters)]
BY DEF Offsets, SumsOf, AreSums, SumAt

(* The invariant says what the property asks for. *)
LEMMA ImageIsExact == ImageInv => DilationIsExact
<1> SUFFICES ASSUME ImageInv, NEW q \in DOMAIN output
             PROVE  \/ output[q] = UNION {Value(Plus(q, d, 1)) : d \in Offsets}
                    \/ output[q] = NONE /\ ranges \cup running # {}
  BY DEF DilationIsExact
<1>1. output[q] = Dilated(Offsets, q) \/ (output[q] = NONE /\ Waits(q))
  BY DEF ImageInv, OutputOK
<1>2. Waits(q) => ranges \cup running # {}
  BY DEF Waits
<1>3. QED
  BY <1>1, <1>2 DEF Dilated

-----------------------------------------------------------------------------
(* One filter after the others: the offsets add up. *)
LEMMA DilatedTwice ==
    ASSUME NEW A, A \subseteq Int \X Int, NEW E, E \subseteq Int \X Int, NEW q \in Int \X Int
    PROVE  UNION {Dilated(A, Plus(q, e, 1)) : e \in E} = Dilated(Sum(A, E), q)
<1>1. \A d \in A, e \in E : Plus(Plus(q, e, 1), d, 1) = Plus(q, Plus(d, e, 1), 1)
  <2> SUFFICES ASSUME NEW d \in A, NEW e \in E
               PROVE  Plus(Plus(q, e, 1), d, 1) = Plus(q, Plus(d, e, 1), 1)
    OBVIOUS
  <2>1. /\ d[1] \in Int /\ d[2] \in Int /\ e[1] \in Int /\ e[2] \in Int
        /\ q[1] \in Int /\ q[2] \in Int
    OBVIOUS
  <2>2. Plus(q, e, 1) = <<q[1] + e[1], q[2] + e[2]>> /\ Plus(d, e, 1) = <<d[1] + e[1], d[2] + e[2]>>
    BY <2>1 DEF Plus
  <2>3. /\ Plus(Plus(q, e, 1), d, 1) = <<(q[1] + e[1]) + d[1], (q[2] + e[2]) + d[2]>>
        /\ Plus(q, Plus(d, e, 1), 1) = <<q[1] + (d[1] + e[1]), q[2] + (d[2] + e[2])>>
    BY <2>1, <2>2 DEF Plus
  <2>4. (q[1] + e[1]) + d[1] = q[1] + (d[1] + e[1]) /\ (q[2] + e[2]) + d[2] = q[2] + (d[2] + e[2])
    BY <2>1
  <2>5. QED
    BY <2>3, <2>4
<1>2. ASSUME NEW e \in E
      PROVE  Dilated(A, Plus(q, e, 1)) = UNION {Value(Plus(q, Plus(d, e, 1), 1)) : d \in A}
  BY <1>1 DEF Dilated
<1>3. ASSUME NEW x
      PROVE  x \in UNION {Dilated(A, Plus(q, e, 1)) : e \in E} <=>
                \E d \in A, e \in E : x \in Value(Plus(q, Plus(d, e, 1), 1))
  BY <1>2
<1>4. ASSUME NEW x
      PROVE  x \in Dilated(Sum(A, E), q) <=>
                \E d \in A, e \in E : x \in Value(Plus(q, Plus(d, e, 1), 1))
  BY DEF Dilated, Sum
<1>5. QED
  BY <1>3, <1>4

(* A box cut in two, and a region cut in the tiles of the loops. *)
LEMMA HalvesCover ==
    ASSUME NEW b, IsBox(b), NEW q \in PointsOf(b)
    PROVE  q \in PointsOf(LeftPart(b)) \/ q \in PointsOf(RightPart(b))
<1>1. /\ b.x0 \in Int /\ b.y0 \in Int /\ b.x1 \in Int /\ b.y1 \in Int
  BY DEF IsBox
<1>2. /\ q = <<q[1], q[2]>> /\ q[1] \in Int /\ q[2] \in Int
      /\ b.x0 <= q[1] /\ q[1] < b.x1 /\ b.y0 <= q[2] /\ q[2] < b.y1
  BY <1>1, PointsAre DEF Has
<1>3. Width(b) \in Int /\ Height(b) \in Int
  BY <1>1 DEF Width, Height
<1>4. MiddleX(b) \in Int /\ MiddleY(b) \in Int
  <2>1. \A w \in Int : w \div 2 \in Int
    OBVIOUS
  <2>2. QED
    BY <1>1, <1>3, <2>1 DEF MiddleX, MiddleY
<1>5. CASE CutsColumns(b)
  <2>1. /\ LeftPart(b) = [x0 |-> b.x0, y0 |-> b.y0, x1 |-> MiddleX(b), y1 |-> b.y1]
        /\ RightPart(b) = [x0 |-> MiddleX(b), y0 |-> b.y0, x1 |-> b.x1, y1 |-> b.y1]
    BY <1>5 DEF IsBox, LeftPart, RightPart
  <2> DEFINE m == MiddleX(b)
  <2>2. m \in Int
    BY <1>4
  <2>3. /\ PointsOf(LeftPart(b)) = {<<x, y>> : x \in b.x0 .. m - 1, y \in b.y0 .. b.y1 - 1}
        /\ PointsOf(RightPart(b)) = {<<x, y>> : x \in m .. b.x1 - 1, y \in b.y0 .. b.y1 - 1}
    BY <2>1 DEF PointsOf
  <2> HIDE DEF m
  <2>4. q[2] \in b.y0 .. b.y1 - 1 /\ (q[1] \in b.x0 .. m - 1 \/ q[1] \in m .. b.x1 - 1)
    BY <1>1, <1>2, <2>2
  <2>5. QED
    BY <1>2, <2>3, <2>4
<1>6. CASE ~CutsColumns(b)
  <2>1. /\ LeftPart(b) = [x0 |-> b.x0, y0 |-> b.y0, x1 |-> b.x1, y1 |-> MiddleY(b)]
        /\ RightPart(b) = [x0 |-> b.x0, y0 |-> MiddleY(b), x1 |-> b.x1, y1 |-> b.y1]
    BY <1>6 DEF IsBox, LeftPart, RightPart
  <2> DEFINE m == MiddleY(b)
  <2>2. m \in Int
    BY <1>4
  <2>3. /\ PointsOf(LeftPart(b)) = {<<x, y>> : x \in b.x0 .. b.x1 - 1, y \in b.y0 .. m - 1}
        /\ PointsOf(RightPart(b)) = {<<x, y>> : x \in b.x0 .. b.x1 - 1, y \in m .. b.y1 - 1}
    BY <2>1 DEF PointsOf
  <2> HIDE DEF m
  <2>4. q[1] \in b.x0 .. b.x1 - 1 /\ (q[2] \in b.y0 .. m - 1 \/ q[2] \in m .. b.y1 - 1)
    BY <1>1, <1>2, <2>2
  <2>5. QED
    BY <1>2, <2>3, <2>4
<1>7. QED
  BY <1>5, <1>6

LEMMA StartBefore ==
    ASSUME NEW a \in Int, NEW z \in Int, a <= z, NEW w \in Nat \ {0}
    PROVE  \E s \in Int : /\ a <= s /\ s <= z /\ z < s + w
                          /\ (s - a) % w = 0
<1> DEFINE k == (z - a) \div w
           r == (z - a) % w
<1>1. /\ k \in Int /\ r \in 0 .. w - 1 /\ z - a = w * k + r
  <2>1. z - a \in Int
    OBVIOUS
  <2>2. QED
    BY <2>1
<1> HIDE DEF k, r
<1>2. k \in Nat
  <2>1. ASSUME k < 0 PROVE FALSE
    <3>1. k <= -1
      BY <1>1, <2>1
    <3>2. -1 - k \in Nat /\ w * (-1 - k) \in Nat
      BY <1>1, <3>1
    <3>3. w * (-1 - k) = -w - w * k /\ w * k \in Int
      BY <1>1
    <3>4. QED
      BY <1>1, <3>2, <3>3
  <2>2. QED
    BY <1>1, <2>1
<1>3. w * k \in Nat
  BY <1>2
<1> DEFINE s == a + w * k
<1>4. s \in Int /\ a <= s /\ s <= z /\ z < s + w /\ s - a = w * k
  BY <1>1, <1>3
<1>5. (w * k) % w = 0
  <2>1. 0 \in 0 .. w - 1 /\ w * k \in Int /\ w * k = w * k + 0
    BY <1>3
  <2>2. QED
    BY <1>2, <2>1, RemainderIsUnique
<1>6. QED
  BY <1>4, <1>5

LEMMA LoopTilesCover ==
    ASSUME NEW roi, IsBox(roi), NEW tw \in Nat \ {0}, NEW th \in Nat \ {0}, NEW q \in PointsOf(roi)
    PROVE  \E b \in SequentialTiles(roi, tw, th) : q \in PointsOf(b)
<1> DEFINE LowerOf(x, y) == IF x < y THEN x ELSE y
           Starts == {r \in PointsOf(roi) : (r[1] - roi.x0) % tw = 0 /\ (r[2] - roi.y0) % th = 0}
           TileAt(r) == Box(r[1], r[2], LowerOf(tw, roi.x1 - r[1]), LowerOf(th, roi.y1 - r[2]))
<1>1. SequentialTiles(roi, tw, th) = {TileAt(r) : r \in Starts}
  BY DEF SequentialTiles
<1>2. roi.x0 \in Int /\ roi.y0 \in Int /\ roi.x1 \in Int /\ roi.y1 \in Int
  BY DEF IsBox
<1>3. /\ q = <<q[1], q[2]>> /\ q[1] \in Int /\ q[2] \in Int
      /\ roi.x0 <= q[1] /\ q[1] < roi.x1 /\ roi.y0 <= q[2] /\ q[2] < roi.y1
  BY <1>2, PointsAre DEF Has
<1>4. PICK x \in Int : roi.x0 <= x /\ x <= q[1] /\ q[1] < x + tw /\ (x - roi.x0) % tw = 0
  BY <1>2, <1>3, StartBefore
<1>5. PICK y \in Int : roi.y0 <= y /\ y <= q[2] /\ q[2] < y + th /\ (y - roi.y0) % th = 0
  BY <1>2, <1>3, StartBefore
<1> DEFINE r == <<x, y>>
           w == LowerOf(tw, roi.x1 - x)
           h == LowerOf(th, roi.y1 - y)
<1>6. r \in PointsOf(roi)
  <2>1. x \in roi.x0 .. roi.x1 - 1 /\ y \in roi.y0 .. roi.y1 - 1
    BY <1>2, <1>3, <1>4, <1>5
  <2>2. QED
    BY <2>1 DEF PointsOf
<1>7. r \in Starts
  BY <1>4, <1>5, <1>6
<1>8. w \in Int /\ h \in Int /\ q[1] < x + w /\ q[2] < y + h
  BY <1>2, <1>3, <1>4, <1>5
<1>9. TileAt(r) = [x0 |-> x, y0 |-> y, x1 |-> x + w, y1 |-> y + h]
  BY DEF Box
<1>10. PointsOf(TileAt(r)) = {<<u, v>> : u \in x .. (x + w) - 1, v \in y .. (y + h) - 1}
  BY <1>9 DEF PointsOf
<1> HIDE DEF w, h
<1>11. q[1] \in x .. (x + w) - 1 /\ q[2] \in y .. (y + h) - 1
  BY <1>3, <1>4, <1>5, <1>8
<1>12. q \in PointsOf(TileAt(r))
  BY <1>3, <1>10, <1>11
<1> HIDE DEF r, TileAt, Starts
<1>13. QED
  BY <1>1, <1>7, <1>12

-----------------------------------------------------------------------------
LEMMA ValuesStay ==
    ASSUME job' = job
    PROVE  /\ SumsOf(Filters)' = SumsOf(Filters)
           /\ \A offsets, q : Dilated(offsets, q)' = Dilated(offsets, q)
           /\ \A q : Dilated(Offsets, q)' = Dilated(Offsets, q)
<1>1. Filters' = Filters
  BY JobStays
<1>2. SumsOf(Filters)' = SumsOf(Filters)
  BY <1>1
<1>3. \A offsets, q : Dilated(offsets, q)' = Dilated(offsets, q)
  BY JobStays DEF Dilated
<1>4. Offsets' = Offsets
  BY <1>1 DEF Offsets
<1>5. \A q : Dilated(Offsets, q)' = Dilated(Offsets, q)
  BY <1>3, <1>4
<1>6. QED
  BY <1>2, <1>3, <1>5

LEMMA ContentsKept ==
    ASSUME job' = job, \A u \in running' : IsDilated(u, buffers'[u.chain][Aux(u)])
    PROVE  ContentsOK'
<1>1. \A t : Origin(t)' = Origin(t)
  BY JobStays
<1>2. SumsOf(Filters)' = SumsOf(Filters) /\ \A q : Value(q)' = Value(q)
  BY ValuesStay, JobStays
<1>3. ASSUME NEW u \in running', NEW q \in PointsOf(u.roi)
      PROVE  buffers'[u.chain][Aux(u)][Cell(q, Origin(u)')]
               = UNION {Value(Plus(q, d, 1))' : d \in SumsOf(Filters)'[u.f]}
  <2>1. buffers'[u.chain][Aux(u)][Cell(q, Origin(u))] = UNION {Value(Plus(q, d, 1)) : d \in SumsOf(Filters)[u.f]}
    BY DEF IsDilated, Dilated
  <2>2. {Value(Plus(q, d, 1))' : d \in SumsOf(Filters)[u.f]} = {Value(Plus(q, d, 1)) : d \in SumsOf(Filters)[u.f]}
    BY <1>2
  <2>3. QED
    BY <1>1, <1>2, <2>1, <2>2
<1>4. QED
  BY <1>3 DEF ContentsOK, IsDilated, Dilated

(* A pixel of the region of a task, and its cell. *)
LEMMA CellIs ==
    ASSUME job \in Jobs, NEW tile, IsBox(tile), Small(tile), NEW f \in 0 .. Len(Filters),
           NEW origin, origin = TopLeft(RegionsOf(Filters, tile)[0]),
           NEW q \in PointsOf(RegionsOf(Filters, tile)[f])
    PROVE  /\ Cell(q, origin) \in Cells
           /\ Plus(origin, Cell(q, origin), 1) = q
           /\ q \in PointsOf(BufferAt(origin))
           /\ q \in Int \X Int
<1> DEFINE region == RegionsOf(Filters, tile)
<1>1. AreRegions(region, Filters, tile)
  BY RegionsAreThose
<1>2. IsBox(region[f])
  BY <1>1, JobIs, RegionsShrink
<1> HIDE DEF region
<1>3. origin \in Int \X Int /\ PointsOf(region[f]) \subseteq PointsOf(BufferAt(origin))
  BY <1>1, RegionsInBuffer DEF region
<1>4. q \in PointsOf(BufferAt(origin))
  BY <1>3 DEF region
<1>5. Cell(q, origin) \in Cells /\ Plus(origin, Cell(q, origin), 1) = q
  BY <1>3, <1>4, BufferIs
<1>6. q \in Int \X Int
  BY <1>2 DEF IsBox, PointsOf, region
<1>7. QED
  BY <1>4, <1>5, <1>6

LEMMA LoadedIsDilated ==
    ASSUME job \in Jobs, NEW n, IsBox(n.tile), Small(n.tile), n.f = 0,
           n.roi = RegionsOf(Filters, n.tile)[0], Origin(n) = TopLeft(n.roi),
           NEW buffer, DOMAIN buffer = Cells
    PROVE  IsDilated(n, Written(buffer, TopLeft(n.roi), [q \in PointsOf(n.roi) |-> Value(q)]))
<1> DEFINE loaded == [q \in PointsOf(n.roi) |-> Value(q)]
           origin == TopLeft(n.roi)
<1> SUFFICES ASSUME NEW q \in PointsOf(n.roi)
             PROVE  Written(buffer, origin, loaded)[Cell(q, origin)] = Dilated(SumsOf(Filters)[0], q)
  BY DEF IsDilated
<1>1. 0 \in 0 .. Len(Filters) /\ IsChain(Filters)
  BY JobIs
<1>2. Cell(q, origin) \in Cells /\ Plus(origin, Cell(q, origin), 1) = q /\ q \in Int \X Int
  BY <1>1, CellIs
<1>3. DOMAIN loaded = PointsOf(n.roi) /\ loaded[q] = Value(q)
  OBVIOUS
<1> HIDE DEF loaded
<1>4. Written(buffer, origin, loaded)[Cell(q, origin)] = Value(q)
  BY <1>2, <1>3, WrittenIs
<1>5. SumsOf(Filters)[0] = {<<0, 0>>}
  BY <1>1, SumsExist
<1>6. Plus(q, <<0, 0>>, 1) = q
  <2>1. q = <<q[1], q[2]>> /\ q[1] \in Int /\ q[2] \in Int
    BY <1>2
  <2>2. q[1] + 1 * 0 = q[1] /\ q[2] + 1 * 0 = q[2]
    BY <2>1
  <2>3. QED
    BY <2>1, <2>2 DEF Plus
<1>7. Dilated({<<0, 0>>}, q) = Value(q)
  BY <1>6 DEF Dilated
<1>8. QED
  BY <1>4, <1>5, <1>7

(* The values a filter gives are those of the offsets so far and of its own. *)
LEMMA RunIsDilated ==
    ASSUME WorkInv, NEW t \in running, IsDilated(t, buffers[t.chain][Aux(t)]),
           Execute(t), NEW n, NEW values, HasRun(t, n, values)
    PROVE  IsDilated(n, buffers'[n.chain][Aux(n)])
<1> DEFINE f == t.f
           se == Filters[f + 1]
           origin == Origin(t)
           in == InputOf(t)
           region == RegionsOf(Filters, t.tile)
           buffer == buffers[t.chain][Aux(t)]
           A == SumsOf(Filters)[f]
           E == OffsetsOf(se)
<1>1. /\ job \in Jobs /\ IsBox(t.tile) /\ Small(t.tile)
      /\ f + 1 \in 1 .. Len(Filters) /\ f \in 0 .. Len(Filters) - 1 /\ f \in Nat
      /\ t.chain \in DOMAIN buffers /\ Aux(t) \in 0 .. 1
  BY ExecuteIs
<1>2. /\ n.chain = t.chain /\ n.f = f + 1 /\ n.roi = region[f + 1]
      /\ Origin(n) = origin /\ Aux(n) = 1 - Aux(t)
      /\ values = Filtered(se, in, n.roi)
      /\ ArePut(t.chain, Aux(t), se, origin, values)
  BY DEF HasRun
<1>3. t.roi = region[f]
  BY DEF WorkInv, WorkOK, IsUnderWay
<1>4. /\ Len(Filters) \in Nat /\ IsChain(Filters) /\ IsFilter(se)
      /\ f \in 0 .. Len(Filters) /\ f + 1 \in 0 .. Len(Filters)
  <2>1. Len(Filters) \in Nat /\ IsChain(Filters) /\ IsFilter(se)
    BY <1>1, JobIs
  <2>2. QED
    BY <1>1, <2>1
<1>5. AreRegions(region, Filters, t.tile) /\ t.tile \in Boxes
  BY <1>1, RegionsAreThose, BoxesAre
<1>6. region[f] = compute_input_region(se, region[f + 1])
  <2> HIDE DEF region
  <2>1. QED
    BY <1>1, <1>4, <1>5, RegionsAre
<1>7. IsBox(region[f + 1])
  BY <1>1, <1>4, <1>5, RegionsShrink
<1>8. origin = TopLeft(region[0])
  BY InputRegionIs DEF Origin
<1>9. A \subseteq Int \X Int /\ SumsOf(Filters)[f + 1] = Sum(A, E)
  <2>1. SumsOf(Filters) \in [0 .. Len(Filters) -> SUBSET (Int \X Int)]
    BY <1>4, SumsExist
  <2>2. SumsOf(Filters)[f + 1] = Sum(A, E)
    BY <1>1, <1>4, SumsExist
  <2>3. QED
    BY <1>4, <2>1, <2>2
<1>10. \A q \in PointsOf(BufferAt(origin)) : in[q] = buffer[Cell(q, origin)]
  BY DEF InputOf, Cell
<1>11. \A q \in PointsOf(region[f]) : buffer[Cell(q, origin)] = Dilated(A, q)
  BY <1>3 DEF IsDilated
<1>12. \A q \in PointsOf(region[f]) : in[q] = Dilated(A, q)
  <2> SUFFICES ASSUME NEW q \in PointsOf(region[f]) PROVE in[q] = Dilated(A, q)
    OBVIOUS
  <2>1. q \in PointsOf(BufferAt(origin))
    BY <1>1, <1>4, <1>8, CellIs
  <2>2. QED
    BY <1>10, <1>11, <2>1
<1>13. BuffersOK
  BY DEF WorkInv
<1>14. buffers'[t.chain][1 - Aux(t)] = Written(buffers[t.chain][1 - Aux(t)], origin, values)
  BY <1>1, <1>2, <1>13, ExecutedBuffersAre
<1>15. DOMAIN buffers[t.chain][1 - Aux(t)] = Cells
  <2>1. 1 - Aux(t) \in 0 .. 1
    BY <1>1
  <2>2. QED
    BY <1>1, <1>13, <2>1 DEF BuffersOK
<1>16. DOMAIN values = PointsOf(region[f + 1])
       /\ \A q \in PointsOf(region[f + 1]) : values[q] = UNION {in[Plus(q, e, 1)] : e \in E}
  <2>1. values = Filtered(se, in, region[f + 1])
    BY <1>2
  <2> HIDE DEF in, se, region, E
  <2>2. QED
    BY <1>4, <1>7, <2>1, FilterIs DEF E
<1> SUFFICES ASSUME NEW q \in PointsOf(region[f + 1])
             PROVE  buffers'[t.chain][1 - Aux(t)][Cell(q, origin)] = Dilated(Sum(A, E), q)
  BY <1>2, <1>9 DEF IsDilated
<1>17. Cell(q, origin) \in Cells /\ Plus(origin, Cell(q, origin), 1) = q /\ q \in Int \X Int
  BY <1>1, <1>4, <1>8, CellIs
<1>18. \A e \in E : e \in Int \X Int /\ Plus(q, e, 1) \in PointsOf(region[f])
  BY <1>4, <1>6, <1>7, WindowFits
<1> HIDE DEF in, se, region, E, A, buffer, origin
<1>19. values[q] = UNION {Dilated(A, Plus(q, e, 1)) : e \in E}
  <2>1. \A e \in E : in[Plus(q, e, 1)] = Dilated(A, Plus(q, e, 1))
    BY <1>12, <1>18
  <2>2. {in[Plus(q, e, 1)] : e \in E} = {Dilated(A, Plus(q, e, 1)) : e \in E}
    BY <2>1
  <2>3. QED
    BY <1>16, <2>2
<1>20. E \subseteq Int \X Int
  BY <1>18
<1>21. values[q] = Dilated(Sum(A, E), q)
  BY <1>9, <1>17, <1>19, <1>20, DilatedTwice
<1>22. Written(buffers[t.chain][1 - Aux(t)], origin, values)[Cell(q, origin)] = values[q]
  BY <1>15, <1>16, <1>17, WrittenIs
<1>23. QED
  BY <1>14, <1>21, <1>22

-----------------------------------------------------------------------------
LEMMA ImageAtStart == TDInit => ImageInv
<1> SUFFICES ASSUME TDInit PROVE ImageInv
  OBVIOUS
<1>1. WorkInv /\ job \in Jobs /\ running = {}
  BY WorkAtStart DEF TDInit
<1>2. ContentsOK
  BY <1>1 DEF ContentsOK
<1> DEFINE First == IF job.parallel THEN {job.out} ELSE SequentialTiles(job.out, job.tw, job.th)
<1>3. /\ ranges = {[region |-> r, chain |-> job.out] : r \in First}
      /\ output = [q \in PointsOf(job.out) |-> NONE]
  BY DEF TDInit
<1>4. IsBox(job.out) /\ job.tw \in Nat \ {0} /\ job.th \in Nat \ {0}
  BY <1>1, TiledDilationAssumption
<1>5. ASSUME NEW q \in PointsOf(job.out) PROVE \E r \in First : q \in PointsOf(r)
  <2>1. CASE job.parallel
    BY <2>1
  <2>2. CASE ~job.parallel
    BY <1>4, <2>2, LoopTilesCover
  <2>3. QED
    BY <2>1, <2>2
<1> HIDE DEF First
<1>6. ASSUME NEW q \in PointsOf(job.out) PROVE output[q] = NONE /\ Waits(q)
  <2>1. PICK r \in First : q \in PointsOf(r)
    BY <1>5
  <2>2. PICK t \in ranges : t = [region |-> r, chain |-> job.out]
    BY <1>3
  <2>3. t.region = r
    BY <2>2
  <2>4. QED
    BY <1>3, <2>1, <2>3 DEF Waits
<1>7. OutputOK
  BY <1>3, <1>6 DEF OutputOK
<1>8. QED
  BY <1>1, <1>2, <1>7 DEF ImageInv

(* What waits for the pixels that are not written. *)
LEMMA OutputStays ==
    ASSUME OutputOK, job' = job, output' = output,
           \A q \in PointsOf(job.out) : Waits(q) => Waits(q)'
    PROVE  OutputOK'
<1>1. \A q : Dilated(Offsets, q)' = Dilated(Offsets, q)
  BY ValuesStay
<1>2. NONE' = NONE
  BY DEF NONE
<1>3. QED
  BY <1>1, <1>2 DEF OutputOK

LEMMA SplitKeepsImage ==
    ASSUME ImageInv, NEW t \in ranges, Split(t)
    PROVE  ImageInv'
<1>1. WorkInv'
  BY SplitKeepsWork DEF ImageInv
<1>2. job' = job /\ running' = running /\ output' = output
  BY DEF Split
<1> DEFINE more == DOMAIN buffers \cup {ClonedChain(t)}
<1>3. buffers' = [c \in more |-> IF c \in DOMAIN buffers THEN buffers[c] ELSE NewBuffers]
  BY DEF Split
<1>4. \A c \in DOMAIN buffers : buffers'[c] = buffers[c]
  BY <1>3
<1> HIDE DEF more
<1>5. ContentsOK'
  <2>1. ASSUME NEW u \in running PROVE IsDilated(u, buffers'[u.chain][Aux(u)])
    <3>1. u.chain \in DOMAIN buffers /\ IsDilated(u, buffers[u.chain][Aux(u)])
      BY DEF ImageInv, WorkInv, WorkOK, ContentsOK
    <3>2. IsDilated(u, buffers'[u.chain][Aux(u)])
      BY <1>4, <3>1
    <3>3. QED
      BY <3>2
  <2>2. QED
    BY <1>2, <2>1, ContentsKept
<1>6. IsBox(t.region) /\ t = [region |-> t.region, chain |-> t.chain]
  BY DEF ImageInv, WorkInv, TasksInv, TasksOK, Computes
<1>7. ASSUME NEW q \in PointsOf(job.out), Waits(q) PROVE Waits(q)'
  <2>1. CASE \E u \in running : q \in PointsOf(u.tile)
    BY <1>2, <2>1 DEF Waits
  <2>2. CASE \E u \in ranges \ {t} : q \in PointsOf(u.region)
    BY <2>2 DEF Waits, Split
  <2>3. CASE q \in PointsOf(t.region)
    <3>1. PICK u, v : /\ u = [t EXCEPT !.region = LeftPart(t.region)]
                      /\ v = [region |-> RightPart(t.region), chain |-> ClonedChain(t)]
      OBVIOUS
    <3>2. u \in ranges' /\ v \in ranges'
      BY <3>1 DEF Split
    <3>3. u.region = LeftPart(t.region) /\ v.region = RightPart(t.region)
      BY <1>6, <3>1
    <3>4. QED
      BY <1>6, <2>3, <3>2, <3>3, HalvesCover DEF Waits
  <2>4. QED
    BY <1>7, <2>1, <2>2, <2>3 DEF Waits
<1>8. OutputOK'
  BY <1>2, <1>7, OutputStays DEF ImageInv
<1>9. QED
  BY <1>1, <1>5, <1>8 DEF ImageInv

(* The other tasks under way have other chains, whose buffers stay. *)
LEMMA OthersStay ==
    ASSUME ImageInv, NEW c, NEW u \in running, u.chain # c,
           \A d \in DOMAIN buffers : d # c => buffers'[d] = buffers[d]
    PROVE  IsDilated(u, buffers'[u.chain][Aux(u)])
<1>1. u.chain \in DOMAIN buffers /\ IsDilated(u, buffers[u.chain][Aux(u)])
  BY DEF ImageInv, WorkInv, WorkOK, ContentsOK
<1>2. QED
  BY <1>1

LEMMA LoadKeepsImage ==
    ASSUME ImageInv, NEW t \in ranges, Load(t)
    PROVE  ImageInv'
<1>1. WorkInv /\ WorkInv'
  BY LoadKeepsWork DEF ImageInv
<1>2. /\ job' = job /\ output' = output /\ ranges' = ranges \ {t} /\ job \in Jobs
      /\ t.chain \in DOMAIN buffers /\ IsBox(t.region) /\ Small(t.region)
  BY <1>1, LoadIs
<1>3. PICK n : /\ n.tile = t.region /\ n.chain = t.chain /\ n.f = 0
               /\ n.roi = RegionsOf(Filters, t.region)[0]
               /\ Origin(n) = TopLeft(n.roi)
               /\ running' = running \cup {n}
               /\ buffers' = [buffers EXCEPT ![t.chain][0] =
                                Written(buffers[t.chain][0], TopLeft(n.roi), [q \in PointsOf(n.roi) |-> Value(q)])]
  BY <1>1, LoadIs
<1>4. DOMAIN buffers[t.chain] = 0 .. 1 /\ 0 \in 0 .. 1 /\ DOMAIN buffers[t.chain][0] = Cells
  BY <1>1, <1>2 DEF WorkInv, BuffersOK
<1> DEFINE v == Written(buffers[t.chain][0], TopLeft(n.roi), [q \in PointsOf(n.roi) |-> Value(q)])
<1>5. IsDilated(n, v)
  BY <1>2, <1>3, <1>4, LoadedIsDilated
<1>6. buffers' = [buffers EXCEPT ![t.chain][0] = v]
  BY <1>3
<1> HIDE DEF v
<1>7. /\ buffers'[t.chain][0] = v
      /\ \A d \in DOMAIN buffers : d # t.chain => buffers'[d] = buffers[d]
  BY <1>2, <1>4, <1>6, WriteIs
<1>8. Aux(n) = 0
  BY <1>3 DEF Aux
<1>9. IsDilated(n, buffers'[n.chain][Aux(n)])
  BY <1>3, <1>5, <1>7, <1>8
<1>10. ASSUME NEW u \in running PROVE u.chain # t.chain
  <2>1. job.parallel
    BY DEF Load, IsNext
  <2>2. TilesAreExclusive
    BY <1>1, TasksAreExclusive DEF WorkInv
  <2>3. QED
    BY <2>1, <2>2 DEF TilesAreExclusive
<1>11. \A u \in running : IsDilated(u, buffers'[u.chain][Aux(u)])
  BY <1>7, <1>10, OthersStay
<1>12. ContentsOK'
  BY <1>2, <1>3, <1>9, <1>11, ContentsKept
<1>13. \A q \in PointsOf(job.out) : Waits(q) => Waits(q)'
  BY <1>2, <1>3 DEF Waits
<1>14. OutputOK'
  BY <1>2, <1>13, OutputStays DEF ImageInv
<1>15. QED
  BY <1>1, <1>12, <1>14 DEF ImageInv

LEMMA ExecuteKeepsImage ==
    ASSUME ImageInv, NEW t \in running, Execute(t)
    PROVE  ImageInv'
<1>1. WorkInv /\ WorkInv'
  BY ExecuteKeepsWork DEF ImageInv
<1>2. /\ job' = job /\ output' = output /\ ranges' = ranges /\ job \in Jobs
      /\ t.chain \in DOMAIN buffers /\ Aux(t) \in 0 .. 1
  BY <1>1, ExecuteIs
<1>3. PICK n, values : HasRun(t, n, values)
  BY <1>1, ExecuteIs
<1>4. /\ n.tile = t.tile /\ n.chain = t.chain /\ running' = (running \ {t}) \cup {n}
      /\ ArePut(t.chain, Aux(t), Filters[t.f + 1], Origin(t), values)
  BY <1>3 DEF HasRun
<1>5. IsDilated(n, buffers'[n.chain][Aux(n)])
  <2>1. IsDilated(t, buffers[t.chain][Aux(t)])
    BY DEF ImageInv, ContentsOK
  <2>2. QED
    BY <1>1, <1>3, <2>1, RunIsDilated
<1>6. \A d \in DOMAIN buffers : d # t.chain => buffers'[d] = buffers[d]
  BY <1>1, <1>2, <1>4, ExecutedBuffersAre DEF WorkInv
<1>7. \A u \in running \ {t} : u.chain # t.chain
  <2>1. TilesAreExclusive
    BY <1>1, TasksAreExclusive DEF WorkInv
  <2>2. QED
    BY <2>1 DEF TilesAreExclusive
<1>8. \A u \in running \ {t} : IsDilated(u, buffers'[u.chain][Aux(u)])
  BY <1>6, <1>7, OthersStay
<1>10. ContentsOK'
  BY <1>2, <1>4, <1>5, <1>8, ContentsKept
<1>11. \A q \in PointsOf(job.out) : Waits(q) => Waits(q)'
  BY <1>2, <1>4 DEF Waits
<1>12. OutputOK'
  BY <1>2, <1>11, OutputStays DEF ImageInv
<1>13. QED
  BY <1>1, <1>10, <1>12 DEF ImageInv

(* The pixels of the tile are written; the others wait as before. *)
LEMMA WriteTileKeepsImage ==
    ASSUME ImageInv, NEW t \in running, WriteTile(t)
    PROVE  ImageInv'
<1>1. WorkInv /\ WorkInv'
  BY WriteTileKeepsWork DEF ImageInv
<1>2. /\ job' = job /\ ranges' = ranges /\ buffers' = buffers /\ running' = running \ {t}
      /\ t.f = Len(Filters)
      /\ output' = [q \in DOMAIN output |-> IF Has(t.roi, q) THEN buffers[t.chain][Aux(t)][Cell(q, Origin(t))]
                                                            ELSE output[q]]
  BY DEF WriteTile, Cell
<1>3. ContentsOK'
  <2>1. \A u \in running' : IsDilated(u, buffers'[u.chain][Aux(u)])
    BY <1>2 DEF ImageInv, ContentsOK
  <2>2. QED
    BY <1>2, <2>1, ContentsKept
<1>4. job \in Jobs /\ IsBox(t.tile) /\ IsBox(job.out)
  BY <1>1, TiledDilationAssumption DEF WorkInv, TasksInv, TasksOK, Computes
<1>5. t.roi = t.tile
  <2>1. RegionsFit
    BY <1>1, WorkFits
  <2>2. QED
    BY <1>2, <2>1 DEF RegionsFit
<1>6. OutputOK
  BY DEF ImageInv
<1>7. DOMAIN output = PointsOf(job.out) /\ DOMAIN output' = PointsOf(job.out)
  BY <1>2, <1>6 DEF OutputOK
<1>8. ASSUME NEW q \in PointsOf(job.out)
      PROVE  output'[q] = Dilated(Offsets, q) \/ (output'[q] = NONE /\ Waits(q)')
  <2>1. q = <<q[1], q[2]>> /\ q[1] \in Int /\ q[2] \in Int
    BY <1>4, PointsAre DEF IsBox
  <2>2. q \in PointsOf(t.tile) <=> Has(t.roi, q)
    BY <1>4, <1>5, <2>1, PointsAre DEF IsBox
  <2>3. CASE Has(t.roi, q)
    <3>1. output'[q] = buffers[t.chain][Aux(t)][Cell(q, Origin(t))]
      BY <1>2, <1>7, <2>3
    <3>2. IsDilated(t, buffers[t.chain][Aux(t)])
      BY DEF ImageInv, ContentsOK
    <3>3. q \in PointsOf(t.roi)
      BY <1>5, <2>2, <2>3
    <3>4. buffers[t.chain][Aux(t)][Cell(q, Origin(t))] = Dilated(SumsOf(Filters)[t.f], q)
      BY <3>2, <3>3 DEF IsDilated
    <3>5. QED
      BY <1>2, <3>1, <3>4, OffsetsAreSums
  <2>4. CASE ~Has(t.roi, q)
    <3>1. output'[q] = output[q]
      BY <1>2, <1>7, <2>4
    <3>2. output[q] = Dilated(Offsets, q) \/ (output[q] = NONE /\ Waits(q))
      BY <1>6 DEF OutputOK
    <3>3. Waits(q) => Waits(q)'
      BY <1>2, <2>2, <2>4 DEF Waits
    <3>4. QED
      BY <3>1, <3>2, <3>3
  <2>5. QED
    BY <2>3, <2>4
<1>9. OutputOK'
  <2>1. NONE' = NONE
    BY DEF NONE
  <2>2. \A q : Dilated(Offsets, q)' = Dilated(Offsets, q)
    BY <1>2, ValuesStay
  <2>3. QED
    BY <1>2, <1>7, <1>8, <2>1, <2>2 DEF OutputOK
<1>10. QED
  BY <1>1, <1>3, <1>9 DEF ImageInv

LEMMA ImageStutters ==
    ASSUME ImageInv, UNCHANGED vars
    PROVE  ImageInv'
<1>1. WorkInv'
  BY WorkStutters DEF ImageInv
<1>2. job' = job /\ ranges' = ranges /\ buffers' = buffers /\ running' = running /\ output' = output
  BY DEF vars
<1>3. ContentsOK'
  <2>1. \A u \in running' : IsDilated(u, buffers'[u.chain][Aux(u)])
    BY <1>2 DEF ImageInv, ContentsOK
  <2>2. QED
    BY <1>2, <2>1, ContentsKept
<1>4. OutputOK'
  BY <1>2, OutputStays DEF ImageInv, Waits
<1>5. QED
  BY <1>1, <1>3, <1>4 DEF ImageInv

(***************************************************************************)
(* The output is the dilation of the image by the whole element, whatever  *)
(* the image, its decomposition, the size of the tiles, the way the region *)
(* is split and the order of the tasks: a pixel holds the supremum of its  *)
(* window, or a task that is not over is to write it (dilation2d).         *)
(***************************************************************************)
THEOREM OutputIsDilation == TDSpec => []DilationIsExact
<1>1. TDInit => ImageInv
  BY ImageAtStart
<1>2. ImageInv /\ [TDNext]_vars => ImageInv'
  <2> SUFFICES ASSUME ImageInv, [TDNext]_vars PROVE ImageInv'
    OBVIOUS
  <2>1. CASE \E t \in ranges : Split(t) \/ Load(t)
    BY <2>1, SplitKeepsImage, LoadKeepsImage
  <2>2. CASE \E t \in running : Execute(t) \/ WriteTile(t)
    BY <2>2, ExecuteKeepsImage, WriteTileKeepsImage
  <2>3. CASE UNCHANGED vars
    BY <2>3, ImageStutters
  <2>4. QED
    BY <2>1, <2>2, <2>3 DEF TDNext
<1>3. ImageInv => DilationIsExact
  BY ImageIsExact
<1>4. QED
  BY <1>1, <1>2, <1>3, PTL DEF TDSpec
=============================================================================
