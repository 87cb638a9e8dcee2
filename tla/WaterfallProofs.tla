---------------------------- MODULE WaterfallProofs ----------------------------
(***************************************************************************)
(* Proofs about the waterfall, for every image and every markers: the      *)
(* labels of the regional minima, the components of the markers, and the   *)
(* graph the flooding leaves, whose edges keep the passes of the image.    *)
(***************************************************************************)
EXTENDS Waterfall, DataLemmas, SequenceTheorems

-----------------------------------------------------------------------------
(* The ranks of the points and the forest of the flat zones. *)

(* The rank of a point in the scan. *)
At(x) == CHOOSE a \in DOMAIN Raster : Raster[a] = x

LEMMA RanksAre ==
    /\ Len(Raster) \in Nat \ {0}
    /\ \A a \in 1 .. Len(Raster) : Raster[a] \in Point /\ At(Raster[a]) = a
    /\ \A x \in Point : At(x) \in 1 .. Len(Raster) /\ Raster[At(x)] = x
    /\ \A x, y \in Point : Precedes(x, y) <=> At(x) < At(y)
<1>1. Raster \in Seq(Point) /\ Raster # <<>> /\ DOMAIN Raster = 1 .. Len(Raster)
  BY LocalMinimaAssumption
<1>2. Len(Raster) \in Nat \ {0} /\ \A a \in 1 .. Len(Raster) : Raster[a] \in Point
  BY <1>1, EmptySeq
<1>3. \A x \in Point : At(x) \in 1 .. Len(Raster) /\ Raster[At(x)] = x
  <2> SUFFICES ASSUME NEW x \in Point PROVE At(x) \in 1 .. Len(Raster) /\ Raster[At(x)] = x
    OBVIOUS
  <2>1. \E a \in DOMAIN Raster : Raster[a] = x
    BY LocalMinimaAssumption
  <2>2. QED
    BY <1>1, <2>1 DEF At
<1>4. \A a, b \in 1 .. Len(Raster) : Precedes(Raster[a], Raster[b]) <=> a < b
  BY <1>1, LocalMinimaAssumption
<1>5. \A a \in 1 .. Len(Raster) : At(Raster[a]) = a
  <2> SUFFICES ASSUME NEW a \in 1 .. Len(Raster) PROVE At(Raster[a]) = a
    OBVIOUS
  <2> DEFINE b == At(Raster[a])
  <2>1. b \in 1 .. Len(Raster) /\ Raster[b] = Raster[a]
    BY <1>2, <1>3
  <2> HIDE DEF b
  <2>2. ~(a < b) /\ ~(b < a)
    BY <1>4, <2>1
  <2>3. b = a
    BY <1>2, <2>1, <2>2
  <2>4. QED
    BY <2>3 DEF b
<1>6. QED
  BY <1>2, <1>3, <1>4, <1>5

LEMMA PointsAreFinite == IsFiniteSet(Point) /\ Cardinality(Point) = Len(Raster)
<1> DEFINE g == [x \in Point |-> At(x) - 1]
           n == Len(Raster)
<1>1. n \in Nat
  BY RanksAre
<1>2. g \in [Point -> 0 .. n - 1]
  BY RanksAre
<1>3. \A a, b \in Point : g[a] = g[b] => a = b
  <2> SUFFICES ASSUME NEW a \in Point, NEW b \in Point, g[a] = g[b] PROVE a = b
    OBVIOUS
  <2>1. At(a) \in 1 .. n /\ At(b) \in 1 .. n /\ Raster[At(a)] = a /\ Raster[At(b)] = b
    BY RanksAre
  <2>2. At(a) - 1 = At(b) - 1
    OBVIOUS
  <2> HIDE DEF n
  <2>3. At(a) = At(b)
    BY <1>1, <2>1, <2>2
  <2>4. QED
    BY <2>1, <2>3
<1>4. \A v \in 0 .. n - 1 : \E a \in Point : g[a] = v
  <2> SUFFICES ASSUME NEW v \in 0 .. n - 1 PROVE \E a \in Point : g[a] = v
    OBVIOUS
  <2>1. v + 1 \in 1 .. n
    BY <1>1
  <2>2. Raster[v + 1] \in Point /\ At(Raster[v + 1]) = v + 1
    BY <2>1, RanksAre
  <2>3. g[Raster[v + 1]] = v
    BY <2>1, <2>2
  <2>4. QED
    BY <2>2, <2>3
<1> HIDE DEF g, n
<1>5. IsNumbering(g, Point, n)
  BY <1>2, <1>3, <1>4 DEF IsNumbering
<1>6. QED
  BY <1>1, <1>5, Counted DEF n

-----------------------------------------------------------------------------
(* In the forest up of the points of S, to[x] is the root of the tree of x: *)
(* a parent is met before its children.                                     *)
IsForest(up, S, to) ==
    /\ S \subseteq Point /\ DOMAIN up = Point /\ to \in [Point -> Point]
    /\ \A x \in S : /\ up[x] \in S /\ to[x] \in S
                    /\ to[up[x]] = to[x] /\ to[to[x]] = to[x]
                    /\ up[x] = x <=> to[x] = x
                    /\ to[x] # x => At(up[x]) < At(x)
                    /\ At(to[x]) <= At(x)

LEMMA WayIs ==
    ASSUME NEW up, NEW S, NEW to, IsForest(up, S, to), NEW x \in S
    PROVE  /\ \A y \in Way(up, x) : y \in S /\ to[y] = to[x]
           /\ to[x] \in Way(up, x)
<1> DEFINE n == Cardinality(DOMAIN up)
           Is(u) == u = [m \in 0 .. n |-> IF m = 0 THEN x ELSE up[u[m - 1]]]
           w == CHOOSE u : Is(u)
<1>1. Way(up, x) = {w[m] : m \in 0 .. n}
  BY DEF Way
<1>2. n \in Nat /\ n = Len(Raster)
  BY PointsAreFinite, RanksAre DEF IsForest
<1>3. \E u \in [0 .. n -> S] : Is(u)
  <2>1. IsClosed(up, S)
    BY DEF IsForest, IsClosed
  <2> HIDE DEF n
  <2>2. \E u \in [0 .. n -> S] : IsIterated(u, up, x, n)
    BY <1>2, <2>1, IteratesExist
  <2>3. QED
    BY <2>2 DEF IsIterated
<1> HIDE DEF n
<1>4. Is(w)
  <2> HIDE DEF Is
  <2>1. QED
    BY <1>3
<1> HIDE DEF w
<1>5. /\ w[0] = x
      /\ \A m \in Nat : m + 1 <= n => w[m + 1] = up[w[m]]
  <2>1. \A m \in 0 .. n : w[m] = IF m = 0 THEN x ELSE up[w[m - 1]]
    BY <1>4
  <2>2. 0 \in 0 .. n
    BY <1>2
  <2>3. \A m \in Nat : m + 1 <= n => m + 1 \in 0 .. n /\ m + 1 # 0 /\ m + 1 - 1 = m
    BY <1>2
  <2> HIDE DEF Is
  <2>4. QED
    BY <2>1, <2>2, <2>3
<1> HIDE DEF Is
<1> DEFINE Good(m) == /\ w[m] \in S /\ to[w[m]] = to[x]
                      /\ w[m] = to[x] \/ At(w[m]) + m <= At(x)
           T == {m \in Nat : m <= n => Good(m)}
<1>6. x \in Point /\ \A y \in S : At(y) \in 1 .. n
  BY <1>2, RanksAre DEF IsForest
<1>7. 0 \in T
  BY <1>5, <1>6
<1>8. ASSUME NEW m \in T PROVE m + 1 \in T
  <2>1. m \in Nat
    OBVIOUS
  <2> SUFFICES ASSUME m + 1 <= n PROVE Good(m + 1)
    BY <2>1
  <2>2. Good(m)
    BY <1>2, <2>1
  <2>3. w[m + 1] = up[w[m]]
    BY <1>5, <2>1
  <2>4. w[m + 1] \in S /\ to[w[m + 1]] = to[x]
    BY <2>2, <2>3 DEF IsForest
  <2>5. CASE w[m] = to[x]
    <3>1. up[w[m]] = w[m]
      BY <2>2, <2>5 DEF IsForest
    <3>2. QED
      BY <2>3, <2>4, <2>5, <3>1
  <2>6. CASE w[m] # to[x]
    <3>1. At(w[m + 1]) < At(w[m])
      BY <2>2, <2>3, <2>6 DEF IsForest
    <3>2. At(w[m]) \in Nat /\ At(w[m + 1]) \in Nat /\ At(x) \in Nat
      BY <1>6, <2>2, <2>4
    <3>3. At(w[m + 1]) + (m + 1) <= At(x)
      BY <2>1, <2>2, <2>6, <3>1, <3>2
    <3>4. QED
      BY <2>4, <3>3
  <2>7. QED
    BY <2>5, <2>6
<1> HIDE DEF T, Good
<1>9. T = Nat
  BY <1>7, <1>8, SetOfAllNaturals DEF T
<1>10. \A m \in 0 .. n : Good(m)
  BY <1>2, <1>9 DEF T
<1>11. w[n] = to[x]
  <2>1. Good(n) /\ n \in Nat
    BY <1>2, <1>10
  <2>2. At(w[n]) \in 1 .. n /\ At(x) \in 1 .. n
    BY <1>6, <2>1 DEF Good
  <2>3. QED
    BY <2>1, <2>2 DEF Good
<1>12. n \in 0 .. n
  BY <1>2
<1>13. QED
  BY <1>1, <1>10, <1>11, <1>12 DEF Good

(* zfindroot finds the root, and the compression keeps the forest. *)
LEMMA RootIsFound ==
    ASSUME NEW up, NEW S, NEW to, IsForest(up, S, to), NEW x \in S
    PROVE  /\ zfindroot(up, x) = to[x]
           /\ IsForest(Compressed(up, x), S, to)
<1>1. /\ \A y \in Way(up, x) : y \in S /\ to[y] = to[x]
      /\ to[x] \in Way(up, x) /\ to[x] \in S /\ up[to[x]] = to[x]
  <2>1. /\ \A y \in Way(up, x) : y \in S /\ to[y] = to[x]
        /\ to[x] \in Way(up, x)
    BY WayIs
  <2>2. to[x] \in S /\ to[to[x]] = to[x]
    BY DEF IsForest
  <2>3. up[to[x]] = to[x]
    BY <2>2 DEF IsForest
  <2>4. QED
    BY <2>1, <2>2, <2>3
<1>2. \A y \in Way(up, x) : up[y] = y => y = to[x]
  BY <1>1 DEF IsForest
<1>3. zfindroot(up, x) = to[x]
  BY <1>1, <1>2 DEF zfindroot
<1>4. \A y \in Point : Compressed(up, x)[y] = IF y \in Way(up, x) THEN to[x] ELSE up[y]
  BY <1>3 DEF Compressed, IsForest
<1>5. DOMAIN Compressed(up, x) = Point
  BY DEF Compressed, IsForest
<1> DEFINE c == Compressed(up, x)
<1> HIDE DEF c
<1>6. ASSUME NEW y \in S
      PROVE  /\ c[y] \in S /\ to[c[y]] = to[y]
             /\ c[y] = y <=> to[y] = y
             /\ to[y] # y => At(c[y]) < At(y)
  <2>1. CASE y \in Way(up, x)
    <3>1. c[y] = to[x] /\ to[y] = to[x] /\ to[to[x]] = to[x]
      BY <1>1, <1>4, <2>1 DEF c, IsForest
    <3>2. At(to[y]) <= At(y) /\ y \in Point /\ to[y] \in Point
      BY DEF IsForest
    <3>3. At(y) \in Nat /\ At(to[y]) \in Nat /\ Raster[At(y)] = y /\ Raster[At(to[y])] = to[y]
      BY <3>2, RanksAre
    <3>4. to[y] # y => At(to[y]) < At(y)
      <4>1. to[y] # y => At(to[y]) # At(y)
        BY <3>3
      <4>2. QED
        BY <3>2, <3>3, <4>1
    <3>5. QED
      BY <1>1, <3>1, <3>4
  <2>2. CASE y \notin Way(up, x)
    <3>1. c[y] = up[y]
      BY <1>4, <2>2 DEF c, IsForest
    <3>2. QED
      BY <3>1 DEF IsForest
  <2>3. QED
    BY <2>1, <2>2
<1>7. IsForest(c, S, to)
  BY <1>5, <1>6 DEF IsForest, c
<1>8. QED
  BY <1>3, <1>7 DEF c

-----------------------------------------------------------------------------
(* The zones that the pairs of neighbours met so far make. *)

(* The pairs of points whose first one is lower. *)
Lower(im) == {e \in Point \X Point : cmp(im[e[1]], im[e[2]])}

Flat(low, x, y) == <<x, y>> \notin low /\ <<y, x>> \notin low

WeakOrder(low) ==
    /\ \A x, y \in Point : ~(<<x, y>> \in low /\ <<y, x>> \in low)
    /\ \A x, y, z \in Point : Flat(low, x, y) /\ Flat(low, y, z) => Flat(low, x, z)

(* The flat pairs of E do not leave T. *)
FlatClosed(T, E, low) == \A e \in E : e[1] \in T /\ Flat(low, e[1], e[2]) => e[2] \in T

(* to gives the same point to the points of a zone, i.e. that the flat pairs *)
(* of E link, and to them only.                                              *)
Zones(E, low, to) ==
    /\ E \subseteq Point \X Point /\ to \in [Point -> Point]
    /\ \A e \in E : Flat(low, e[1], e[2]) => to[e[1]] = to[e[2]]
    /\ \A x, y \in Point : to[x] = to[y] =>
          /\ Flat(low, x, y)
          /\ \A T : x \in T /\ FlatClosed(T, E, low) => y \in T

(* A pair of E goes down from the zone of z. *)
GoesDown(E, low, to, z) == \E e \in E : to[e[1]] = z /\ <<e[2], e[1]>> \in low

Both(x, y) == {<<x, y>>, <<y, x>>}

LEMMA ImageIsOrdered ==
    ASSUME NEW im \in Images PROVE WeakOrder(Lower(im))
<1>1. \A x \in Point : im[x] \in Values
  BY DEF Values
<1>2. \A x, y \in Point : <<x, y>> \in Lower(im) <=> cmp(im[x], im[y])
  BY DEF Lower
<1>3. /\ \A u, v \in Values : ~(cmp(u, v) /\ cmp(v, u))
      /\ \A u, v, w \in Values :
             ~cmp(u, v) /\ ~cmp(v, u) /\ ~cmp(v, w) /\ ~cmp(w, v) => ~cmp(u, w)
  BY LocalMinimaAssumption
<1>4. \A x, y \in Point : ~(<<x, y>> \in Lower(im) /\ <<y, x>> \in Lower(im))
  BY <1>1, <1>2, <1>3
<1>5. ASSUME NEW x \in Point, NEW y \in Point, NEW z \in Point,
             Flat(Lower(im), x, y), Flat(Lower(im), y, z)
      PROVE  Flat(Lower(im), x, z)
  BY <1>1, <1>2, <1>3, <1>5 DEF Flat
<1>6. QED
  BY <1>4, <1>5 DEF WeakOrder

(* A pair that is not flat, or is inside a zone. *)
LEMMA PairIsSeen ==
    ASSUME NEW E, NEW low, NEW to, Zones(E, low, to),
           NEW x \in Point, NEW y \in Point, Flat(low, x, y) => to[x] = to[y]
    PROVE  Zones(E \cup Both(x, y), low, to)
<1> DEFINE G == E \cup Both(x, y)
<1>1. G \subseteq Point \X Point
  BY DEF Zones, Both
<1>2. ASSUME NEW e \in G, Flat(low, e[1], e[2]) PROVE to[e[1]] = to[e[2]]
  BY <1>2 DEF Zones, Both, Flat
<1>3. \A T : FlatClosed(T, G, low) => FlatClosed(T, E, low)
  BY DEF FlatClosed
<1> HIDE DEF G
<1>4. \A u, v \in Point : to[u] = to[v] =>
          /\ Flat(low, u, v)
          /\ \A T : u \in T /\ FlatClosed(T, G, low) => v \in T
  BY <1>3 DEF Zones
<1>5. Zones(G, low, to)
  BY <1>1, <1>2, <1>4 DEF Zones
<1>6. QED
  BY <1>5 DEF G

(* A flat pair between two zones. *)
MergedTo(to, first, second) == [z \in Point |-> IF to[z] = second THEN first ELSE to[z]]

LEMMA ZonesMerge ==
    ASSUME NEW E, NEW low, NEW to, Zones(E, low, to), WeakOrder(low),
           NEW x \in Point, NEW y \in Point, Flat(low, x, y),
           NEW first, NEW second, {first, second} = {to[x], to[y]}, first # second
    PROVE  Zones(E \cup Both(x, y), low, MergedTo(to, first, second))
<1> DEFINE G == E \cup Both(x, y)
           mto == MergedTo(to, first, second)
<1>1. G \subseteq Point \X Point /\ mto \in [Point -> Point]
  BY DEF Zones, Both, MergedTo
<1>2. \A z \in Point : mto[z] = IF to[z] = second THEN first ELSE to[z]
  BY DEF MergedTo
<1>3. mto[x] = first /\ mto[y] = first
  BY <1>2
<1>4. ASSUME NEW e \in G, Flat(low, e[1], e[2]) PROVE mto[e[1]] = mto[e[2]]
  <2> HIDE DEF mto
  <2>1. CASE e \in E
    <3>1. to[e[1]] = to[e[2]] /\ e[1] \in Point /\ e[2] \in Point
      BY <1>4, <2>1 DEF Zones
    <3>2. QED
      BY <1>2, <3>1
  <2>2. CASE e \in Both(x, y)
    BY <1>3, <2>2 DEF Both
  <2>3. QED
    BY <2>1, <2>2
<1> HIDE DEF mto
<1>5. \A T : FlatClosed(T, G, low) => /\ FlatClosed(T, E, low)
                                      /\ x \in T <=> y \in T
  <2> SUFFICES ASSUME NEW T, FlatClosed(T, G, low)
               PROVE  FlatClosed(T, E, low) /\ (x \in T <=> y \in T)
    OBVIOUS
  <2>1. <<x, y>> \in G /\ <<y, x>> \in G /\ E \subseteq G
    BY DEF Both
  <2> HIDE DEF G
  <2>2. Flat(low, y, x)
    BY DEF Flat
  <2>3. /\ <<x, y>>[1] = x /\ <<x, y>>[2] = y /\ <<y, x>>[1] = y /\ <<y, x>>[2] = x
    OBVIOUS
  <2>4. x \in T <=> y \in T
    BY <2>1, <2>2, <2>3 DEF FlatClosed
  <2>5. QED
    BY <2>1, <2>4 DEF FlatClosed
<1> HIDE DEF G
<1>6. \A u, v \in Point : to[u] = to[v] =>
          /\ Flat(low, u, v)
          /\ \A T : u \in T /\ FlatClosed(T, E, low) => v \in T
  BY DEF Zones
<1>7. \A u, v \in Point : Flat(low, u, v) => Flat(low, v, u)
  BY DEF Flat
<1>8. \A u, v, z \in Point : Flat(low, u, v) /\ Flat(low, v, z) => Flat(low, u, z)
  BY DEF WeakOrder
<1>9. ASSUME NEW u \in Point, NEW v \in Point, mto[u] = mto[v]
      PROVE  /\ Flat(low, u, v)
             /\ \A T : u \in T /\ FlatClosed(T, G, low) => v \in T
  <2>1. \/ to[u] = to[v]
        \/ to[u] = to[x] /\ to[v] = to[y]
        \/ to[u] = to[y] /\ to[v] = to[x]
    BY <1>2, <1>9
  <2>2. CASE to[u] = to[v]
    BY <1>5, <1>6, <2>2
  <2>3. CASE to[u] = to[x] /\ to[v] = to[y]
    <3>1. Flat(low, u, x) /\ Flat(low, y, v)
      BY <1>6, <2>3
    <3>2. Flat(low, u, v)
      BY <1>8, <3>1
    <3>3. ASSUME NEW T, u \in T, FlatClosed(T, G, low) PROVE v \in T
      <4>1. x \in T
        BY <1>5, <1>6, <2>3, <3>3
      <4>2. y \in T
        BY <1>5, <3>3, <4>1
      <4>3. QED
        BY <1>5, <1>6, <2>3, <3>3, <4>2
    <3>4. QED
      BY <3>2, <3>3
  <2>4. CASE to[u] = to[y] /\ to[v] = to[x]
    <3>1. Flat(low, u, y) /\ Flat(low, x, v) /\ Flat(low, y, x)
      BY <1>6, <1>7, <2>4
    <3>2. Flat(low, u, v)
      BY <1>8, <3>1
    <3>3. ASSUME NEW T, u \in T, FlatClosed(T, G, low) PROVE v \in T
      <4>1. y \in T
        BY <1>5, <1>6, <2>4, <3>3
      <4>2. x \in T
        BY <1>5, <3>3, <4>1
      <4>3. QED
        BY <1>5, <1>6, <2>4, <3>3, <4>2
    <3>4. QED
      BY <3>2, <3>3
  <2>5. QED
    BY <2>1, <2>2, <2>3, <2>4
<1>10. Zones(G, low, mto)
  BY <1>1, <1>4, <1>9 DEF Zones
<1>11. QED
  BY <1>10 DEF G, mto

-----------------------------------------------------------------------------
(* The pairs the scan has seen once the first n points are done, and when m - 1 *)
(* neighbours of the next one are.                                             *)
Scanned(n) == {Raster[a] : a \in 1 .. n}

PairsUpTo(n) == {e \in Adjacent : e[1] \in Scanned(n) /\ e[2] \in Scanned(n)}

Before(x, m) == {y \in Point : \E a \in 1 .. m - 1 : NbhBefore[x][a] = y}

SeenPairs(n, m) == PairsUpTo(n - 1) \cup UNION {Both(Raster[n], y) : y \in Before(Raster[n], m)}

LEMMA ScannedIs ==
    ASSUME NEW n \in 1 .. Len(Raster)
    PROVE  /\ Scanned(n) = Scanned(n - 1) \cup {Raster[n]}
           /\ Raster[n] \in Point \ Scanned(n - 1) /\ Scanned(n) \subseteq Point
           /\ \A x \in Point : x \in Scanned(n - 1) <=> At(x) < n
<1>1. /\ Len(Raster) \in Nat \ {0}
      /\ \A a \in 1 .. Len(Raster) : Raster[a] \in Point /\ At(Raster[a]) = a
      /\ \A x \in Point : At(x) \in 1 .. Len(Raster) /\ Raster[At(x)] = x
  BY RanksAre
<1>2. 1 .. n = (1 .. n - 1) \cup {n} /\ \A a \in 1 .. n : a \in 1 .. Len(Raster)
  BY <1>1
<1>3. \A x \in Point : x \in Scanned(n - 1) <=> At(x) < n
  <2> SUFFICES ASSUME NEW x \in Point PROVE x \in Scanned(n - 1) <=> At(x) < n
    OBVIOUS
  <2>1. ASSUME x \in Scanned(n - 1) PROVE At(x) < n
    <3>1. PICK a \in 1 .. n - 1 : Raster[a] = x
      BY <2>1 DEF Scanned
    <3>2. QED
      BY <1>1, <1>2, <3>1
  <2>2. ASSUME At(x) < n PROVE x \in Scanned(n - 1)
    <3>1. At(x) \in 1 .. n - 1
      BY <1>1, <2>2
    <3>2. QED
      BY <1>1, <3>1 DEF Scanned
  <2>3. QED
    BY <2>1, <2>2
<1>4. Raster[n] \in Point /\ At(Raster[n]) = n
  BY <1>1
<1>5. Scanned(n) = Scanned(n - 1) \cup {Raster[n]}
  BY <1>2 DEF Scanned
<1>6. Scanned(n) \subseteq Point
  BY <1>1, <1>2 DEF Scanned
<1>7. Raster[n] \notin Scanned(n - 1)
  BY <1>3, <1>4
<1>8. QED
  BY <1>3, <1>4, <1>5, <1>6, <1>7

LEMMA BeforeIs ==
    ASSUME NEW x \in Point, NEW y \in Point, IsBefore(y, x)
    PROVE  At(y) < At(x)
BY RanksAre, LocalMinimaAssumption

LEMMA PairsFirst == ASSUME NEW n \in 1 .. Len(Raster) PROVE SeenPairs(n, 1) = PairsUpTo(n - 1)
<1>1. Before(Raster[n], 1) = {}
  BY DEF Before
<1>2. QED
  BY <1>1 DEF SeenPairs

LEMMA PairsNext ==
    ASSUME NEW n \in 1 .. Len(Raster), NEW m \in Nat \ {0}
    PROVE  LET y == NbhBefore[Raster[n]][m]
           IN  SeenPairs(n, m + 1) = IF y \in Point THEN SeenPairs(n, m) \cup Both(Raster[n], y)
                                     ELSE SeenPairs(n, m)
<1> DEFINE x == Raster[n]
           y == NbhBefore[x][m]
<1>1. 1 .. m = (1 .. m - 1) \cup {m} /\ m + 1 - 1 = m
  OBVIOUS
<1>2. Before(x, m + 1) = {z \in Point : \E a \in 1 .. m : NbhBefore[x][a] = z}
  BY <1>1 DEF Before
<1>3. Before(x, m + 1) = IF y \in Point THEN Before(x, m) \cup {y} ELSE Before(x, m)
  BY <1>1, <1>2 DEF Before
<1> HIDE DEF x, y
<1>4. SeenPairs(n, m + 1) = IF y \in Point THEN SeenPairs(n, m) \cup Both(x, y) ELSE SeenPairs(n, m)
  BY <1>3 DEF SeenPairs, x
<1>5. QED
  BY <1>4 DEF x, y

LEMMA PairsLast ==
    ASSUME NEW n \in 1 .. Len(Raster)
    PROVE  SeenPairs(n, Len(NbhBefore[Raster[n]]) + 1) = PairsUpTo(n)
<1> DEFINE x == Raster[n]
           D == 1 .. Len(NbhBefore[x])
<1>1. /\ Scanned(n) = Scanned(n - 1) \cup {x} /\ x \in Point /\ x \notin Scanned(n - 1)
      /\ Scanned(n) \subseteq Point
      /\ \A y \in Point : y \in Scanned(n - 1) <=> At(y) < n
  BY ScannedIs
<1>2. At(x) = n /\ n \in Nat
  BY RanksAre
<1>3. DOMAIN NbhBefore[x] = D /\ Len(NbhBefore[x]) \in Nat
  BY <1>1, LocalMinimaAssumption
<1>4. Before(x, Len(NbhBefore[x]) + 1) = {y \in Point : IsBefore(y, x)}
  <2>1. Len(NbhBefore[x]) + 1 - 1 = Len(NbhBefore[x])
    BY <1>3
  <2>2. QED
    BY <1>3, <2>1 DEF Before, IsBefore
<1>5. \A y \in Point : IsBefore(y, x) => y \in Scanned(n - 1)
  BY <1>1, <1>2, BeforeIs
<1>6. \A y \in Scanned(n - 1) \cup {x} : ~IsBefore(x, y)
  <2> SUFFICES ASSUME NEW y \in Scanned(n - 1) \cup {x}, IsBefore(x, y) PROVE FALSE
    OBVIOUS
  <2>1. y \in Point /\ At(x) < At(y)
    BY <1>1, BeforeIs
  <2>2. At(y) \in Nat
    BY <2>1, RanksAre
  <2>3. QED
    BY <1>1, <1>2, <2>1, <2>2
<1> HIDE DEF x, D
<1>7. PairsUpTo(n) = PairsUpTo(n - 1) \cup UNION {Both(x, y) : y \in {z \in Point : IsBefore(z, x)}}
  <2>1. ASSUME NEW e \in PairsUpTo(n), e \notin PairsUpTo(n - 1)
        PROVE  \E y \in {z \in Point : IsBefore(z, x)} : e \in Both(x, y)
    <3>1. PICK a \in Point, b \in Point : e = <<a, b>> /\ (IsBefore(a, b) \/ IsBefore(b, a))
      BY <2>1 DEF PairsUpTo, Adjacent
    <3>2. a \in Scanned(n) /\ b \in Scanned(n) /\ (a = x \/ b = x)
      BY <1>1, <2>1, <3>1 DEF PairsUpTo
    <3>3. CASE a = x
      BY <1>1, <1>6, <3>1, <3>2, <3>3 DEF Both
    <3>4. CASE b = x
      BY <1>1, <1>6, <3>1, <3>2, <3>4 DEF Both
    <3>5. QED
      BY <3>2, <3>3, <3>4
  <2>2. PairsUpTo(n - 1) \subseteq PairsUpTo(n)
    BY <1>1 DEF PairsUpTo
  <2>3. ASSUME NEW y \in Point, IsBefore(y, x), NEW e \in Both(x, y)
        PROVE  e \in PairsUpTo(n)
    <3>1. y \in Scanned(n) /\ x \in Scanned(n)
      BY <1>1, <1>5, <2>3
    <3>2. <<x, y>> \in Adjacent /\ <<y, x>> \in Adjacent
      BY <1>1, <2>3 DEF Adjacent
    <3>3. QED
      BY <2>3, <3>1, <3>2 DEF PairsUpTo, Both
  <2>4. QED
    BY <2>1, <2>2, <2>3
<1>8. QED
  BY <1>4, <1>7 DEF SeenPairs, x

-----------------------------------------------------------------------------
(* The scan. *)

(* The points of S are scanned: the flag of a root tells whether its zone   *)
(* goes down, and the flag of another point may only be too high.           *)
PointsOK(low, E, S, up, out, to) ==
    /\ WeakOrder(low) /\ Zones(E, low, to) /\ IsForest(up, S, to)
    /\ out \in [Point -> Int] /\ \A y \in Point : y \notin S <=> out[y] = kUnseen
    /\ \A y \in Point \ S : to[y] = y
    /\ \A y \in S : /\ out[y] \in {0, 1}
                    /\ out[y] = 0 => GoesDown(E, low, to, to[y])
                    /\ to[y] = y /\ GoesDown(E, low, to, y) => out[y] = 0

(* And x, in the zone of root rt, is being scanned: the flag of rt is psb.  *)
ScanOK(low, E, S, x, up, out, rt, psb, to) ==
    /\ WeakOrder(low) /\ Zones(E, low, to) /\ IsForest(up, S, to)
    /\ out \in [Point -> Int] /\ \A y \in Point : y \notin S <=> out[y] = kUnseen
    /\ x \in Point \ S /\ \A y \in S : At(y) < At(x)
    /\ \A y \in Point \ (S \cup {x}) : to[y] = y
    /\ to[x] = rt /\ rt \in S \cup {x} /\ to[rt] = rt
    /\ \A y \in S : /\ out[y] \in {0, 1}
                    /\ out[y] = 0 => GoesDown(E, low, to, to[y])
                    /\ to[y] = y /\ y # rt /\ GoesDown(E, low, to, y) => out[y] = 0
    /\ psb \in BOOLEAN /\ (psb <=> ~GoesDown(E, low, to, rt))

-----------------------------------------------------------------------------
LEMMA BothIs == \A x, y : Both(x, y) = Both(y, x)
BY DEF Both

LEMMA LevelGoesDown ==
    ASSUME NEW E, NEW low, NEW to, NEW x, NEW y, Flat(low, x, y), NEW z
    PROVE  GoesDown(E \cup Both(x, y), low, to, z) <=> GoesDown(E, low, to, z)
<1>1. \A e \in Both(x, y) : <<e[2], e[1]>> \notin low
  BY DEF Both, Flat
<1>2. QED
  BY <1>1 DEF GoesDown

LEMMA PairGoesDown ==
    ASSUME NEW E, NEW low, WeakOrder(low), NEW to, NEW x \in Point, NEW y \in Point, <<y, x>> \in low, NEW z
    PROVE  GoesDown(E \cup Both(x, y), low, to, z) <=> GoesDown(E, low, to, z) \/ z = to[x]
<1>1. <<x, y>> \notin low
  BY DEF WeakOrder
<1>2. \A e \in Both(x, y) : to[e[1]] = z /\ <<e[2], e[1]>> \in low => z = to[x]
  BY <1>1 DEF Both
<1>3. z = to[x] => \E e \in Both(x, y) : to[e[1]] = z /\ <<e[2], e[1]>> \in low
  <2>1. <<x, y>> \in Both(x, y) /\ <<x, y>>[1] = x /\ <<x, y>>[2] = y
    BY DEF Both
  <2>2. QED
    BY <2>1
<1>4. QED
  BY <1>2, <1>3 DEF GoesDown

LEMMA MergedGoesDown ==
    ASSUME NEW E, NEW low, NEW to, E \subseteq Point \X Point,
           NEW first, NEW second, first # second, NEW z
    PROVE  GoesDown(E, low, MergedTo(to, first, second), z) <=>
              IF z = first THEN GoesDown(E, low, to, first) \/ GoesDown(E, low, to, second)
              ELSE z # second /\ GoesDown(E, low, to, z)
<1>1. \A e \in E : MergedTo(to, first, second)[e[1]] = IF to[e[1]] = second THEN first ELSE to[e[1]]
  BY DEF MergedTo
<1>2. QED
  BY <1>1 DEF GoesDown

LEMMA LowerNeighbour ==
    ASSUME NEW low, NEW E, NEW S, NEW x, NEW up, NEW out, NEW rt, NEW psb, NEW to,
           ScanOK(low, E, S, x, up, out, rt, psb, to), NEW y \in S, <<y, x>> \in low
    PROVE  ScanOK(low, E \cup Both(x, y), S, x, up, out, rt, FALSE, to)
<1> DEFINE G == E \cup Both(x, y)
<1>1. /\ WeakOrder(low) /\ Zones(E, low, to) /\ x \in Point /\ y \in Point /\ to[x] = rt
  BY DEF ScanOK, IsForest
<1>2. Zones(G, low, to)
  BY <1>1, PairIsSeen DEF Flat
<1>3. \A z : GoesDown(G, low, to, z) <=> GoesDown(E, low, to, z) \/ z = rt
  BY <1>1, PairGoesDown
<1> HIDE DEF G
<1>4. ScanOK(low, G, S, x, up, out, rt, FALSE, to)
  BY <1>2, <1>3 DEF ScanOK
<1>5. QED
  BY <1>4 DEF G

LEMMA HigherNeighbour ==
    ASSUME NEW low, NEW E, NEW S, NEW x, NEW up, NEW out, NEW rt, NEW psb, NEW to,
           ScanOK(low, E, S, x, up, out, rt, psb, to), NEW y \in S, <<x, y>> \in low
    PROVE  ScanOK(low, E \cup Both(x, y), S, x, Compressed(up, y),
                  [out EXCEPT ![zfindroot(up, y)] = 0], rt, psb, to)
<1> DEFINE G == E \cup Both(x, y)
           c == Compressed(up, y)
           out2 == [out EXCEPT ![zfindroot(up, y)] = 0]
<1>1. /\ WeakOrder(low) /\ Zones(E, low, to) /\ x \in Point /\ y \in Point /\ to[x] = rt
      /\ IsForest(up, S, to) /\ S \subseteq Point /\ to[y] \in S /\ to[to[y]] = to[y]
      /\ out \in [Point -> Int] /\ (psb <=> ~GoesDown(E, low, to, rt))
  BY DEF ScanOK, IsForest
<1>2. Zones(G, low, to)
  BY <1>1, PairIsSeen DEF Flat
<1>3. \A z : GoesDown(G, low, to, z) <=> GoesDown(E, low, to, z) \/ z = to[y]
  BY <1>1, PairGoesDown, BothIs
<1>4. zfindroot(up, y) = to[y] /\ IsForest(c, S, to)
  BY <1>1, RootIsFound
<1>5. to[y] # rt
  BY <1>1 DEF Zones, Flat
<1>6. out2 \in [Point -> Int] /\ \A z \in Point : out2[z] = IF z = to[y] THEN 0 ELSE out[z]
  BY <1>1, <1>4
<1> HIDE DEF G, c, out2
<1>7. /\ \A z \in Point : z \notin S <=> out2[z] = kUnseen
      /\ \A z \in S : /\ out2[z] \in {0, 1}
                      /\ out2[z] = 0 => GoesDown(G, low, to, to[z])
                      /\ to[z] = z /\ z # rt /\ GoesDown(G, low, to, z) => out2[z] = 0
  BY <1>1, <1>3, <1>6 DEF ScanOK, kUnseen
<1>8. psb <=> ~GoesDown(G, low, to, rt)
  BY <1>1, <1>3, <1>5
<1>9. ScanOK(low, G, S, x, c, out2, rt, psb, to)
  BY <1>2, <1>4, <1>6, <1>7, <1>8 DEF ScanOK
<1>10. QED
  BY <1>9 DEF G, c, out2

(* A neighbour of the same level, in the zone of x already. *)
LEMMA NeighbourInZone ==
    ASSUME NEW low, NEW E, NEW S, NEW x, NEW up, NEW out, NEW rt, NEW psb, NEW to,
           ScanOK(low, E, S, x, up, out, rt, psb, to), NEW y \in S, Flat(low, x, y), to[y] = rt
    PROVE  ScanOK(low, E \cup Both(x, y), S, x, Compressed(up, y), out, rt, psb, to)
<1> DEFINE G == E \cup Both(x, y)
           c == Compressed(up, y)
<1>1. /\ WeakOrder(low) /\ Zones(E, low, to) /\ x \in Point /\ y \in Point /\ to[x] = rt
      /\ IsForest(up, S, to)
  BY DEF ScanOK, IsForest
<1>2. Zones(G, low, to)
  BY <1>1, PairIsSeen
<1>3. \A z : GoesDown(G, low, to, z) <=> GoesDown(E, low, to, z)
  BY <1>1, LevelGoesDown
<1>4. IsForest(c, S, to)
  BY <1>1, RootIsFound
<1> HIDE DEF G, c
<1>5. ScanOK(low, G, S, x, c, out, rt, psb, to)
  BY <1>2, <1>3, <1>4 DEF ScanOK
<1>6. QED
  BY <1>5 DEF G, c

(* The forest where the root second is put under the root first. *)
LEMMA TreesMerge ==
    ASSUME NEW up, NEW S, NEW to, IsForest(up, S, to), NEW first \in S, NEW second \in Point,
           to[first] = first, to[second] = second, At(first) < At(second)
    PROVE  IsForest([up EXCEPT ![second] = first], S, MergedTo(to, first, second))
<1> DEFINE up2 == [up EXCEPT ![second] = first]
           to2 == MergedTo(to, first, second)
<1>1. /\ S \subseteq Point /\ DOMAIN up = Point /\ to \in [Point -> Point] /\ first \in Point
      /\ \A x \in S : /\ up[x] \in S /\ to[x] \in S
                      /\ to[up[x]] = to[x] /\ to[to[x]] = to[x]
                      /\ up[x] = x <=> to[x] = x
                      /\ to[x] # x => At(up[x]) < At(x)
                      /\ At(to[x]) <= At(x)
  BY DEF IsForest
<1>2. first # second /\ \A x \in Point : At(x) \in Int
  BY <1>1, RanksAre
<1>3. DOMAIN up2 = Point /\ \A x \in Point : up2[x] = IF x = second THEN first ELSE up[x]
  BY <1>1
<1>4. to2 \in [Point -> Point] /\ \A x \in Point : to2[x] = IF to[x] = second THEN first ELSE to[x]
  BY <1>1 DEF MergedTo
<1> HIDE DEF up2, to2
<1>5. ASSUME NEW x \in S
      PROVE  /\ up2[x] \in S /\ to2[x] \in S
             /\ to2[up2[x]] = to2[x] /\ to2[to2[x]] = to2[x]
             /\ up2[x] = x <=> to2[x] = x
             /\ to2[x] # x => At(up2[x]) < At(x)
             /\ At(to2[x]) <= At(x)
  <2>1. x \in Point /\ up[x] \in Point /\ to[x] \in Point
    BY <1>1
  <2>2. to2[first] = first /\ to2[second] = first
    BY <1>1, <1>2, <1>4
  <2>3. CASE x = second
    <3>1. up2[x] = first /\ to2[x] = first
      BY <1>3, <2>1, <2>2, <2>3
    <3>2. At(first) < At(x) /\ At(first) <= At(x) /\ first # x
      BY <1>1, <1>2, <2>3
    <3>3. up2[x] \in S /\ to2[x] \in S /\ to2[up2[x]] = to2[x] /\ to2[to2[x]] = to2[x]
      BY <2>2, <3>1
    <3>4. QED
      BY <3>1, <3>2, <3>3
  <2>4. CASE x # second /\ to[x] = second
    <3>1. up2[x] = up[x] /\ to2[x] = first /\ to[up[x]] = second /\ x # first
      BY <1>1, <1>2, <1>3, <1>4, <2>1, <2>4
    <3>2. to2[up[x]] = first /\ up[x] # x /\ At(up[x]) < At(x)
      BY <1>1, <1>4, <2>1, <2>4, <3>1
    <3>3. At(second) <= At(x)
      BY <1>1, <2>4
    <3>4. At(first) <= At(x)
      BY <1>1, <1>2, <2>1, <3>3
    <3>5. QED
      BY <1>1, <2>2, <3>1, <3>2, <3>4
  <2>5. CASE x # second /\ to[x] # second
    <3>1. up2[x] = up[x] /\ to2[x] = to[x] /\ to2[up[x]] = to[x] /\ to2[to[x]] = to[x]
      BY <1>1, <1>3, <1>4, <2>1, <2>5
    <3>2. QED
      BY <1>1, <3>1
  <2>6. QED
    BY <2>3, <2>4, <2>5
<1>6. IsForest(up2, S, to2)
  BY <1>1, <1>3, <1>4, <1>5 DEF IsForest
<1>7. QED
  BY <1>6 DEF up2, to2

(* A neighbour of the same level: its zone and that of x are one. *)
LEMMA ZonesJoin ==
    ASSUME NEW low, NEW E, NEW S, NEW x, NEW up, NEW out, NEW rt, NEW psb, NEW to,
           ScanOK(low, E, S, x, up, out, rt, psb, to), NEW y \in S, Flat(low, x, y), to[y] # rt,
           NEW first, NEW second, {first, second} = {to[y], rt}, At(first) < At(second)
    PROVE  ScanOK(low, E \cup Both(x, y), S, x, [Compressed(up, y) EXCEPT ![second] = first],
                  out, first, psb /\ out[to[y]] # 0, MergedTo(to, first, second))
<1> DEFINE G == E \cup Both(x, y)
           c == Compressed(up, y)
           c2 == [c EXCEPT ![second] = first]
           to2 == MergedTo(to, first, second)
           psb2 == psb /\ out[to[y]] # 0
<1>1. /\ WeakOrder(low) /\ Zones(E, low, to) /\ x \in Point \ S /\ y \in Point /\ to[x] = rt
      /\ IsForest(up, S, to) /\ S \subseteq Point /\ to[y] \in S /\ to[to[y]] = to[y]
      /\ rt \in S \cup {x} /\ to[rt] = rt /\ rt \in Point /\ E \subseteq Point \X Point
      /\ to \in [Point -> Point]
      /\ \A z \in S : At(z) < At(x)
  BY DEF ScanOK, IsForest, Zones
<1>2. first # second /\ first \in S \cup {x} /\ second \in S \cup {x}
      /\ first \in Point /\ second \in Point
      /\ to[first] = first /\ to[second] = second
  BY <1>1
<1>3. first \in S
  <2>1. \A z \in Point : At(z) \in Int
    BY RanksAre
  <2>2. first = x => second \in S
    BY <1>1
  <2>3. first = x => At(second) < At(first)
    BY <1>1, <2>2
  <2>4. QED
    BY <1>2, <2>1, <2>3
<1>4. IsForest(c, S, to)
  BY <1>1, RootIsFound
<1> HIDE DEF c
<1>5. IsForest(c2, S, to2)
  BY <1>2, <1>3, <1>4, TreesMerge
<1>6. Zones(G, low, to2)
  BY <1>1, <1>2, ZonesMerge
<1>7. \A z : GoesDown(G, low, to2, z) <=>
              IF z = first THEN GoesDown(E, low, to, to[y]) \/ GoesDown(E, low, to, rt)
              ELSE z # second /\ GoesDown(E, low, to, z)
  <2>1. \A z : GoesDown(G, low, to2, z) <=> GoesDown(E, low, to2, z)
    BY LevelGoesDown
  <2>2. \A z : GoesDown(E, low, to2, z) <=>
              IF z = first THEN GoesDown(E, low, to, first) \/ GoesDown(E, low, to, second)
              ELSE z # second /\ GoesDown(E, low, to, z)
    BY <1>1, <1>2, MergedGoesDown
  <2> HIDE DEF G, to2
  <2>3. GoesDown(E, low, to, first) \/ GoesDown(E, low, to, second) <=>
        GoesDown(E, low, to, to[y]) \/ GoesDown(E, low, to, rt)
    BY <1>2
  <2>4. QED
    BY <2>1, <2>2, <2>3
<1>8. \A z \in Point : to2[z] = IF to[z] = second THEN first ELSE to[z]
  BY DEF MergedTo
<1> HIDE DEF G, c2, to2
<1>9. psb2 \in BOOLEAN /\ (psb2 <=> ~GoesDown(G, low, to2, first))
  <2>1. psb \in BOOLEAN /\ (psb <=> ~GoesDown(E, low, to, rt))
    BY DEF ScanOK
  <2>2. out[to[y]] # 0 <=> ~GoesDown(E, low, to, to[y])
    BY <1>1 DEF ScanOK
  <2>3. QED
    BY <1>7, <2>1, <2>2
<1>10. /\ \A z \in Point \ (S \cup {x}) : to2[z] = z
       /\ to2[x] = first /\ to2[first] = first
  <2>1. \A z \in Point \ (S \cup {x}) : to[z] = z /\ z # second
    BY <1>2 DEF ScanOK
  <2>2. QED
    BY <1>1, <1>2, <1>8, <2>1
<1>11. ASSUME NEW z \in S
       PROVE  /\ out[z] \in {0, 1}
              /\ out[z] = 0 => GoesDown(G, low, to2, to2[z])
              /\ to2[z] = z /\ z # first /\ GoesDown(G, low, to2, z) => out[z] = 0
  <2>1. /\ out[z] \in {0, 1}
        /\ out[z] = 0 => GoesDown(E, low, to, to[z])
        /\ to[z] = z /\ z # rt /\ GoesDown(E, low, to, z) => out[z] = 0
    BY DEF ScanOK
  <2>2. z \in Point
    BY <1>1
  <2>3. ASSUME out[z] = 0 PROVE GoesDown(G, low, to2, to2[z])
    <3>1. GoesDown(E, low, to, to[z])
      BY <2>1, <2>3
    <3>2. CASE to[z] = second
      BY <1>2, <1>7, <1>8, <2>2, <3>1, <3>2
    <3>3. CASE to[z] = first
      BY <1>2, <1>7, <1>8, <2>2, <3>1, <3>3
    <3>4. CASE to[z] # first /\ to[z] # second
      BY <1>7, <1>8, <2>2, <3>1, <3>4
    <3>5. QED
      BY <3>2, <3>3, <3>4
  <2>4. ASSUME to2[z] = z, z # first, GoesDown(G, low, to2, z) PROVE out[z] = 0
    <3>1. z # second /\ GoesDown(E, low, to, z)
      BY <1>7, <2>4
    <3>2. to[z] = z
      BY <1>8, <2>2, <2>4
    <3>3. z # rt
      BY <1>2, <2>4, <3>1
    <3>4. QED
      BY <2>1, <3>1, <3>2, <3>3
  <2>5. QED
    BY <2>1, <2>3, <2>4
<1> HIDE DEF psb2
<1>12. ScanOK(low, G, S, x, c2, out, first, psb2, to2)
  BY <1>1, <1>3, <1>5, <1>6, <1>9, <1>10, <1>11 DEF ScanOK
<1>13. QED
  BY <1>12 DEF G, c, c2, to2, psb2

(* All the neighbours are seen. *)
LEMMA PointEnds ==
    ASSUME NEW low, NEW E, NEW S, NEW x, NEW up, NEW out, NEW rt, NEW psb, NEW to,
           ScanOK(low, E, S, x, up, out, rt, psb, to)
    PROVE  PointsOK(low, E, S \cup {x}, [up EXCEPT ![x] = rt],
                    [out EXCEPT ![x] = Flag(psb), ![rt] = Flag(psb)], to)
<1> DEFINE S2 == S \cup {x}
           up2 == [up EXCEPT ![x] = rt]
           out2 == [out EXCEPT ![x] = Flag(psb), ![rt] = Flag(psb)]
<1>1. /\ WeakOrder(low) /\ Zones(E, low, to) /\ x \in Point \ S /\ to[x] = rt
      /\ IsForest(up, S, to) /\ S \subseteq Point
      /\ rt \in S \cup {x} /\ to[rt] = rt /\ rt \in Point
      /\ \A z \in S : At(z) < At(x)
      /\ out \in [Point -> Int] /\ \A y \in Point : y \notin S <=> out[y] = kUnseen
      /\ psb \in BOOLEAN /\ psb <=> ~GoesDown(E, low, to, rt)
  BY DEF ScanOK, IsForest
<1>2. \A z \in Point : At(z) \in Int
  BY RanksAre
<1>3. DOMAIN up2 = Point /\ \A z \in Point : up2[z] = IF z = x THEN rt ELSE up[z]
  BY <1>1 DEF IsForest
<1> HIDE DEF up2
<1>4. IsForest(up2, S2, to)
  <2>1. \A z \in S : z \in Point /\ z # x /\ up2[z] = up[z]
    BY <1>1, <1>3
  <2>2. \A z \in S :  /\ up2[z] \in S /\ to[z] \in S
                      /\ to[up2[z]] = to[z] /\ to[to[z]] = to[z]
                      /\ up2[z] = z <=> to[z] = z
                      /\ to[z] # z => At(up2[z]) < At(z)
                      /\ At(to[z]) <= At(z)
    BY <1>1, <2>1 DEF IsForest
  <2>3. /\ up2[x] = rt /\ rt \in S2 /\ rt # x => At(rt) < At(x)
        /\ At(rt) <= At(x)
    BY <1>1, <1>2, <1>3
  <2>4. S2 \subseteq Point /\ to \in [Point -> Point]
    BY <1>1 DEF IsForest
  <2>5. QED
    BY <1>1, <1>3, <2>2, <2>3, <2>4 DEF IsForest
<1>5. Flag(psb) \in {0, 1} /\ (Flag(psb) = 0 <=> GoesDown(E, low, to, rt))
  <2>1. CASE psb = TRUE
    <3>1. Flag(psb) = 1
      BY <2>1 DEF Flag
    <3>2. QED
      BY <1>1, <2>1, <3>1
  <2>2. CASE psb = FALSE
    <3>1. Flag(psb) = 0
      BY <2>2 DEF Flag
    <3>2. GoesDown(E, low, to, rt)
      BY <1>1, <2>2, Zenon
    <3>3. QED
      BY <3>1, <3>2
  <2>3. psb \in BOOLEAN
    BY Zenon DEF ScanOK
  <2>4. QED
    BY <2>1, <2>2, <2>3, Zenon
<1>6. out2 \in [Point -> Int] /\ \A z \in Point : out2[z] = IF z = x \/ z = rt THEN Flag(psb) ELSE out[z]
  BY <1>1, <1>5
<1> HIDE DEF out2
<1>7. \A z \in Point : z \notin S2 <=> out2[z] = kUnseen
  BY <1>1, <1>5, <1>6 DEF kUnseen
<1>8. \A z \in Point \ S2 : to[z] = z
  BY DEF ScanOK
<1>9. ASSUME NEW z \in S2
      PROVE  /\ out2[z] \in {0, 1}
             /\ out2[z] = 0 => GoesDown(E, low, to, to[z])
             /\ to[z] = z /\ GoesDown(E, low, to, z) => out2[z] = 0
  <2>1. z \in Point
    BY <1>1
  <2>2. CASE z = x \/ z = rt
    BY <1>1, <1>5, <1>6, <2>1, <2>2
  <2>3. CASE z # x /\ z # rt
    BY <1>6, <2>1, <2>3 DEF ScanOK
  <2>4. QED
    BY <2>2, <2>3
<1> HIDE DEF S2
<1>10. PointsOK(low, E, S2, up2, out2, to)
  BY <1>1, <1>4, <1>6, <1>7, <1>8, <1>9 DEF PointsOK
<1>11. QED
  BY <1>10 DEF S2, up2, out2

(* The next point is considered. *)
LEMMA PointStarts ==
    ASSUME NEW low, NEW E, NEW S, NEW x, NEW up, NEW out, NEW to,
           PointsOK(low, E, S, up, out, to), E \subseteq S \X S,
           x \in Point \ S, \A y \in S : At(y) < At(x)
    PROVE  ScanOK(low, E, S, x, up, out, x, TRUE, to)
<1>1. \A y \in S : to[y] \in S
  BY DEF PointsOK, IsForest
<1>2. ~GoesDown(E, low, to, x)
  BY <1>1 DEF GoesDown
<1>3. to[x] = x /\ \A y \in Point \ (S \cup {x}) : to[y] = y
  BY DEF PointsOK
<1>4. QED
  BY <1>2, <1>3 DEF PointsOK, ScanOK

-----------------------------------------------------------------------------
(* The labels. *)

(* The points of L have their label, the others the flag the scan gave them. *)
LabelOK(low, L, up, out, n, to) ==
    /\ WeakOrder(low) /\ Zones(Adjacent, low, to) /\ IsForest(up, Point, to)
    /\ out \in [Point -> Int] /\ n \in Nat /\ L \subseteq Point
    /\ \A y \in L : /\ to[y] \in L /\ out[y] = out[to[y]] /\ out[y] \in 0 .. n
                    /\ out[y] = 0 <=> GoesDown(Adjacent, low, to, to[y])
    /\ \A y, z \in L : out[y] = out[z] /\ out[y] # 0 => to[y] = to[z]
    /\ \A l \in 1 .. n : \E y \in L : out[y] = l
    /\ \A y \in Point \ L : /\ out[y] \in {0, 1}
                            /\ out[y] = 0 => GoesDown(Adjacent, low, to, to[y])
                            /\ to[y] = y /\ GoesDown(Adjacent, low, to, y) => out[y] = 0

(* x is the next point: those before it have their label. *)
IsNextPoint(x, L) == x \in Point \ L /\ \A y \in Point : At(y) < At(x) => y \in L

LEMMA LabelStarts ==
    ASSUME NEW low, NEW up, NEW out, NEW to, PointsOK(low, Adjacent, Point, up, out, to)
    PROVE  LabelOK(low, {}, up, out, 0, to)
BY DEF PointsOK, LabelOK

(* The root of the zone of the next point is that point, or has its label. *)
LEMMA RootIsLabelled ==
    ASSUME NEW low, NEW L, NEW up, NEW out, NEW n, NEW to, LabelOK(low, L, up, out, n, to),
           NEW x, IsNextPoint(x, L)
    PROVE  /\ to[x] \in Point /\ to[to[x]] = to[x] /\ (up[x] = x <=> to[x] = x)
           /\ to[x] # x => to[x] \in L
           /\ zfindroot(up, x) = to[x] /\ IsForest(Compressed(up, x), Point, to)
<1>1. IsForest(up, Point, to) /\ x \in Point
  BY DEF LabelOK, IsNextPoint
<1>2. /\ to[x] \in Point /\ to[to[x]] = to[x] /\ (up[x] = x <=> to[x] = x)
      /\ At(to[x]) <= At(x)
  BY <1>1 DEF IsForest
<1>3. to[x] # x => At(to[x]) < At(x)
  BY <1>1, <1>2, RanksAre
<1>4. QED
  BY <1>1, <1>2, <1>3, RootIsFound DEF IsNextPoint

LEMMA PointWithoutLabel ==
    ASSUME NEW low, NEW L, NEW up, NEW out, NEW n, NEW to, LabelOK(low, L, up, out, n, to),
           NEW x, IsNextPoint(x, L), out[x] = 0
    PROVE  LabelOK(low, L \cup {x}, up, out, n, to)
<1> DEFINE M == L \cup {x}
<1>1. /\ to[x] \in Point /\ to[to[x]] = to[x]
      /\ to[x] # x => to[x] \in L
  BY RootIsLabelled
<1>2. x \in Point \ L /\ n \in Nat /\ GoesDown(Adjacent, low, to, to[x])
  BY DEF LabelOK, IsNextPoint
<1>3. to[x] \in M /\ out[to[x]] = 0
  BY <1>1, <1>2 DEF LabelOK
<1>4. \A y \in M : /\ to[y] \in M /\ out[y] = out[to[y]] /\ out[y] \in 0 .. n
                   /\ out[y] = 0 <=> GoesDown(Adjacent, low, to, to[y])
  BY <1>2, <1>3 DEF LabelOK
<1>5. \A y, z \in M : out[y] = out[z] /\ out[y] # 0 => to[y] = to[z]
  BY DEF LabelOK
<1>6. \A l \in 1 .. n : \E y \in M : out[y] = l
  BY DEF LabelOK
<1>7. M \subseteq Point /\ \A y \in Point \ M : y \in Point \ L
  BY <1>2 DEF LabelOK
<1> HIDE DEF M
<1>8. LabelOK(low, M, up, out, n, to)
  BY <1>4, <1>5, <1>6, <1>7 DEF LabelOK
<1>9. QED
  BY <1>8 DEF M

LEMMA RootTakesLabel ==
    ASSUME NEW low, NEW L, NEW up, NEW out, NEW n, NEW to, LabelOK(low, L, up, out, n, to),
           NEW x, IsNextPoint(x, L), out[x] # 0, up[x] = x
    PROVE  LabelOK(low, L \cup {x}, up, [out EXCEPT ![x] = n + 1], n + 1, to)
<1> DEFINE M == L \cup {x}
           out2 == [out EXCEPT ![x] = n + 1]
<1>1. to[x] = x
  BY RootIsLabelled
<1>2. /\ x \in Point \ L /\ n \in Nat /\ out \in [Point -> Int] /\ L \subseteq Point
      /\ ~GoesDown(Adjacent, low, to, x)
  BY <1>1 DEF LabelOK, IsNextPoint
<1>3. out2 \in [Point -> Int] /\ \A y \in Point : out2[y] = IF y = x THEN n + 1 ELSE out[y]
  BY <1>2
<1> HIDE DEF out2
<1>4. \A y \in L : to[y] \in L /\ out2[y] = out[y] /\ out2[to[y]] = out[y] /\ out[y] \in 0 .. n
  <2>1. \A y \in L : y \in Point /\ y # x
    BY <1>2
  <2>2. \A y \in L : to[y] \in L /\ out[to[y]] = out[y] /\ out[y] \in 0 .. n
    BY DEF LabelOK
  <2>3. QED
    BY <1>3, <2>1, <2>2
<1>5. ASSUME NEW y \in M
      PROVE  /\ to[y] \in M /\ out2[y] = out2[to[y]] /\ out2[y] \in 0 .. n + 1
             /\ out2[y] = 0 <=> GoesDown(Adjacent, low, to, to[y])
  <2>1. CASE y \in L
    <3>1. out[y] = 0 <=> GoesDown(Adjacent, low, to, to[y])
      BY <2>1 DEF LabelOK
    <3>2. QED
      BY <1>2, <1>4, <2>1, <3>1
  <2>2. CASE y = x
    BY <1>1, <1>2, <1>3, <2>2
  <2>3. QED
    BY <2>1, <2>2
<1>6. ASSUME NEW y \in M, NEW z \in M, out2[y] = out2[z], out2[y] # 0 PROVE to[y] = to[z]
  <2>1. CASE y \in L /\ z \in L
    BY <1>4, <1>6, <2>1 DEF LabelOK
  <2>2. CASE y = x /\ z = x
    BY <2>2
  <2>3. CASE y = x /\ z \in L
    BY <1>2, <1>3, <1>4, <1>6, <2>3
  <2>4. CASE y \in L /\ z = x
    BY <1>2, <1>3, <1>4, <1>6, <2>4
  <2>5. QED
    BY <2>1, <2>2, <2>3, <2>4
<1>7. ASSUME NEW l \in 1 .. n + 1 PROVE \E y \in M : out2[y] = l
  <2>1. CASE l = n + 1
    BY <1>2, <1>3, <2>1
  <2>2. CASE l # n + 1
    <3>1. l \in 1 .. n
      BY <1>2, <2>2
    <3>2. PICK y \in L : out[y] = l
      BY <3>1 DEF LabelOK
    <3>3. QED
      BY <1>4, <3>2
  <2>3. QED
    BY <2>1, <2>2
<1>8. M \subseteq Point /\ \A y \in Point \ M : y \in Point \ L /\ out2[y] = out[y]
  BY <1>2, <1>3
<1> HIDE DEF M
<1>9. n + 1 \in Nat
  BY <1>2
<1>10. \A y \in Point \ M : /\ out2[y] \in {0, 1}
                            /\ out2[y] = 0 => GoesDown(Adjacent, low, to, to[y])
                            /\ to[y] = y /\ GoesDown(Adjacent, low, to, y) => out2[y] = 0
  BY <1>8 DEF LabelOK
<1>11. LabelOK(low, M, up, out2, n + 1, to)
  BY <1>3, <1>5, <1>6, <1>7, <1>8, <1>9, <1>10 DEF LabelOK
<1>12. QED
  BY <1>11 DEF M, out2

LEMMA PointTakesLabel ==
    ASSUME NEW low, NEW L, NEW up, NEW out, NEW n, NEW to, LabelOK(low, L, up, out, n, to),
           NEW x, IsNextPoint(x, L), up[x] # x
    PROVE  LabelOK(low, L \cup {x}, Compressed(up, x), [out EXCEPT ![x] = out[zfindroot(up, x)]], n, to)
<1> DEFINE M == L \cup {x}
           c == Compressed(up, x)
           out2 == [out EXCEPT ![x] = out[zfindroot(up, x)]]
<1>1. /\ to[x] \in L /\ to[x] \in Point /\ to[to[x]] = to[x]
      /\ zfindroot(up, x) = to[x] /\ IsForest(c, Point, to)
  BY RootIsLabelled
<1>2. /\ x \in Point \ L /\ n \in Nat /\ out \in [Point -> Int] /\ L \subseteq Point
  BY DEF LabelOK, IsNextPoint
<1>3. out2 \in [Point -> Int] /\ \A y \in Point : out2[y] = IF y = x THEN out[to[x]] ELSE out[y]
  BY <1>1, <1>2
<1> HIDE DEF out2, c
<1>4. \A y \in L : /\ to[y] \in L /\ out2[y] = out[y] /\ out2[to[y]] = out[y] /\ out[y] \in 0 .. n
                   /\ out[y] = 0 <=> GoesDown(Adjacent, low, to, to[y])
  <2>1. \A y \in L : y \in Point /\ y # x
    BY <1>2
  <2>2. \A y \in L : /\ to[y] \in L /\ out[to[y]] = out[y] /\ out[y] \in 0 .. n
                     /\ out[y] = 0 <=> GoesDown(Adjacent, low, to, to[y])
    BY DEF LabelOK
  <2>3. QED
    BY <1>3, <2>1, <2>2
<1>5. out2[x] = out[to[x]] /\ out2[to[x]] = out[to[x]]
  BY <1>1, <1>2, <1>3
<1>6. ASSUME NEW y \in M
      PROVE  /\ to[y] \in M /\ out2[y] = out2[to[y]] /\ out2[y] \in 0 .. n
             /\ out2[y] = 0 <=> GoesDown(Adjacent, low, to, to[y])
  BY <1>1, <1>4, <1>5
<1>7. ASSUME NEW y \in M, NEW z \in M, out2[y] = out2[z], out2[y] # 0 PROVE to[y] = to[z]
  <2>1. /\ to[y] \in L /\ out2[y] = out[to[y]] /\ to[to[y]] = to[y]
        /\ to[z] \in L /\ out2[z] = out[to[z]] /\ to[to[z]] = to[z]
    <3>1. \A u \in L : to[to[u]] = to[u] /\ out[to[u]] = out[u]
      BY <1>2 DEF LabelOK, IsForest
    <3>2. QED
      BY <1>1, <1>4, <1>5, <3>1
  <2>2. to[to[y]] = to[to[z]]
    <3>1. out[to[y]] = out[to[z]] /\ out[to[y]] # 0
      BY <1>7, <2>1
    <3>2. \A u, v \in L : out[u] = out[v] /\ out[u] # 0 => to[u] = to[v]
      BY DEF LabelOK
    <3>3. QED
      BY <2>1, <3>1, <3>2
  <2>3. QED
    BY <2>1, <2>2
<1>8. \A l \in 1 .. n : \E y \in M : out2[y] = l
  <2>1. \A l \in 1 .. n : \E y \in L : out[y] = l
    BY DEF LabelOK
  <2>2. QED
    BY <1>4, <2>1
<1>9. M \subseteq Point /\ \A y \in Point \ M : y \in Point \ L /\ out2[y] = out[y]
  BY <1>2, <1>3
<1> HIDE DEF M
<1>10. \A y \in Point \ M : /\ out2[y] \in {0, 1}
                            /\ out2[y] = 0 => GoesDown(Adjacent, low, to, to[y])
                            /\ to[y] = y /\ GoesDown(Adjacent, low, to, y) => out2[y] = 0
  BY <1>9 DEF LabelOK
<1>11. LabelOK(low, M, c, out2, n, to)
  BY <1>1, <1>2, <1>3, <1>6, <1>7, <1>8, <1>9, <1>10 DEF LabelOK
<1>12. QED
  BY <1>11 DEF M, out2, c

-----------------------------------------------------------------------------
(* The zones are the flat zones of the property. *)
LEMMA ZoneIs ==
    ASSUME NEW to, WeakOrder(Lower(f)), Zones(Adjacent, Lower(f), to), NEW x \in Point
    PROVE  /\ ZoneOf(x, Point, Adjacent) = {y \in Point : to[y] = to[x]}
           /\ IsMinimum(ZoneOf(x, Point, Adjacent), Point, Adjacent)
                 <=> ~GoesDown(Adjacent, Lower(f), to, to[x])
<1> DEFINE low == Lower(f)
           S == {y \in Point : ~cmp(f[x], f[y]) /\ ~cmp(f[y], f[x])}
           C == Component(S, x, Adjacent)
           Z == {y \in Point : to[y] = to[x]}
<1>1. \A y, z \in Point : <<y, z>> \in low <=> cmp(f[y], f[z])
  BY DEF Lower
<1> HIDE DEF low
<1>2. S = {y \in Point : Flat(low, x, y)}
  BY <1>1 DEF Flat
<1>3. \A y, z \in Point : Flat(low, y, z) => Flat(low, z, y)
  BY DEF Flat
<1>4. \A y, z, u \in Point : Flat(low, y, z) /\ Flat(low, z, u) => Flat(low, y, u)
  BY DEF WeakOrder, low
<1>5. /\ to \in [Point -> Point] /\ Adjacent \subseteq Point \X Point
      /\ \A e \in Adjacent : Flat(low, e[1], e[2]) => to[e[1]] = to[e[2]]
      /\ \A y, z \in Point : to[y] = to[z] =>
            /\ Flat(low, y, z)
            /\ \A T : y \in T /\ FlatClosed(T, Adjacent, low) => z \in T
  BY DEF Zones, low
<1>6. x \in S
  BY <1>2, <1>5
<1> HIDE DEF S
<1>7. IsFiniteSet(S)
  BY <1>2, PointsAreFinite, FS_Subset
<1>8. IsComponent(C, S, x, Adjacent)
  BY <1>6, <1>7, ComponentIs
<1> HIDE DEF C
<1>9. Z \subseteq C
  <2>1. FlatClosed(C, Adjacent, low)
    <3> SUFFICES ASSUME NEW e \in Adjacent, e[1] \in C, Flat(low, e[1], e[2]) PROVE e[2] \in C
      BY DEF FlatClosed
    <3>1. e = <<e[1], e[2]>> /\ e[1] \in Point /\ e[2] \in Point
      BY <1>5
    <3>2. e[2] \in S
      BY <1>2, <1>4, <1>8, <3>1 DEF IsComponent
    <3>3. QED
      BY <1>8, <3>1, <3>2 DEF IsComponent, NoPairLeaves
  <2>2. x \in C
    BY <1>8 DEF IsComponent
  <2>3. QED
    BY <1>5, <2>1, <2>2
<1>10. C \subseteq Z
  <2>1. NoPairLeaves(Z, S, Adjacent)
    <3> SUFFICES ASSUME NEW o \in Z, NEW r \in S, <<o, r>> \in Adjacent PROVE r \in Z
      BY DEF NoPairLeaves
    <3>1. o \in Point /\ r \in Point /\ Flat(low, x, r) /\ to[o] = to[x]
      BY <1>2
    <3>2. Flat(low, o, x)
      BY <1>5, <3>1
    <3>3. Flat(low, o, r)
      BY <1>4, <3>1, <3>2
    <3>4. to[o] = to[r]
      <4>1. <<o, r>>[1] = o /\ <<o, r>>[2] = r
        OBVIOUS
      <4>2. QED
        BY <1>5, <3>3, <4>1
    <3>5. QED
      BY <3>1, <3>4
  <2>2. x \in Z
    OBVIOUS
  <2> HIDE DEF Z
  <2>3. QED
    BY <1>8, <2>1, <2>2 DEF IsComponent
<1>11. ZoneOf(x, Point, Adjacent) = C
  BY DEF ZoneOf, C, S
<1>12. C = Z
  BY <1>9, <1>10
<1>13. IsMinimum(Z, Point, Adjacent) <=> ~GoesDown(Adjacent, low, to, to[x])
  <2>1. \A e \in Adjacent : e[1] \in Point /\ e[2] \in Point
    BY <1>5
  <2>2. \A e \in Adjacent : (<<e[2], e[1]>> \in low <=> cmp(f[e[2]], f[e[1]]))
                            /\ (e[1] \in Z <=> to[e[1]] = to[x])
    BY <1>1, <2>1
  <2> HIDE DEF Z
  <2>3. QED
    BY <2>1, <2>2 DEF IsMinimum, GoesDown
<1>14. QED
  BY <1>11, <1>12, <1>13 DEF low

LEMMA LabelsEnd ==
    ASSUME NEW to, LabelOK(Lower(f), Point, parent, output, n_label, to)
    PROVE  LabelsAreMinima
<1>1. WeakOrder(Lower(f)) /\ Zones(Adjacent, Lower(f), to) /\ n_label \in Nat /\ to \in [Point -> Point]
  BY DEF LabelOK, Zones
<1>2. \A y \in Point : /\ to[y] \in Point /\ output[y] \in 0 .. n_label
                       /\ output[y] = output[to[y]]
                       /\ output[y] = 0 <=> GoesDown(Adjacent, Lower(f), to, to[y])
  BY DEF LabelOK
<1>3. \A y, z \in Point : output[y] = output[z] /\ output[y] # 0 => to[y] = to[z]
  BY DEF LabelOK
<1>4. \A l \in 1 .. n_label : \E y \in Point : output[y] = l
  BY DEF LabelOK
<1>5. {output[x] : x \in Point} \ {0} = 1 .. n_label
  <2>1. \A y \in Point : output[y] # 0 => output[y] \in 1 .. n_label
    BY <1>1, <1>2
  <2>2. \A l \in 1 .. n_label : l # 0
    BY <1>1
  <2>3. QED
    BY <1>4, <2>1, <2>2
<1>6. ASSUME NEW x \in Point
      PROVE  \E zone \in {ZoneOf(x, Point, Adjacent)} :
                IF IsMinimum(zone, Point, Adjacent)
                THEN output[x] # 0 /\ \A y \in Point : output[y] = output[x] <=> y \in zone
                ELSE output[x] = 0
  <2> DEFINE zone == ZoneOf(x, Point, Adjacent)
  <2>1. /\ zone = {y \in Point : to[y] = to[x]}
        /\ IsMinimum(zone, Point, Adjacent) <=> ~GoesDown(Adjacent, Lower(f), to, to[x])
    BY <1>1, ZoneIs
  <2> HIDE DEF zone
  <2>2. ASSUME IsMinimum(zone, Point, Adjacent)
        PROVE  output[x] # 0 /\ \A y \in Point : output[y] = output[x] <=> y \in zone
    <3>1. output[x] # 0
      BY <1>2, <2>1, <2>2
    <3>2. \A y \in Point : to[y] = to[x] => output[y] = output[x]
      BY <1>2
    <3>3. QED
      BY <1>3, <2>1, <3>1, <3>2
  <2>3. ~IsMinimum(zone, Point, Adjacent) => output[x] = 0
    BY <1>2, <2>1
  <2>4. QED
    BY <2>2, <2>3 DEF zone
<1>7. QED
  BY <1>5, <1>6 DEF LabelsAreMinima

-----------------------------------------------------------------------------
(* The actions. *)

ScanInv ==
    pc = "scan" =>
        /\ i \in 1 .. Len(Raster) /\ k \in Nat \ {0}
        /\ k <= Len(NbhBefore[Raster[i]]) + 1
        /\ n_label = 0
        /\ \E to : ScanOK(Lower(f), SeenPairs(i, k), Scanned(i - 1), Raster[i],
                          parent, output, root, possible, to)

HasLabel == IF pc = "label" THEN Scanned(i - 1) ELSE Point

LabelInv ==
    pc \in {"label", "end"} =>
        /\ i \in 1 .. Len(Raster)
        /\ \E to : LabelOK(Lower(f), HasLabel, parent, output, n_label, to)

MinimaInv == ScanInv /\ LabelInv

-----------------------------------------------------------------------------
LEMMA MinimaInit == Init => MinimaInv
<1> SUFFICES ASSUME Init PROVE MinimaInv
  OBVIOUS
<1> DEFINE to == [x \in Point |-> x]
<1>1. /\ f \in Images /\ output = [x \in Point |-> kUnseen] /\ parent = [x \in Point |-> Nowhere]
      /\ pc = "scan" /\ i = 1 /\ k = 1 /\ root = Raster[1] /\ possible = TRUE /\ n_label = 0
  BY DEF Init
<1>2. /\ 1 \in 1 .. Len(Raster) /\ Raster[1] \in Point
  BY RanksAre
<1>3. Scanned(1 - 1) = {} /\ PairsUpTo(1 - 1) = {}
  <2>1. Scanned(1 - 1) = {}
    BY DEF Scanned
  <2>2. QED
    BY <2>1 DEF PairsUpTo
<1>4. SeenPairs(1, 1) = {}
  BY <1>2, <1>3, PairsFirst
<1>5. WeakOrder(Lower(f))
  BY <1>1, ImageIsOrdered
<1>6. Zones({}, Lower(f), to)
  <2>1. \A x, y \in Point : to[x] = to[y] => x = y
    OBVIOUS
  <2>2. \A x \in Point : Flat(Lower(f), x, x)
    BY <1>5 DEF WeakOrder, Flat
  <2>3. to \in [Point -> Point]
    OBVIOUS
  <2> HIDE DEF to
  <2>4. QED
    BY <2>1, <2>2, <2>3 DEF Zones
<1>7. PointsOK(Lower(f), {}, {}, parent, output, to)
  <2>1. IsForest(parent, {}, to)
    BY <1>1 DEF IsForest
  <2>2. output \in [Point -> Int] /\ \A y \in Point : y \notin {} <=> output[y] = kUnseen
    BY <1>1 DEF kUnseen
  <2>3. QED
    BY <1>5, <1>6, <2>1, <2>2 DEF PointsOK
<1> HIDE DEF to
<1>8. ScanOK(Lower(f), {}, {}, Raster[1], parent, output, root, possible, to)
  <2>1. ScanOK(Lower(f), {}, {}, Raster[1], parent, output, Raster[1], TRUE, to)
    BY <1>2, <1>7, PointStarts
  <2>2. QED
    BY <1>1, <2>1
<1>9. DOMAIN NbhBefore[Raster[1]] = 1 .. Len(NbhBefore[Raster[1]]) /\ Len(NbhBefore[Raster[1]]) \in Nat
  BY <1>2, LocalMinimaAssumption
<1>10. ScanInv
  <2>1. SeenPairs(i, k) = {} /\ Scanned(i - 1) = {} /\ Raster[i] = Raster[1]
    BY <1>1, <1>3, <1>4
  <2>2. ScanOK(Lower(f), SeenPairs(i, k), Scanned(i - 1), Raster[i], parent, output, root, possible, to)
    BY <1>8, <2>1
  <2>3. k <= Len(NbhBefore[Raster[i]]) + 1
    BY <1>1, <1>9
  <2>4. i \in 1 .. Len(Raster) /\ k \in Nat \ {0} /\ n_label = 0
    BY <1>1, <1>2
  <2>5. QED
    BY <2>2, <2>3, <2>4 DEF ScanInv
<1>11. QED
  BY <1>1, <1>10 DEF MinimaInv, LabelInv

-----------------------------------------------------------------------------
(* What a step over a neighbour starts from. *)
LEMMA NeighbourFacts ==
    ASSUME MinimaInv, NextNeighbour
    PROVE  /\ pc = "scan" /\ pc' = "scan" /\ i \in 1 .. Len(Raster) /\ k \in Nat \ {0}
           /\ k' = k + 1 /\ f' = f /\ i' = i /\ n_label' = n_label /\ n_label = 0
           /\ k' \in Nat \ {0} /\ k' <= Len(NbhBefore[Raster[i]]) + 1
           /\ q = NbhBefore[Raster[i]][k] /\ p = Raster[i] /\ p \in Point
           /\ q \in Point => q \in Scanned(i - 1)
           /\ SeenPairs(i, k') = IF q \in Point THEN SeenPairs(i, k) \cup Both(p, q) ELSE SeenPairs(i, k)
           /\ \E to : ScanOK(Lower(f), SeenPairs(i, k), Scanned(i - 1), p, parent, output, root, possible, to)
<1>1. /\ pc = "scan" /\ pc' = "scan" /\ k' = k + 1 /\ f' = f /\ i' = i /\ n_label' = n_label
      /\ k <= Len(NbhBefore[p])
  BY DEF NextNeighbour
<1>2. /\ i \in 1 .. Len(Raster) /\ k \in Nat \ {0} /\ n_label = 0
      /\ \E to : ScanOK(Lower(f), SeenPairs(i, k), Scanned(i - 1), p, parent, output, root, possible, to)
  BY <1>1 DEF MinimaInv, ScanInv, p
<1>3. q = NbhBefore[Raster[i]][k] /\ p = Raster[i]
  BY DEF p, q
<1>4. p \in Point /\ At(p) = i
  BY <1>2, <1>3, RanksAre
<1>5. DOMAIN NbhBefore[p] = 1 .. Len(NbhBefore[p]) /\ Len(NbhBefore[p]) \in Nat
  BY <1>4, LocalMinimaAssumption
<1>6. k \in DOMAIN NbhBefore[p] /\ k' \in Nat \ {0} /\ k' <= Len(NbhBefore[p]) + 1
  BY <1>1, <1>2, <1>5
<1>7. IsBefore(q, p)
  BY <1>3, <1>6 DEF IsBefore
<1>8. q \in Point => q \in Scanned(i - 1)
  BY <1>2, <1>4, <1>7, BeforeIs, ScannedIs
<1>9. SeenPairs(i, k + 1) = IF q \in Point THEN SeenPairs(i, k) \cup Both(p, q) ELSE SeenPairs(i, k)
  BY <1>2, <1>3, PairsNext
<1>10. QED
  BY <1>1, <1>2, <1>3, <1>4, <1>6, <1>8, <1>9

(* What it proves. *)
LEMMA NeighbourIsSeen ==
    ASSUME MinimaInv, NextNeighbour, NEW to,
           ScanOK(Lower(f), SeenPairs(i, k'), Scanned(i - 1), p, parent', output', root', possible', to)
    PROVE  MinimaInv'
<1>1. /\ pc' = "scan" /\ i \in 1 .. Len(Raster) /\ f' = f /\ i' = i /\ n_label' = 0
      /\ k' \in Nat \ {0} /\ k' <= Len(NbhBefore[Raster[i]]) + 1 /\ p = Raster[i]
  BY NeighbourFacts
<1>2. Lower(f)' = Lower(f)
  BY <1>1 DEF Lower
<1>3. ScanInv'
  <2>1. SeenPairs(i, k)' = SeenPairs(i, k') /\ Scanned(i - 1)' = Scanned(i - 1) /\ Raster[i'] = p
    BY <1>1
  <2>2. ScanOK(Lower(f)', SeenPairs(i, k)', Scanned(i - 1)', Raster[i'], parent', output', root', possible', to)
    BY <1>2, <2>1
  <2>3. QED
    BY <1>1, <2>2 DEF ScanInv
<1>4. LabelInv'
  BY <1>1 DEF LabelInv
<1>5. QED
  BY <1>3, <1>4 DEF MinimaInv

LEMMA ExtensionKeeps == ASSUME MinimaInv, ScanExtension PROVE MinimaInv'
<1>1. NextNeighbour /\ ~Seen /\ output' = output /\ parent' = parent /\ root' = root /\ possible' = possible
  BY DEF ScanExtension
<1>2. PICK to : ScanOK(Lower(f), SeenPairs(i, k), Scanned(i - 1), p, parent, output, root, possible, to)
  BY <1>1, NeighbourFacts
<1>3. q \notin Point
  BY <1>1, <1>2, NeighbourFacts DEF Seen, ScanOK
<1>4. SeenPairs(i, k') = SeenPairs(i, k)
  BY <1>1, <1>3, NeighbourFacts
<1>5. QED
  BY <1>1, <1>2, <1>4, NeighbourIsSeen

LEMMA LowerKeeps == ASSUME MinimaInv, ScanLower PROVE MinimaInv'
<1>1. /\ NextNeighbour /\ Seen /\ cmp(f[q], f[p])
      /\ output' = output /\ parent' = parent /\ root' = root /\ possible' = FALSE
  BY DEF ScanLower
<1>2. PICK to : ScanOK(Lower(f), SeenPairs(i, k), Scanned(i - 1), p, parent, output, root, possible, to)
  BY <1>1, NeighbourFacts
<1>3. /\ q \in Point /\ p \in Point /\ q \in Scanned(i - 1)
      /\ SeenPairs(i, k') = SeenPairs(i, k) \cup Both(p, q)
  BY <1>1, NeighbourFacts DEF Seen
<1>4. <<q, p>> \in Lower(f)
  BY <1>1, <1>3 DEF Lower
<1>5. ScanOK(Lower(f), SeenPairs(i, k'), Scanned(i - 1), p, parent, output, root, FALSE, to)
  <2>1. ScanOK(Lower(f), SeenPairs(i, k) \cup Both(p, q), Scanned(i - 1), p, parent, output, root, FALSE, to)
    BY <1>2, <1>3, <1>4, LowerNeighbour
  <2>2. QED
    BY <1>3, <2>1
<1>6. QED
  BY <1>1, <1>5, NeighbourIsSeen

LEMMA HigherKeeps == ASSUME MinimaInv, ScanHigher PROVE MinimaInv'
<1>1. /\ NextNeighbour /\ Seen /\ cmp(f[p], f[q])
      /\ output' = [output EXCEPT ![zfindroot(parent, q)] = 0]
      /\ parent' = Compressed(parent, q) /\ root' = root /\ possible' = possible
  BY DEF ScanHigher
<1>2. PICK to : ScanOK(Lower(f), SeenPairs(i, k), Scanned(i - 1), p, parent, output, root, possible, to)
  BY <1>1, NeighbourFacts
<1>3. /\ q \in Point /\ p \in Point /\ q \in Scanned(i - 1)
      /\ SeenPairs(i, k') = SeenPairs(i, k) \cup Both(p, q)
  BY <1>1, NeighbourFacts DEF Seen
<1>4. <<p, q>> \in Lower(f)
  BY <1>1, <1>3 DEF Lower
<1>5. ScanOK(Lower(f), SeenPairs(i, k'), Scanned(i - 1), p, parent', output', root, possible, to)
  <2>1. ScanOK(Lower(f), SeenPairs(i, k) \cup Both(p, q), Scanned(i - 1), p, Compressed(parent, q),
               [output EXCEPT ![zfindroot(parent, q)] = 0], root, possible, to)
    BY <1>2, <1>3, <1>4, HigherNeighbour
  <2>2. QED
    BY <1>1, <1>3, <2>1
<1>6. QED
  BY <1>1, <1>5, NeighbourIsSeen

LEMMA FlatKeeps == ASSUME MinimaInv, ScanFlat PROVE MinimaInv'
<1> DEFINE q_root == zfindroot(parent, q)
           first  == IF Precedes(q_root, root) THEN q_root ELSE root
           second == IF Precedes(q_root, root) THEN root ELSE q_root
<1>1. /\ NextNeighbour /\ Seen /\ ~cmp(f[q], f[p]) /\ ~cmp(f[p], f[q]) /\ output' = output
      /\ IF q_root = root
         THEN parent' = Compressed(parent, q) /\ root' = root /\ possible' = possible
         ELSE /\ possible' = (possible /\ output[q_root] # 0)
              /\ parent' = [Compressed(parent, q) EXCEPT ![second] = first]
              /\ root' = first
  BY DEF ScanFlat
<1>2. PICK to : ScanOK(Lower(f), SeenPairs(i, k), Scanned(i - 1), p, parent, output, root, possible, to)
  BY <1>1, NeighbourFacts
<1>3. /\ q \in Point /\ p \in Point /\ q \in Scanned(i - 1)
      /\ SeenPairs(i, k') = SeenPairs(i, k) \cup Both(p, q)
  BY <1>1, NeighbourFacts DEF Seen
<1>4. Flat(Lower(f), p, q)
  BY <1>1, <1>3 DEF Lower, Flat
<1>5. q_root = to[q] /\ to[q] \in Point /\ root \in Point
  <2>1. IsForest(parent, Scanned(i - 1), to) /\ to[p] = root
    BY <1>2 DEF ScanOK
  <2>2. zfindroot(parent, q) = to[q]
    BY <1>3, <2>1, RootIsFound
  <2>3. to \in [Point -> Point]
    BY <2>1 DEF IsForest
  <2>4. QED
    BY <1>3, <2>1, <2>2, <2>3
<1> HIDE DEF q_root
<1>6. CASE q_root = root
  <2>1. ScanOK(Lower(f), SeenPairs(i, k'), Scanned(i - 1), p, parent', output, root, possible, to)
    <3>1. ScanOK(Lower(f), SeenPairs(i, k) \cup Both(p, q), Scanned(i - 1), p, Compressed(parent, q),
                 output, root, possible, to)
      BY <1>2, <1>3, <1>4, <1>5, <1>6, NeighbourInZone
    <3>2. QED
      BY <1>1, <1>3, <1>6, <3>1
  <2>2. QED
    BY <1>1, <1>6, <2>1, NeighbourIsSeen
<1>7. CASE q_root # root
  <2>1. {first, second} = {to[q], root} /\ At(first) < At(second)
    <3>1. At(q_root) \in Nat /\ At(root) \in Nat /\ At(q_root) # At(root)
          /\ (Precedes(q_root, root) <=> At(q_root) < At(root))
      BY <1>5, <1>7, RanksAre
    <3>2. QED
      BY <1>5, <3>1
  <2> HIDE DEF first, second
  <2>2. ScanOK(Lower(f), SeenPairs(i, k) \cup Both(p, q), Scanned(i - 1), p,
               [Compressed(parent, q) EXCEPT ![second] = first],
               output, first, possible /\ output[to[q]] # 0, MergedTo(to, first, second))
    BY <1>2, <1>3, <1>4, <1>5, <1>7, <2>1, ZonesJoin
  <2>3. ScanOK(Lower(f), SeenPairs(i, k'), Scanned(i - 1), p, parent', output', root', possible',
               MergedTo(to, first, second))
    <3>1. possible' = (possible /\ output[to[q]] # 0)
      BY <1>1, <1>5, <1>7
    <3>2. parent' = [Compressed(parent, q) EXCEPT ![second] = first] /\ root' = first /\ output' = output
      BY <1>1, <1>7
    <3>3. QED
      BY <1>3, <2>2, <3>1, <3>2
  <2>4. QED
    BY <1>1, <2>3, NeighbourIsSeen
<1>8. QED
  BY <1>6, <1>7

LEMMA AllScanned == Scanned(Len(Raster)) = Point /\ PairsUpTo(Len(Raster)) = Adjacent
<1>1. Scanned(Len(Raster)) = Point
  BY RanksAre DEF Scanned
<1>2. QED
  BY <1>1 DEF PairsUpTo, Adjacent

LEMMA EndPixelKeeps == ASSUME MinimaInv, EndPixel PROVE MinimaInv'
<1> DEFINE x == Raster[i]
           E == PairsUpTo(i)
           low == Lower(f)
<1>1. /\ pc = "scan" /\ k > Len(NbhBefore[x])
      /\ parent' = [parent EXCEPT ![x] = root]
      /\ output' = [output EXCEPT ![x] = Flag(possible), ![root] = Flag(possible)]
      /\ k' = 1 /\ possible' = TRUE /\ f' = f /\ n_label' = n_label
      /\ IF i < Len(Raster) THEN i' = i + 1 /\ root' = Raster[i + 1] /\ pc' = pc
                            ELSE i' = 1 /\ root' = root /\ pc' = "label"
  BY DEF EndPixel, p
<1>2. /\ i \in 1 .. Len(Raster) /\ k \in Nat \ {0} /\ n_label = 0
      /\ k <= Len(NbhBefore[x]) + 1
  BY <1>1 DEF MinimaInv, ScanInv
<1>3. PICK to : ScanOK(low, SeenPairs(i, k), Scanned(i - 1), x, parent, output, root, possible, to)
  BY <1>1 DEF MinimaInv, ScanInv
<1>4. /\ x \in Point /\ At(x) = i /\ Len(Raster) \in Nat \ {0}
      /\ \A a \in 1 .. Len(Raster) : Raster[a] \in Point /\ At(Raster[a]) = a
  BY <1>2, RanksAre
<1>5. Len(NbhBefore[x]) \in Nat
  BY <1>4, LocalMinimaAssumption
<1>6. k = Len(NbhBefore[x]) + 1
  BY <1>1, <1>2, <1>5
<1>7. SeenPairs(i, k) = E
  BY <1>2, <1>6, PairsLast
<1>8. Scanned(i) = Scanned(i - 1) \cup {x} /\ Scanned(i) \subseteq Point
  BY <1>2, ScannedIs
<1> HIDE DEF x, E, low
<1>9. PointsOK(low, E, Scanned(i), parent', output', to)
  <2>1. PointsOK(low, E, Scanned(i - 1) \cup {x}, [parent EXCEPT ![x] = root],
                 [output EXCEPT ![x] = Flag(possible), ![root] = Flag(possible)], to)
    BY <1>3, <1>7, PointEnds
  <2>2. QED
    BY <1>1, <1>8, <2>1
<1>10. low' = low
  BY <1>1 DEF low, Lower
<1>11. CASE i < Len(Raster)
  <2>1. i' = i + 1 /\ root' = Raster[i + 1] /\ pc' = "scan"
    BY <1>1, <1>11
  <2>2. i + 1 \in 1 .. Len(Raster) /\ i + 1 - 1 = i /\ i \in Nat
    BY <1>2, <1>4, <1>11
  <2>3. /\ Raster[i + 1] \in Point /\ Raster[i + 1] \notin Scanned(i)
        /\ \A y \in Scanned(i) : At(y) < At(Raster[i + 1])
    <3>1. Raster[i + 1] \in Point \ Scanned(i + 1 - 1) /\ \A y \in Point : y \in Scanned(i + 1 - 1) <=> At(y) < i + 1
      BY <2>2, ScannedIs
    <3>2. QED
      BY <1>4, <1>8, <2>2, <3>1
  <2>4. E \subseteq Scanned(i) \X Scanned(i)
    BY DEF E, PairsUpTo, Adjacent
  <2>5. ScanOK(low, E, Scanned(i), Raster[i + 1], parent', output', Raster[i + 1], TRUE, to)
    BY <1>9, <2>3, <2>4, PointStarts
  <2>6. SeenPairs(i + 1, 1) = E
    BY <2>2, PairsFirst DEF E
  <2>7. Len(NbhBefore[Raster[i + 1]]) \in Nat
    BY <2>3, LocalMinimaAssumption
  <2>8. ScanInv'
    <3>1. SeenPairs(i, k)' = E /\ Scanned(i - 1)' = Scanned(i) /\ Raster[i'] = Raster[i + 1]
      BY <1>1, <2>1, <2>2, <2>6
    <3>2. ScanOK(Lower(f)', SeenPairs(i, k)', Scanned(i - 1)', Raster[i'], parent', output', root', possible', to)
      BY <1>1, <1>10, <2>1, <2>5, <3>1 DEF low
    <3>3. i' \in 1 .. Len(Raster) /\ k' \in Nat \ {0} /\ k' <= Len(NbhBefore[Raster[i']]) + 1 /\ n_label' = 0
      BY <1>1, <1>2, <2>1, <2>2, <2>7
    <3>4. QED
      BY <3>2, <3>3 DEF ScanInv
  <2>9. LabelInv'
    BY <2>1 DEF LabelInv
  <2>10. QED
    BY <2>8, <2>9 DEF MinimaInv
<1>12. CASE ~(i < Len(Raster))
  <2>1. i' = 1 /\ pc' = "label" /\ i = Len(Raster)
    BY <1>1, <1>2, <1>4, <1>12
  <2>2. PointsOK(low, Adjacent, Point, parent', output', to)
    BY <1>9, <2>1, AllScanned DEF E
  <2>3. LabelOK(low, {}, parent', output', 0, to)
    BY <2>2, LabelStarts
  <2>4. HasLabel' = {}
    <3>1. Scanned(1 - 1) = {}
      BY DEF Scanned
    <3>2. QED
      BY <2>1, <3>1 DEF HasLabel
  <2>5. LabelOK(Lower(f)', HasLabel', parent', output', n_label', to)
    BY <1>1, <1>2, <1>10, <2>3, <2>4 DEF low
  <2>6. 1 \in 1 .. Len(Raster)
    BY <1>4
  <2>7. LabelInv'
    BY <2>1, <2>5, <2>6 DEF LabelInv
  <2>8. ScanInv'
    BY <2>1 DEF ScanInv
  <2>9. QED
    BY <2>7, <2>8 DEF MinimaInv
<1>13. QED
  BY <1>11, <1>12

-----------------------------------------------------------------------------
LEMMA LabelFacts ==
    ASSUME MinimaInv, NextLabel
    PROVE  /\ f' = f /\ p = Raster[i] /\ i \in 1 .. Len(Raster) /\ i' \in 1 .. Len(Raster)
           /\ pc' \in {"label", "end"} /\ HasLabel' = Scanned(i - 1) \cup {p}
           /\ IsNextPoint(p, Scanned(i - 1))
           /\ \E to : LabelOK(Lower(f), Scanned(i - 1), parent, output, n_label, to)
<1>1. /\ pc = "label" /\ f' = f
      /\ IF i < Len(Raster) THEN i' = i + 1 /\ pc' = pc ELSE i' = i /\ pc' = "end"
  BY DEF NextLabel
<1>2. /\ i \in 1 .. Len(Raster)
      /\ \E to : LabelOK(Lower(f), Scanned(i - 1), parent, output, n_label, to)
  BY <1>1 DEF MinimaInv, LabelInv, HasLabel
<1>3. p = Raster[i] /\ Len(Raster) \in Nat \ {0} /\ At(p) = i /\ p \in Point
  BY <1>2, RanksAre DEF p
<1>4. /\ Scanned(i) = Scanned(i - 1) \cup {p} /\ p \in Point \ Scanned(i - 1)
      /\ \A x \in Point : x \in Scanned(i - 1) <=> At(x) < i
  BY <1>2, <1>3, ScannedIs
<1>5. IsNextPoint(p, Scanned(i - 1))
  BY <1>3, <1>4 DEF IsNextPoint
<1>6. HasLabel' = Scanned(i)
  <2>1. CASE i < Len(Raster)
    <3>1. pc' = "label" /\ i' - 1 = i
      BY <1>1, <1>2, <2>1
    <3>2. QED
      BY <3>1 DEF HasLabel
  <2>2. CASE ~(i < Len(Raster))
    <3>1. i = Len(Raster) /\ pc' = "end"
      BY <1>1, <1>2, <1>3, <2>2
    <3>2. QED
      BY <3>1, AllScanned DEF HasLabel
  <2>3. QED
    BY <2>1, <2>2
<1>7. i' \in 1 .. Len(Raster) /\ pc' \in {"label", "end"}
  BY <1>1, <1>2, <1>3
<1>8. QED
  BY <1>1, <1>2, <1>3, <1>4, <1>5, <1>6, <1>7

LEMMA PointIsLabelled ==
    ASSUME MinimaInv, NextLabel, NEW to,
           LabelOK(Lower(f), Scanned(i - 1) \cup {p}, parent', output', n_label', to)
    PROVE  MinimaInv'
<1>1. /\ f' = f /\ i' \in 1 .. Len(Raster) /\ HasLabel' = Scanned(i - 1) \cup {p}
      /\ pc' \in {"label", "end"}
  BY LabelFacts
<1>2. Lower(f)' = Lower(f)
  BY <1>1 DEF Lower
<1>3. LabelOK(Lower(f)', HasLabel', parent', output', n_label', to)
  BY <1>1, <1>2
<1>4. LabelInv'
  BY <1>1, <1>3 DEF LabelInv
<1>5. ScanInv'
  BY <1>1 DEF ScanInv
<1>6. QED
  BY <1>4, <1>5 DEF MinimaInv

LEMMA LabelNoneKeeps == ASSUME MinimaInv, LabelNone PROVE MinimaInv'
<1>1. NextLabel /\ output[p] = 0 /\ output' = output /\ parent' = parent /\ n_label' = n_label
  BY DEF LabelNone
<1>2. PICK to : LabelOK(Lower(f), Scanned(i - 1), parent, output, n_label, to)
  BY <1>1, LabelFacts
<1>3. LabelOK(Lower(f), Scanned(i - 1) \cup {p}, parent, output, n_label, to)
  BY <1>1, <1>2, LabelFacts, PointWithoutLabel
<1>4. QED
  BY <1>1, <1>3, PointIsLabelled

LEMMA LabelRootKeeps == ASSUME MinimaInv, LabelRoot PROVE MinimaInv'
<1>1. /\ NextLabel /\ output[p] # 0 /\ parent[p] = p /\ n_label' = n_label + 1
      /\ output' = [output EXCEPT ![p] = n_label + 1] /\ parent' = parent
  BY DEF LabelRoot
<1>2. PICK to : LabelOK(Lower(f), Scanned(i - 1), parent, output, n_label, to)
  BY <1>1, LabelFacts
<1>3. LabelOK(Lower(f), Scanned(i - 1) \cup {p}, parent', output', n_label', to)
  BY <1>1, <1>2, LabelFacts, RootTakesLabel
<1>4. QED
  BY <1>1, <1>3, PointIsLabelled

LEMMA LabelOtherKeeps == ASSUME MinimaInv, LabelOther PROVE MinimaInv'
<1>1. /\ NextLabel /\ parent[p] # p /\ n_label' = n_label
      /\ output' = [output EXCEPT ![p] = output[zfindroot(parent, p)]]
      /\ parent' = Compressed(parent, p)
  BY DEF LabelOther
<1>2. PICK to : LabelOK(Lower(f), Scanned(i - 1), parent, output, n_label, to)
  BY <1>1, LabelFacts
<1>3. LabelOK(Lower(f), Scanned(i - 1) \cup {p}, parent', output', n_label', to)
  BY <1>1, <1>2, LabelFacts, PointTakesLabel
<1>4. QED
  BY <1>1, <1>3, PointIsLabelled

(* A step of anything else keeps f and leads to none of the three phases, *)
(* or changes nothing that the invariant is about.                        *)
LEMMA MinimaStutter ==
    ASSUME MinimaInv, UNCHANGED vars
    PROVE  MinimaInv'
BY DEF MinimaInv, ScanInv, LabelInv, HasLabel, vars, SeenPairs, Scanned, PairsUpTo, Before, Lower

LEMMA MinimaNext == MinimaInv /\ [Next]_vars => MinimaInv'
<1> SUFFICES ASSUME MinimaInv, [Next]_vars PROVE MinimaInv'
  OBVIOUS
<1>1. CASE Next
  BY <1>1, ExtensionKeeps, LowerKeeps, HigherKeeps, FlatKeeps, EndPixelKeeps,
     LabelNoneKeeps, LabelRootKeeps, LabelOtherKeeps DEF Next
<1>2. CASE UNCHANGED vars
  BY <1>2, MinimaStutter
<1>3. QED
  BY <1>1, <1>2

LEMMA MinimaAreLabelled == MinimaInv => LabelsAreMinima
<1> SUFFICES ASSUME MinimaInv, pc = "end" PROVE LabelsAreMinima
  BY DEF LabelsAreMinima
<1>1. PICK to : LabelOK(Lower(f), Point, parent, output, n_label, to)
  BY DEF MinimaInv, LabelInv, HasLabel
<1>2. QED
  BY <1>1, LabelsEnd

(* local_minima labels the regional minima of every image and them only,     *)
(* each one with its own label, for any domain and neighbourhood, and any    *)
(* order of the levels.                                                      *)
THEOREM LocalMinimaCorrect == Spec => []LabelsAreMinima
<1>1. QED
  BY MinimaInit, MinimaNext, MinimaAreLabelled, PTL DEF Spec

(* No other step of the waterfall touches the scan or the labels before the *)
(* flooding.                                                                *)
LEMMA WaterfallKeeps == ASSUME MinimaInv, [WaterfallNext]_wvars PROVE MinimaInv'
<1>1. CASE LocalMinimaStep
  BY <1>1, MinimaNext DEF LocalMinimaStep
<1>2. CASE BlobsStep
  <2>1. pc' \in {"blobs", "labelled", "overflow"}
    BY <1>2 DEF BlobsStep, B!BlobsNext, B!Skip, B!NewComponent, B!Visit, B!Finish, B!Scanning
  <2>2. QED
    BY <2>1 DEF MinimaInv, ScanInv, LabelInv
<1>3. CASE StartFlood \/ Flood \/ SortGraph \/ UnionOfMst \/ SkipOfMst \/ SortMst \/ UnionOfTree \/ Return
  <2>1. pc' \in {"flood", "mst", "tree", "return"}
    BY <1>3 DEF StartFlood, Flood, SortGraph, UnionOfMst, SkipOfMst, SortMst, UnionOfTree, Return, Kruskal
  <2>2. QED
    BY <2>1 DEF MinimaInv, ScanInv, LabelInv
<1>4. CASE UNCHANGED wvars
  BY <1>4, MinimaStutter DEF wvars
<1>5. QED
  BY <1>1, <1>2, <1>3, <1>4 DEF WaterfallNext

(* The same of local_minima as a step of the waterfall. *)
THEOREM MinimaLabelled == WaterfallSpec => []LabelsAreMinima
<1>1. WaterfallInit => MinimaInv
  <2>1. ASSUME B!BlobsInit PROVE MinimaInv
    BY <2>1 DEF B!BlobsInit, MinimaInv, ScanInv, LabelInv
  <2>2. QED
    BY <2>1, MinimaInit DEF WaterfallInit
<1>2. MinimaInv /\ [WaterfallNext]_wvars => MinimaInv'
  BY WaterfallKeeps
<1>3. QED
  BY <1>1, <1>2, MinimaAreLabelled, PTL DEF WaterfallSpec

-----------------------------------------------------------------------------
(* The neighbours that blobs pushes. *)

LEMMA SelectedIs ==
    ASSUME NEW s, DOMAIN s = 1 .. Len(s), Len(s) \in Nat, NEW T
    PROVE  /\ B!Selected(s, T) \in Seq(T)
           /\ Range(B!Selected(s, T)) = {s[m] : m \in 1 .. Len(s)} \cap T
<1> DEFINE n == Len(s)
           g == [e \in (1 .. n) \X Seq(T) |-> IF s[e[1]] \in T THEN Append(e[2], s[e[1]]) ELSE e[2]]
           Is(u) == u = [m \in 0 .. n |-> IF m = 0 THEN <<>>
                                          ELSE IF s[m] \in T THEN Append(u[m - 1], s[m]) ELSE u[m - 1]]
           kept == CHOOSE u : Is(u)
<1>1. B!Selected(s, T) = kept[n]
  BY DEF B!Selected
<1>2. \E u \in [0 .. n -> Seq(T)] : Is(u)
  <2>1. \A m \in 1 .. n, v \in Seq(T) :
            g[<<m, v>>] = IF s[m] \in T THEN Append(v, s[m]) ELSE v
    OBVIOUS
  <2> HIDE DEF g
  <2>2. \A m \in 1 .. n, v \in Seq(T) : g[<<m, v>>] \in Seq(T)
    <3> SUFFICES ASSUME NEW m \in 1 .. n, NEW v \in Seq(T) PROVE g[<<m, v>>] \in Seq(T)
      OBVIOUS
    <3>1. g[<<m, v>>] = IF s[m] \in T THEN Append(v, s[m]) ELSE v
      BY <2>1
    <3>2. s[m] \in T => Append(v, s[m]) \in Seq(T)
      BY AppendProperties
    <3>3. QED
      BY <3>1, <3>2
  <2>3. <<>> \in Seq(T) /\ n \in Nat
    OBVIOUS
  <2> HIDE DEF n
  <2>4. PICK u \in [0 .. n -> Seq(T)] : IsRecursion(u, g, <<>>, n)
    BY <2>2, <2>3, RecursionExists
  <2>5. u = [m \in 0 .. n |-> IF m = 0 THEN <<>> ELSE g[<<m, u[m - 1]>>]]
    BY <2>4 DEF IsRecursion
  <2>6. \A m \in 0 .. n : m # 0 =>
            g[<<m, u[m - 1]>>] = IF s[m] \in T THEN Append(u[m - 1], s[m]) ELSE u[m - 1]
    <3> SUFFICES ASSUME NEW m \in 0 .. n, m # 0
                 PROVE  g[<<m, u[m - 1]>>] = IF s[m] \in T THEN Append(u[m - 1], s[m]) ELSE u[m - 1]
      OBVIOUS
    <3>1. m \in 1 .. n /\ m - 1 \in 0 .. n
      BY <2>3
    <3>2. u[m - 1] \in Seq(T)
      BY <3>1
    <3>3. QED
      BY <2>1, <3>1, <3>2
  <2>7. Is(u)
    BY <2>5, <2>6
  <2>8. QED
    BY <2>7
<1> HIDE DEF n
<1>3. Is(kept)
  <2> HIDE DEF Is
  <2>1. QED
    BY <1>2
<1> HIDE DEF kept
<1>4. n \in Nat
  BY DEF n
<1>5. kept[0] = <<>> /\ \A m \in Nat : m + 1 <= n =>
          kept[m + 1] = IF s[m + 1] \in T THEN Append(kept[m], s[m + 1]) ELSE kept[m]
  <2>1. \A m \in 0 .. n : kept[m] = IF m = 0 THEN <<>>
                                    ELSE IF s[m] \in T THEN Append(kept[m - 1], s[m]) ELSE kept[m - 1]
    BY <1>3
  <2>2. 0 \in 0 .. n /\ \A m \in Nat : m + 1 <= n => m + 1 \in 0 .. n /\ m + 1 # 0 /\ m + 1 - 1 = m
    BY <1>4
  <2> HIDE DEF Is
  <2>3. QED
    BY <2>1, <2>2
<1> HIDE DEF Is
<1> DEFINE Good(m) == kept[m] \in Seq(T) /\ Range(kept[m]) = {s[a] : a \in 1 .. m} \cap T
           H == {m \in Nat : m <= n => Good(m)}
<1>6. 0 \in H
  <2>1. <<>> \in Seq(T) /\ DOMAIN <<>> = {}
    BY EmptySeq
  <2>2. {s[a] : a \in 1 .. 0} = {} /\ Range(<<>>) = {}
    BY <2>1 DEF Range
  <2>3. Good(0)
    BY <1>5, <2>1, <2>2
  <2>4. QED
    BY <2>3
<1>7. ASSUME NEW m \in H PROVE m + 1 \in H
  <2>1. m \in Nat
    OBVIOUS
  <2> SUFFICES ASSUME m + 1 <= n PROVE Good(m + 1)
    BY <2>1
  <2>2. kept[m] \in Seq(T) /\ Range(kept[m]) = {s[a] : a \in 1 .. m} \cap T
    BY <1>4, <2>1
  <2>3. 1 .. m + 1 = (1 .. m) \cup {m + 1}
    BY <2>1
  <2>4. {s[a] : a \in 1 .. m + 1} = {s[a] : a \in 1 .. m} \cup {s[m + 1]}
    BY <2>3
  <2>5. CASE s[m + 1] \in T
    <3>1. kept[m + 1] = Append(kept[m], s[m + 1])
      BY <1>5, <2>1, <2>5
    <3>2. kept[m + 1] \in Seq(T)
      BY <2>2, <2>5, <3>1, AppendProperties
    <3>3. Range(kept[m + 1]) = Range(kept[m]) \cup {s[m + 1]}
      <4> DEFINE t == kept[m]
                 v == s[m + 1]
      <4>1. t \in Seq(T) /\ v \in T /\ kept[m + 1] = Append(t, v)
        BY <2>2, <2>5, <3>1
      <4> HIDE DEF t, v
      <4>2. /\ Len(t) \in Nat /\ DOMAIN t = 1 .. Len(t) /\ DOMAIN Append(t, v) = 1 .. Len(t) + 1
            /\ \A a \in 1 .. Len(t) : Append(t, v)[a] = t[a]
            /\ Append(t, v)[Len(t) + 1] = v
        BY <4>1, AppendProperties
      <4>3. Range(Append(t, v)) = Range(t) \cup {v}
        <5>1. 1 .. Len(t) + 1 = (1 .. Len(t)) \cup {Len(t) + 1}
          BY <4>2
        <5>2. QED
          BY <4>2, <5>1 DEF Range
      <4>4. QED
        BY <4>1, <4>3 DEF t, v
    <3>4. QED
      BY <2>2, <2>4, <2>5, <3>2, <3>3
  <2>6. CASE s[m + 1] \notin T
    <3>1. kept[m + 1] = kept[m]
      BY <1>5, <2>1, <2>6
    <3>2. QED
      BY <2>2, <2>4, <2>6, <3>1
  <2>7. QED
    BY <2>5, <2>6
<1> HIDE DEF H, Good
<1>8. H = Nat
  BY <1>6, <1>7, SetOfAllNaturals DEF H
<1>9. Good(n)
  BY <1>4, <1>8 DEF H
<1>10. QED
  BY <1>1, <1>9 DEF Good, n

-----------------------------------------------------------------------------
(* The search of the components. *)

Nb == B!Neighbours

(* The points of st have the last label, and unlabelled neighbours perhaps; *)
(* a point that has a label otherwise shares it with all its neighbours.    *)
BlobsOK(on, out, n, st) ==
    /\ on \subseteq Point /\ n \in Nat /\ out \in [Point -> 0 .. n] /\ st \subseteq Point
    /\ \A x \in Point : out[x] > 0 => x \in on
    /\ \A x \in st : out[x] = n /\ n > 0
    /\ \A x \in Point \ st, y \in on : out[x] > 0 /\ <<x, y>> \in Nb => out[y] = out[x]
    /\ \A x, y \in Point : out[x] = out[y] /\ out[x] > 0 =>
          \A T : x \in T /\ NoPairLeaves(T, on, Nb) => y \in T
    /\ \A l \in 1 .. n : \E x \in Point : out[x] = l

On == {x \in Point : seeds[x]}

BlobsInv ==
    /\ pc = "blobs" =>
          /\ seeds \in [Point -> BOOLEAN] /\ stack \in Seq(Point)
          /\ i \in 1 .. Len(Raster) + 1 /\ n_label <= MaxLabel
          /\ \A a \in 1 .. i - 1 : Raster[a] \in On => output[Raster[a]] > 0
          /\ BlobsOK(On, output, n_label, Range(stack))
    /\ BlobsAreComponents

(* The operators that both modules take from the library. *)
LEMMA SameOperators ==
    /\ \A s : B!Range(s) = Range(s) /\ B!Front(s) = Front(s) /\ B!Last(s) = Last(s)
    /\ \A S : B!Cardinality(S) = Cardinality(S)
    /\ \A S, x, adj : B!Component(S, x, adj) = Component(S, x, adj)
<1>1. \A s : B!Range(s) = Range(s)
  BY DEF B!Range, Range
<1>2. \A s : B!Front(s) = Front(s) /\ B!Last(s) = Last(s)
  BY DEF B!Front, Front, B!Last, Last
<1>3. \A S : B!Cardinality(S) = Cardinality(S)
  BY DEF B!Cardinality, Cardinality
<1>4. \A S, x, adj : B!Component(S, x, adj) = Component(S, x, adj)
  BY <1>3 DEF B!Component, Component
<1>5. QED
  BY <1>1, <1>2, <1>3, <1>4

LEMMA NeighboursAre ==
    /\ Nb \subseteq Point \X Point
    /\ \A x, y \in Point : <<x, y>> \in Nb <=> y \in Range(Nbh[x])
    /\ \A x, y \in Point : <<x, y>> \in Nb => <<y, x>> \in Nb
<1>1. Nb \subseteq Point \X Point /\ \A x, y \in Point : <<x, y>> \in Nb <=> y \in Range(Nbh[x])
  BY SameOperators DEF Nb, B!Neighbours
<1>2. \A x, y \in Point : <<x, y>> \in Adjacent => <<y, x>> \in Adjacent
  BY DEF Adjacent
<1>3. QED
  BY <1>1, <1>2, WaterfallAssumption

(* The label of a component that no point of the stack is in. *)
LEMMA BlobIsComponent ==
    ASSUME NEW on, NEW out, NEW n, BlobsOK(on, out, n, {}), NEW x \in Point, out[x] > 0
    PROVE  Component(on, x, Nb) = {y \in Point : out[y] = out[x]}
<1> DEFINE C == Component(on, x, Nb)
           Z == {y \in Point : out[y] = out[x]}
<1>1. x \in on /\ on \subseteq Point /\ IsFiniteSet(on)
  BY PointsAreFinite, FS_Subset DEF BlobsOK
<1>2. IsComponent(C, on, x, Nb)
  BY <1>1, ComponentIs
<1> HIDE DEF C
<1>3. NoPairLeaves(Z, on, Nb)
  <2>1. \A u \in Point, y \in on : out[u] > 0 /\ <<u, y>> \in Nb => out[y] = out[u]
    BY DEF BlobsOK
  <2>2. QED
    BY <1>1, <2>1 DEF NoPairLeaves
<1>4. C \subseteq Z
  BY <1>2, <1>3 DEF IsComponent
<1>5. Z \subseteq C
  <2>1. \A y \in Point : out[x] = out[y] =>
            \A T : x \in T /\ NoPairLeaves(T, on, Nb) => y \in T
    BY DEF BlobsOK
  <2>2. QED
    BY <1>2, <2>1 DEF IsComponent
<1>6. QED
  BY <1>4, <1>5 DEF C

(* The components as the property has them. *)
LEMMA ComponentsAre == B!Components = {Component(On, x, Nb) : x \in On}
<1> DEFINE F(on, adj) == {B!Component(on, x, adj) : x \in on}
           G == {F(on, adj) : on \in {On}, adj \in {Nb}}
<1>1. B!Components = UNION G
  BY DEF B!Components, On, Nb
<1>2. \A x \in On : B!Component(On, x, Nb) = Component(On, x, Nb)
  BY SameOperators
<1>3. F(On, Nb) = {Component(On, x, Nb) : x \in On}
  BY <1>2
<1> HIDE DEF F
<1>4. G = {F(On, Nb)}
  OBVIOUS
<1> HIDE DEF G
<1>5. QED
  BY <1>1, <1>3, <1>4

LEMMA ImageIsCounted ==
    ASSUME NEW n \in Nat, NEW h, DOMAIN h = 0 .. n - 1,
           \A a, b \in 0 .. n - 1 : h[a] = h[b] => a = b
    PROVE  Cardinality({h[a] : a \in 0 .. n - 1}) = n
<1> DEFINE D == {h[a] : a \in 0 .. n - 1}
           g == [C \in D |-> CHOOSE a \in 0 .. n - 1 : h[a] = C]
<1>1. \A C \in D : g[C] \in 0 .. n - 1 /\ h[g[C]] = C
  OBVIOUS
<1>2. DOMAIN g = D /\ g = [C \in D |-> g[C]]
  OBVIOUS
<1> HIDE DEF g
<1>3. g \in [D -> 0 .. n - 1]
  BY <1>1, <1>2
<1>4. \A a, b \in D : g[a] = g[b] => a = b
  BY <1>1
<1>5. ASSUME NEW v \in 0 .. n - 1 PROVE \E C \in D : g[C] = v
  <2>1. h[v] \in D
    OBVIOUS
  <2>2. g[h[v]] = v
    BY <1>1, <2>1
  <2>3. QED
    BY <2>1, <2>2
<1> HIDE DEF D
<1>6. IsNumbering(g, D, n)
  BY <1>3, <1>4, <1>5 DEF IsNumbering
<1>7. Cardinality(D) = n
  BY <1>6, Counted
<1>8. QED
  BY <1>7 DEF D

-----------------------------------------------------------------------------
LEMMA BlobsStart == B!BlobsInit /\ seeds \in [Point -> BOOLEAN] => BlobsInv
<1> SUFFICES ASSUME B!BlobsInit, seeds \in [Point -> BOOLEAN] PROVE BlobsInv
  OBVIOUS
<1>1. output = [x \in Point |-> 0] /\ pc = "blobs" /\ i = 1 /\ stack = <<>> /\ n_label = 0
  BY DEF B!BlobsInit
<1>2. stack \in Seq(Point) /\ Range(stack) = {}
  BY <1>1, EmptySeq DEF Range
<1>3. BlobsOK(On, output, n_label, Range(stack))
  BY <1>1, <1>2 DEF BlobsOK, On
<1>4. i \in 1 .. Len(Raster) + 1 /\ n_label <= MaxLabel /\ 1 .. i - 1 = {}
  BY <1>1, RanksAre, WaterfallAssumption
<1>5. BlobsAreComponents
  BY <1>1 DEF BlobsAreComponents, B!BlobsAreComponents
<1>6. QED
  BY <1>1, <1>2, <1>3, <1>4, <1>5 DEF BlobsInv

(* What holds while the blobs are searched, and what must hold after. *)
LEMMA BlobsSearchFacts ==
    ASSUME BlobsInv, pc = "blobs"
    PROVE  /\ seeds \in [Point -> BOOLEAN] /\ stack \in Seq(Point)
           /\ i \in Nat \ {0} /\ i <= Len(Raster) + 1 /\ n_label <= MaxLabel
           /\ \A a \in 1 .. i - 1 : Raster[a] \in On => output[Raster[a]] > 0
           /\ BlobsOK(On, output, n_label, Range(stack))
           /\ Len(Raster) \in Nat \ {0} /\ \A a \in 1 .. Len(Raster) : Raster[a] \in Point
           /\ n_label \in Nat /\ output \in [Point -> 0 .. n_label] /\ MaxLabel \in Nat
BY RanksAre, WaterfallAssumption DEF BlobsInv, BlobsOK

LEMMA StillSearching ==
    ASSUME pc' = "blobs", seeds' = seeds, seeds \in [Point -> BOOLEAN], stack' \in Seq(Point),
           i' \in 1 .. Len(Raster) + 1, n_label' <= MaxLabel,
           \A a \in 1 .. i' - 1 : Raster[a] \in On => output'[Raster[a]] > 0,
           BlobsOK(On, output', n_label', Range(stack'))
    PROVE  BlobsInv'
<1>1. On' = On
  BY DEF On
<1>2. BlobsAreComponents'
  BY DEF BlobsAreComponents, B!BlobsAreComponents
<1>3. Range(stack)' = Range(stack')
  OBVIOUS
<1>4. QED
  BY <1>1, <1>2, <1>3 DEF BlobsInv

LEMMA SkipKeeps == ASSUME BlobsInv, B!Skip PROVE BlobsInv'
<1>1. /\ pc = "blobs" /\ pc' = pc /\ stack = <<>> /\ i <= Len(Raster) /\ i' = i + 1
      /\ ~seeds[Raster[i]] \/ output[Raster[i]] > 0
      /\ seeds' = seeds /\ output' = output /\ stack' = stack /\ n_label' = n_label
  BY DEF B!Skip, B!Scanning, B!p
<1>2. i' \in 1 .. Len(Raster) + 1 /\ 1 .. i' - 1 = (1 .. i - 1) \cup {i}
  BY <1>1, BlobsSearchFacts
<1>3. \A a \in 1 .. i' - 1 : Raster[a] \in On => output'[Raster[a]] > 0
  BY <1>1, <1>2, BlobsSearchFacts DEF On
<1>4. QED
  BY <1>1, <1>2, <1>3, BlobsSearchFacts, StillSearching

(* A point that was not reached starts a component. *)
LEMMA ComponentStarts ==
    ASSUME NEW on, NEW out, NEW n, BlobsOK(on, out, n, {}), NEW x \in on, out[x] = 0
    PROVE  BlobsOK(on, [out EXCEPT ![x] = n + 1], n + 1, {x})
<1> DEFINE o == [out EXCEPT ![x] = n + 1]
<1>1. /\ n \in Nat /\ out \in [Point -> 0 .. n] /\ on \subseteq Point /\ x \in Point
      /\ \A u \in Point : out[u] > 0 => u \in on
      /\ \A u \in Point, y \in on : out[u] > 0 /\ <<u, y>> \in Nb => out[y] = out[u]
      /\ \A u, y \in Point : out[u] = out[y] /\ out[u] > 0 =>
            \A T : u \in T /\ NoPairLeaves(T, on, Nb) => y \in T
      /\ \A l \in 1 .. n : \E u \in Point : out[u] = l
  BY DEF BlobsOK
<1>2. \A u \in Point : o[u] = IF u = x THEN n + 1 ELSE out[u]
  BY <1>1
<1>3. \A u \in Point : out[u] \in 0 .. n /\ out[u] \in Int
  BY <1>1
<1>4. o \in [Point -> 0 .. n + 1]
  BY <1>1
<1> HIDE DEF o
<1>5. \A u \in Point : o[u] > 0 => u \in on
  BY <1>1, <1>2
<1>6. \A u \in Point \ {x}, y \in on : o[u] > 0 /\ <<u, y>> \in Nb => o[y] = o[u]
  <2> SUFFICES ASSUME NEW u \in Point \ {x}, NEW y \in on, o[u] > 0, <<u, y>> \in Nb PROVE o[y] = o[u]
    OBVIOUS
  <2>1. out[u] > 0 /\ out[y] = out[u]
    BY <1>1, <1>2
  <2>2. y # x
    BY <1>3, <2>1
  <2>3. QED
    BY <1>1, <1>2, <2>1, <2>2
<1>7. \A u, y \in Point : o[u] = o[y] /\ o[u] > 0 =>
            \A T : u \in T /\ NoPairLeaves(T, on, Nb) => y \in T
  <2> SUFFICES ASSUME NEW u \in Point, NEW y \in Point, o[u] = o[y], o[u] > 0
               PROVE  \A T : u \in T /\ NoPairLeaves(T, on, Nb) => y \in T
    OBVIOUS
  <2>1. CASE u = x \/ y = x
    <3>1. u = y
      BY <1>1, <1>2, <1>3, <2>1
    <3>2. QED
      BY <3>1
  <2>2. CASE u # x /\ y # x
    <3>1. out[u] = out[y] /\ out[u] > 0
      BY <1>2, <2>2
    <3>2. QED
      BY <1>1, <3>1
  <2>3. QED
    BY <2>1, <2>2
<1>8. \A l \in 1 .. n + 1 : \E u \in Point : o[u] = l
  <2> SUFFICES ASSUME NEW l \in 1 .. n + 1 PROVE \E u \in Point : o[u] = l
    OBVIOUS
  <2>1. CASE l = n + 1
    BY <1>1, <1>2, <2>1
  <2>2. CASE l # n + 1
    <3>1. PICK u \in Point : out[u] = l
      BY <1>1, <2>2
    <3>2. u # x
      BY <1>1, <3>1
    <3>3. QED
      BY <1>2, <3>1, <3>2
  <2>3. QED
    BY <2>1, <2>2
<1>9. /\ n + 1 \in Nat /\ n + 1 > 0 /\ o[x] = n + 1 /\ {x} \subseteq Point
  BY <1>1, <1>2
<1>10. BlobsOK(on, o, n + 1, {x})
  BY <1>1, <1>4, <1>5, <1>6, <1>7, <1>8, <1>9 DEF BlobsOK
<1>11. QED
  BY <1>10 DEF o

(* There are more components than labels. *)
LEMMA TooManyComponents ==
    ASSUME NEW on, NEW out, NEW n, BlobsOK(on, out, n, {}), NEW x \in on, out[x] = 0
    PROVE  Cardinality({Component(on, y, Nb) : y \in on}) > n
<1> DEFINE All == {Component(on, y, Nb) : y \in on}
           o == [out EXCEPT ![x] = n + 1]
           h == [a \in 0 .. n |-> Component(on, CHOOSE y \in Point : o[y] = a + 1, Nb)]
           D == {h[a] : a \in 0 .. (n + 1) - 1}
<1>1. /\ n \in Nat /\ out \in [Point -> 0 .. n] /\ on \subseteq Point /\ x \in Point
      /\ \A u \in Point : out[u] > 0 => u \in on
      /\ \A l \in 1 .. n : \E u \in Point : out[u] = l
  BY DEF BlobsOK
<1>2. \A u \in Point : o[u] = IF u = x THEN n + 1 ELSE out[u]
  BY <1>1
<1> HIDE DEF o
(* The representative of each label. *)
<1>3. \A a \in 0 .. n : /\ (CHOOSE y \in Point : o[y] = a + 1) \in on
                        /\ o[CHOOSE y \in Point : o[y] = a + 1] = a + 1
  <2> SUFFICES ASSUME NEW a \in 0 .. n
               PROVE  /\ (CHOOSE y \in Point : o[y] = a + 1) \in on
                      /\ o[CHOOSE y \in Point : o[y] = a + 1] = a + 1
    OBVIOUS
  <2>1. \E y \in Point : o[y] = a + 1
    <3>1. CASE a = n
      BY <1>1, <1>2, <3>1
    <3>2. CASE a # n
      <4>1. a + 1 \in 1 .. n
        BY <1>1, <3>2
      <4>2. PICK u \in Point : out[u] = a + 1
        BY <1>1, <4>1
      <4>3. u # x
        BY <1>1, <4>2
      <4>4. QED
        BY <1>2, <4>2, <4>3
    <3>3. QED
      BY <3>1, <3>2
  <2> DEFINE y == CHOOSE u \in Point : o[u] = a + 1
  <2>2. y \in Point /\ o[y] = a + 1
    BY <2>1
  <2> HIDE DEF y
  <2>3. y \in on
    BY <1>1, <1>2, <2>2
  <2>4. QED
    BY <2>2, <2>3 DEF y
<1>4. n + 1 \in Nat /\ 0 .. n = 0 .. (n + 1) - 1
  BY <1>1
<1>5. DOMAIN h = 0 .. (n + 1) - 1
  BY <1>4
<1>6. \A a \in 0 .. n : \E y \in on : h[a] = Component(on, y, Nb) /\ o[y] = a + 1
  BY <1>3
<1> HIDE DEF h
(* The component of x has no point with a label. *)
<1>7. IsFiniteSet(on)
  BY <1>1, PointsAreFinite, FS_Subset
<1>8. \A y \in on : IsComponent(Component(on, y, Nb), on, y, Nb)
  BY <1>7, ComponentIs
<1>9. \A y \in on : out[y] > 0 => Component(on, y, Nb) = {u \in Point : out[u] = out[y]}
  BY <1>1, BlobIsComponent
<1>10. \A y, u \in on : Component(on, y, Nb) = Component(on, u, Nb) => o[y] = o[u] \/ (out[y] = 0 /\ out[u] = 0)
  <2> SUFFICES ASSUME NEW y \in on, NEW u \in on, Component(on, y, Nb) = Component(on, u, Nb),
                      out[y] # 0 \/ out[u] # 0
               PROVE  o[y] = o[u]
    OBVIOUS
  <2>1. u \in Component(on, y, Nb) /\ y \in Component(on, u, Nb)
    BY <1>8 DEF IsComponent
  <2>2. out[y] = out[u]
    BY <1>1, <1>9, <2>1
  <2>3. QED
    BY <1>1, <1>2, <2>2
<1>11. \A a, b \in 0 .. n : h[a] = h[b] => a = b
  <2> SUFFICES ASSUME NEW a \in 0 .. n, NEW b \in 0 .. n, h[a] = h[b] PROVE a = b
    OBVIOUS
  <2>1. PICK y \in on : h[a] = Component(on, y, Nb) /\ o[y] = a + 1
    BY <1>6
  <2>2. PICK u \in on : h[b] = Component(on, u, Nb) /\ o[u] = b + 1
    BY <1>6
  <2>3. o[y] = o[u] \/ (out[y] = 0 /\ out[u] = 0)
    BY <1>10, <2>1, <2>2
  <2>4. out[y] = 0 => y = x
    BY <1>1, <1>2, <2>1
  <2>5. out[u] = 0 => u = x
    BY <1>1, <1>2, <2>2
  <2>6. a + 1 = b + 1
    BY <2>1, <2>2, <2>3, <2>4, <2>5
  <2>7. QED
    BY <1>1, <2>6
<1>12. Cardinality(D) = n + 1
  <2> DEFINE m == n + 1
  <2>1. m \in Nat /\ 0 .. n = 0 .. m - 1
    BY <1>4
  <2>2. D = {h[a] : a \in 0 .. m - 1} /\ DOMAIN h = 0 .. m - 1
    BY <1>5
  <2> HIDE DEF m, D
  <2>3. \A a, b \in 0 .. m - 1 : h[a] = h[b] => a = b
    BY <1>11, <2>1
  <2>4. Cardinality({h[a] : a \in 0 .. m - 1}) = m
    BY <2>1, <2>2, <2>3, ImageIsCounted
  <2>5. QED
    BY <2>2, <2>4 DEF m
<1>13. D \subseteq All
  BY <1>4, <1>6
<1> HIDE DEF D
<1>14. IsFiniteSet(All)
  <2>1. All \subseteq SUBSET on
    BY <1>8 DEF IsComponent
  <2> HIDE DEF All
  <2>2. QED
    BY <1>7, <2>1, FS_SUBSET, FS_Subset
<1>15. Cardinality(D) <= Cardinality(All) /\ Cardinality(All) \in Nat
  BY <1>13, <1>14, FS_Subset, FS_CardinalityType
<1>16. QED
  BY <1>1, <1>12, <1>15

-----------------------------------------------------------------------------
(* The actions of blobs. *)

(* The neighbours of a point of the stack that have no label take its. *)
LEMMA ComponentGrows ==
    ASSUME NEW on, NEW out, NEW n, NEW st, BlobsOK(on, out, n, st), NEW x \in st,
           NEW rest, rest \subseteq st, st \subseteq rest \cup {x},
           NEW new, \A y : y \in new <=> y \in on /\ <<x, y>> \in Nb /\ out[y] = 0,
           NEW o \in [Point -> Int], \A y \in Point : o[y] = IF y \in new THEN n ELSE out[y]
    PROVE  BlobsOK(on, o, n, rest \cup new)
<1>1. /\ n \in Nat /\ n > 0 /\ out \in [Point -> 0 .. n] /\ on \subseteq Point /\ st \subseteq Point
      /\ x \in on /\ out[x] = n
      /\ \A u \in Point : out[u] > 0 => u \in on
      /\ \A u \in st : out[u] = n
      /\ \A u \in Point \ st, y \in on : out[u] > 0 /\ <<u, y>> \in Nb => out[y] = out[u]
      /\ \A u, y \in Point : out[u] = out[y] /\ out[u] > 0 =>
            \A T : u \in T /\ NoPairLeaves(T, on, Nb) => y \in T
      /\ \A l \in 1 .. n : \E u \in Point : out[u] = l
  BY DEF BlobsOK
<1>2. \A u \in Point : o[u] = IF u \in new THEN n ELSE out[u]
  OBVIOUS
<1>3. /\ new \subseteq on /\ new \subseteq Point
      /\ \A u \in new : <<x, u>> \in Nb /\ <<u, x>> \in Nb /\ out[u] = 0
      /\ \A u \in on : <<x, u>> \in Nb /\ out[u] = 0 => u \in new
  BY <1>1, NeighboursAre
<1>4. o \in [Point -> 0 .. n] /\ \A u \in Point : out[u] \in 0 .. n
  BY <1>1, <1>2
<1>5. \A u \in Point : out[u] > 0 => u \notin new
  <2>1. ASSUME NEW u \in new PROVE ~(out[u] > 0)
    <3>1. out[u] = 0
      BY <1>3
    <3>2. QED
      BY <3>1
  <2>2. QED
    BY <2>1, Zenon
<1>6. \A u \in Point : o[u] > 0 => u \in on
  BY <1>1, <1>2, <1>3
<1>7. rest \cup new \subseteq Point /\ \A u \in rest \cup new : o[u] = n
  BY <1>1, <1>2, <1>3
<1>8. ASSUME NEW u \in Point \ (rest \cup new), NEW y \in on, o[u] > 0, <<u, y>> \in Nb
      PROVE  o[y] = o[u]
  <2>1. o[u] = out[u] /\ y \in Point /\ out[u] > 0
    BY <1>1, <1>2, <1>8
  <2>2. CASE u = x
    <3>1. CASE out[y] = 0
      BY <1>1, <1>2, <1>3, <1>8, <2>1, <2>2, <3>1
    <3>2. CASE out[y] # 0
      <4>1. out[y] > 0 /\ y \notin new
        <5>1. out[y] > 0
          BY <1>4, <2>1, <3>2
        <5>2. QED
          BY <1>5, <2>1, <5>1
      <4>2. <<y, x>> \in Nb
        BY <1>8, <2>1, <2>2, NeighboursAre
      <4>3. out[y] = out[x]
        BY <1>1, <2>1, <4>1, <4>2
      <4>4. QED
        BY <1>2, <2>1, <2>2, <4>1, <4>3
    <3>3. QED
      BY <3>1, <3>2
  <2>3. CASE u # x
    <3>1. out[y] = out[u]
      BY <1>1, <1>8, <2>1, <2>3
    <3>2. y \notin new
      BY <1>5, <2>1, <3>1
    <3>3. QED
      BY <1>2, <2>1, <3>1, <3>2
  <2>4. QED
    BY <2>2, <2>3
<1>9. ASSUME NEW u \in Point, NEW y \in Point, o[u] = o[y], o[u] > 0,
             NEW T, u \in T, NoPairLeaves(T, on, Nb)
      PROVE  y \in T
  <2>1. \A v \in new : (v \in T => x \in T) /\ (x \in T => v \in T)
    BY <1>1, <1>3, <1>9 DEF NoPairLeaves
  <2>2. \A v \in Point : out[v] = n => (v \in T => x \in T) /\ (x \in T => v \in T)
    BY <1>1, <1>9
  <2>3. CASE u \notin new /\ y \notin new
    BY <1>1, <1>2, <1>9, <2>3
  <2>4. CASE u \in new \/ y \in new
    <3>1. o[u] = n /\ o[y] = n
      BY <1>2, <1>9, <2>4
    <3>2. x \in T
      BY <1>2, <1>9, <2>1, <2>2, <3>1
    <3>3. QED
      BY <1>2, <2>1, <2>2, <3>1, <3>2
  <2>5. QED
    BY <2>3, <2>4
<1>10. ASSUME NEW l \in 1 .. n PROVE \E u \in Point : o[u] = l
  <2>1. PICK u \in Point : out[u] = l
    BY <1>1
  <2>2. u \notin new
    <3>1. out[u] > 0
      BY <1>1, <2>1
    <3>2. QED
      BY <1>5, <3>1
  <2>3. QED
    BY <1>2, <2>1, <2>2
<1>11. QED
  BY <1>1, <1>4, <1>6, <1>7, <1>8, <1>9, <1>10 DEF BlobsOK

(* When all the points of the image have a label. *)
LEMMA BlobsAreAll ==
    ASSUME NEW on, NEW out, NEW n, BlobsOK(on, out, n, {}), \A x \in on : out[x] > 0
    PROVE  {{x \in Point : out[x] = l} : l \in 1 .. n} = {Component(on, x, Nb) : x \in on}
<1>1. /\ n \in Nat /\ out \in [Point -> 0 .. n] /\ on \subseteq Point
      /\ \A u \in Point : out[u] > 0 => u \in on
      /\ \A l \in 1 .. n : \E u \in Point : out[u] = l
  BY DEF BlobsOK
<1>2. \A x \in on : Component(on, x, Nb) = {u \in Point : out[u] = out[x]}
  BY <1>1, BlobIsComponent
<1>3. \A x \in on : out[x] \in 1 .. n
  BY <1>1
<1>4. \A l \in 1 .. n : \E x \in on : out[x] = l
  BY <1>1
<1> DEFINE L == {{x \in Point : out[x] = l} : l \in 1 .. n}
           R == {Component(on, x, Nb) : x \in on}
<1>5. ASSUME NEW l \in 1 .. n PROVE {x \in Point : out[x] = l} \in R
  BY <1>2, <1>4
<1>6. ASSUME NEW x \in on PROVE Component(on, x, Nb) \in L
  BY <1>2, <1>3
<1>7. L \subseteq R
  BY <1>5
<1>8. R \subseteq L
  BY <1>6
<1>9. QED
  BY <1>7, <1>8

-----------------------------------------------------------------------------
LEMMA NewComponentKeeps == ASSUME BlobsInv, B!NewComponent PROVE BlobsInv'
<1> DEFINE x == Raster[i]
<1>1. /\ pc = "blobs" /\ stack = <<>> /\ i <= Len(Raster) /\ seeds[x] /\ output[x] = 0
      /\ n_label' = n_label + 1 /\ stack' = <<x>> /\ seeds' = seeds
      /\ B!Full => pc' = "overflow"
      /\ ~B!Full => pc' = pc /\ i' = i + 1 /\ output' = [output EXCEPT ![x] = n_label']
  BY DEF B!NewComponent, B!Scanning, B!p
<1>2. x \in On /\ x \in Point
  BY <1>1, BlobsSearchFacts DEF On
<1>3. Range(stack) = {}
  BY <1>1 DEF Range
<1>4. BlobsOK(On, output, n_label, {})
  BY <1>1, <1>3, BlobsSearchFacts
<1>5. CASE B!Full
  <2>1. pc' = "overflow" /\ n_label >= MaxLabel
    BY <1>1, <1>5 DEF B!Full
  <2>2. Cardinality({Component(On, y, Nb) : y \in On}) > n_label
    BY <1>1, <1>2, <1>4, TooManyComponents
  <2>3. B!Cardinality(B!Components) > n_label
    BY <2>2, ComponentsAre, SameOperators
  <2>4. B!Components' = B!Components
    BY <1>1 DEF B!Components
  <2> DEFINE c == B!Cardinality(B!Components)
  <2>5. c \in Nat
    <3>1. IsFiniteSet(On)
      BY PointsAreFinite, FS_Subset DEF On
    <3>2. \A y \in On : Component(On, y, Nb) \subseteq On
      BY <3>1, ComponentIs DEF IsComponent
    <3>3. IsFiniteSet({Component(On, y, Nb) : y \in On})
      <4> DEFINE All == {Component(On, y, Nb) : y \in On}
      <4>1. All \subseteq SUBSET On
        BY <3>2
      <4> HIDE DEF All
      <4>2. IsFiniteSet(All)
        BY <3>1, <4>1, FS_SUBSET, FS_Subset
      <4>3. QED
        BY <4>2 DEF All
    <3>4. QED
      BY <3>3, ComponentsAre, SameOperators, FS_CardinalityType
  <2> HIDE DEF c
  <2>6. c > MaxLabel
    <3>1. c > n_label
      BY <2>3 DEF c
    <3>2. QED
      BY <1>1, <2>1, <2>5, <3>1, BlobsSearchFacts
  <2>7. (B!Cardinality(B!Components) > MaxLabel)'
    BY <2>4, <2>6 DEF c
  <2>8. BlobsAreComponents'
    BY <2>1, <2>7 DEF BlobsAreComponents, B!BlobsAreComponents
  <2>9. QED
    BY <2>1, <2>8 DEF BlobsInv
<1>6. CASE ~B!Full
  <2>1. /\ pc' = "blobs" /\ i' = i + 1 /\ output' = [output EXCEPT ![x] = n_label + 1]
        /\ n_label < MaxLabel
    BY <1>1, <1>6, BlobsSearchFacts DEF B!Full
  <2>2. stack' \in Seq(Point) /\ Range(stack') = {x}
    BY <1>1, <1>2 DEF Range
  <2>3. BlobsOK(On, output', n_label', Range(stack'))
    <3> HIDE DEF x
    <3>1. BlobsOK(On, [output EXCEPT ![x] = n_label + 1], n_label + 1, {x})
      BY <1>1, <1>2, <1>4, ComponentStarts
    <3>2. QED
      BY <1>1, <2>1, <2>2, <3>1
  <2>4. i' \in 1 .. Len(Raster) + 1 /\ n_label' <= MaxLabel /\ 1 .. i' - 1 = (1 .. i - 1) \cup {i}
    BY <1>1, <2>1, BlobsSearchFacts
  <2>5. \A y \in Point : output'[y] = IF y = x THEN n_label + 1 ELSE output[y]
    BY <1>1, <2>1, BlobsSearchFacts
  <2>6. \A a \in 1 .. i' - 1 : Raster[a] \in On => output'[Raster[a]] > 0
    <3>1. \A a \in 1 .. i - 1 : Raster[a] \in Point /\ (Raster[a] \in On => output[Raster[a]] > 0)
      BY <1>1, BlobsSearchFacts
    <3>2. n_label + 1 > 0
      BY <1>1, BlobsSearchFacts
    <3>3. QED
      BY <1>2, <2>4, <2>5, <3>1, <3>2
  <2>7. QED
    BY <1>1, <2>1, <2>2, <2>3, <2>4, <2>6, BlobsSearchFacts, StillSearching
<1>7. QED
  BY <1>5, <1>6

LEMMA VisitKeeps == ASSUME BlobsInv, B!Visit PROVE BlobsInv'
<1> DEFINE x == Last(stack)
           T == {y \in Point : output[y] = 0 /\ seeds[y]}
           found == B!Selected(Nbh[x], T)
           rest == Range(Front(stack))
           new == {y \in On : <<x, y>> \in Nb /\ output[y] = 0}
<1>1. /\ pc = "blobs" /\ stack # <<>> /\ pc' = pc /\ seeds' = seeds /\ i' = i /\ n_label' = n_label
      /\ output' = [y \in Point |-> IF y \in Range(found) THEN n_label ELSE output[y]]
      /\ stack' = Front(stack) \o found
  BY SameOperators DEF B!Visit
<1>2. /\ Len(stack) \in Nat \ {0} /\ Front(stack) \in Seq(Point) /\ x \in Point
      /\ \A a \in 1 .. Len(stack) - 1 : Front(stack)[a] = stack[a]
      /\ Len(Front(stack)) = Len(stack) - 1 /\ x = stack[Len(stack)]
  BY <1>1, BlobsSearchFacts, FrontAndLast
<1>3. Range(stack) = rest \cup {x}
  <2>1. Range(stack) = {stack[a] : a \in 1 .. Len(stack)}
    BY <1>1, BlobsSearchFacts, RangeEquality
  <2>2. rest = {stack[a] : a \in 1 .. Len(stack) - 1}
    BY <1>2, RangeEquality
  <2>3. 1 .. Len(stack) = (1 .. Len(stack) - 1) \cup {Len(stack)}
    BY <1>2
  <2>4. QED
    BY <1>2, <2>1, <2>2, <2>3
<1>4. found \in Seq(T) /\ Range(found) = new
  <2>1. DOMAIN Nbh[x] = 1 .. Len(Nbh[x]) /\ Len(Nbh[x]) \in Nat
    BY <1>2, WaterfallAssumption
  <2> DEFINE s == Nbh[x]
  <2>2. Range(s) = {s[m] : m \in 1 .. Len(s)}
    BY <2>1 DEF Range
  <2> HIDE DEF T
  <2>3. found \in Seq(T) /\ Range(found) = {s[m] : m \in 1 .. Len(s)} \cap T
    BY <2>1, SelectedIs
  <2>4. \A y : y \in Range(s) /\ y \in T <=> y \in On /\ <<x, y>> \in Nb /\ output[y] = 0
    BY <1>2, NeighboursAre DEF T, On
  <2> HIDE DEF s, found
  <2>5. QED
    BY <2>2, <2>3, <2>4
<1>5. stack' \in Seq(Point) /\ Range(stack') = rest \cup new
  <2>1. found \in Seq(Point)
    BY <1>4
  <2> HIDE DEF found
  <2>2. QED
    BY <1>1, <1>2, <1>4, <2>1, ConcatProperties, RangeConcatenation
<1>6. output' = [y \in Point |-> IF y \in new THEN n_label ELSE output[y]]
  BY <1>1, <1>4
<1>7. BlobsOK(On, output, n_label, Range(stack))
  BY <1>1, BlobsSearchFacts
<1> HIDE DEF x, T, found, rest, new
<1>8. BlobsOK(On, output', n_label, rest \cup new)
  <2> DEFINE st == Range(stack)
  <2>1. BlobsOK(On, output, n_label, st) /\ x \in st /\ rest \subseteq st /\ st \subseteq rest \cup {x}
    BY <1>3, <1>7
  <2>2. \A y : y \in new <=> y \in On /\ <<x, y>> \in Nb /\ output[y] = 0
    BY DEF new
  <2>3. /\ output' \in [Point -> Int]
        /\ \A y \in Point : output'[y] = IF y \in new THEN n_label ELSE output[y]
    BY <1>1, <1>6, BlobsSearchFacts
  <2> HIDE DEF st
  <2>4. QED
    BY <2>1, <2>2, <2>3, ComponentGrows
<1>9. BlobsOK(On, output', n_label', Range(stack'))
  BY <1>1, <1>5, <1>8
<1>10. \A a \in 1 .. i' - 1 : Raster[a] \in On => output'[Raster[a]] > 0
  <2>1. \A a \in 1 .. i - 1 : Raster[a] \in Point /\ (Raster[a] \in On => output[Raster[a]] > 0)
    BY <1>1, BlobsSearchFacts
  <2>2. \A y \in Point : output[y] > 0 => output'[y] > 0
    BY <1>1, <1>6, BlobsSearchFacts DEF new
  <2>3. QED
    BY <1>1, <2>1, <2>2
<1>11. i' \in 1 .. Len(Raster) + 1 /\ n_label' <= MaxLabel /\ pc' = "blobs"
  BY <1>1, BlobsSearchFacts
<1>12. QED
  BY <1>1, <1>5, <1>9, <1>10, <1>11, BlobsSearchFacts, StillSearching

LEMMA FinishKeeps == ASSUME BlobsInv, B!Finish PROVE BlobsInv'
<1>1. /\ pc = "blobs" /\ stack = <<>> /\ i > Len(Raster) /\ pc' = "labelled"
      /\ seeds' = seeds /\ output' = output /\ n_label' = n_label
  BY DEF B!Finish
<1>2. Range(stack) = {}
  BY <1>1 DEF Range
<1>3. BlobsOK(On, output, n_label, {})
  BY <1>1, <1>2, BlobsSearchFacts
<1>4. \A x \in On : output[x] > 0
  <2> SUFFICES ASSUME NEW x \in On PROVE output[x] > 0
    OBVIOUS
  <2>1. PICK a \in 1 .. Len(Raster) : Raster[a] = x
    BY RanksAre DEF On, At
  <2>2. a \in 1 .. i - 1
    BY <1>1, <2>1, BlobsSearchFacts
  <2>3. QED
    BY <1>1, <2>1, <2>2, BlobsSearchFacts
<1>5. {{x \in Point : output[x] = l} : l \in 1 .. n_label} = B!Components
  BY <1>3, <1>4, BlobsAreAll, ComponentsAre
<1>6. B!Components' = B!Components
  BY <1>1 DEF B!Components
<1>7. BlobsAreComponents'
  BY <1>1, <1>5, <1>6 DEF BlobsAreComponents, B!BlobsAreComponents
<1>8. QED
  BY <1>1, <1>7 DEF BlobsInv

LEMMA BlobsKeep == ASSUME BlobsInv, [WaterfallNext]_wvars PROVE BlobsInv'
<1>1. CASE BlobsStep
  BY <1>1, SkipKeeps, NewComponentKeeps, VisitKeeps, FinishKeeps DEF BlobsStep, B!BlobsNext
<1>2. CASE LocalMinimaStep
  <2>1. pc' \in {"scan", "label", "end"}
    BY <1>2 DEF LocalMinimaStep, Next, ScanExtension, ScanLower, ScanHigher, ScanFlat, NextNeighbour,
       EndPixel, LabelNone, LabelRoot, LabelOther, NextLabel
  <2>2. QED
    BY <2>1 DEF BlobsInv, BlobsAreComponents, B!BlobsAreComponents
<1>3. CASE StartFlood \/ Flood \/ SortGraph \/ UnionOfMst \/ SkipOfMst \/ SortMst \/ UnionOfTree \/ Return
  <2>1. pc' \in {"flood", "mst", "tree", "return"}
    BY <1>3 DEF StartFlood, Flood, SortGraph, UnionOfMst, SkipOfMst, SortMst, UnionOfTree, Return, Kruskal
  <2>2. QED
    BY <2>1 DEF BlobsInv, BlobsAreComponents, B!BlobsAreComponents
<1>4. CASE UNCHANGED wvars
  <2>1. pc' = pc /\ seeds' = seeds /\ stack' = stack /\ i' = i /\ output' = output /\ n_label' = n_label
    BY <1>4 DEF wvars, vars
  <2>2. On' = On /\ B!Components' = B!Components
    BY <2>1 DEF On, B!Components
  <2>3. BlobsAreComponents <=> BlobsAreComponents'
    BY <2>1, <2>2 DEF BlobsAreComponents, B!BlobsAreComponents
  <2>4. QED
    BY <2>1, <2>2, <2>3 DEF BlobsInv
<1>5. QED
  BY <1>1, <1>2, <1>3, <1>4 DEF WaterfallNext

LEMMA BlobsInitially == WaterfallInit => BlobsInv
<1>1. CASE Init
  BY <1>1 DEF Init, BlobsInv, BlobsAreComponents, B!BlobsAreComponents
<1>2. ASSUME NEW pair \in MarkerPairs, seeds = pair[2], B!BlobsInit PROVE BlobsInv
  BY <1>2, BlobsStart, WaterfallAssumption
<1>3. QED
  BY <1>1, <1>2 DEF WaterfallInit

(* blobs labels the connected components of every image of markers, each   *)
(* one with its own label, the greatest one included, and raises its       *)
(* exception only when there are more components than labels.              *)
THEOREM BlobsLabelled == WaterfallSpec => []BlobsAreComponents
<1>1. BlobsInv => BlobsAreComponents
  BY DEF BlobsInv
<1>2. BlobsInv /\ [WaterfallNext]_wvars => BlobsInv'
  BY BlobsKeep
<1>3. QED
  BY <1>1, <1>2, BlobsInitially, PTL DEF WaterfallSpec


-----------------------------------------------------------------------------
(* The flooding: im is the image, out the labels, wait the points in the    *)
(* queue, and E the edges of the graph, as triples.                         *)

Level == 0 .. MaxLevel

Higher(a, b) == IF a > b THEN a ELSE b
Lesser(a, b) == IF a < b THEN a ELSE b

LEMMA AdjacentIs ==
    /\ Adjacent \subseteq Point \X Point
    /\ \A x, y \in Point : <<x, y>> \in Adjacent => <<y, x>> \in Adjacent
    /\ \A x, y : <<x, y>> \in Adjacent => x \in Point /\ y \in Point
BY DEF Adjacent

(* x and y are neighbours in two regions. *)
IsBorder(out, x, y) ==
    /\ x \in Point /\ y \in Point
    /\ <<x, y>> \in Adjacent /\ out[x] > 0 /\ out[y] > 0 /\ out[x] # out[y]

(* An edge at most as high as the pass between x and y. *)
HasPass(im, out, E, x, y) ==
    \E w \in Level : /\ <<Lesser(out[x], out[y]), Higher(out[x], out[y]), w>> \in E
                     /\ w <= Higher(im[x], im[y])

(* No pair of neighbours at or below l leaves T inside of a region. *)
StaysIn(T, im, out, l) ==
    \A x, y \in Point : x \in T /\ <<x, y>> \in Adjacent /\ out[x] > 0 /\ out[x] = out[y]
                        /\ im[x] <= l /\ im[y] <= l => y \in T

(* The points of S have no neighbour out of S that is as low. *)
IsDownClosed(S, im) ==
    \A x, y \in Point : x \in S /\ <<x, y>> \in Adjacent /\ im[y] <= im[x] => y \in S

FloodTyped(im, out, n, wait, E) ==
    /\ im \in [Point -> Level] /\ n \in Nat \ {0} /\ out \in [Point -> 0 .. n]
    /\ wait \subseteq Point
    /\ E \subseteq (0 .. n) \X (0 .. n) \X Level

(* The points that wait have a label, and only these may have neighbours    *)
(* that have none, or are in a region the graph does not link to theirs.    *)
FrontIs(im, out, wait, E) ==
    /\ \A x \in wait : out[x] > 0
    /\ \A x, y \in Point : <<x, y>> \in Adjacent /\ out[x] > 0 /\ out[y] = 0 => x \in wait
    /\ \A x, y : IsBorder(out, x, y) => x \in wait \/ y \in wait \/ HasPass(im, out, E, x, y)

(* The weight of an edge is the height of a pass between its regions. *)
EdgesArePasses(im, out, E) ==
    \A d \in E : \E x, y : /\ IsBorder(out, x, y) /\ out[x] = d[1] /\ out[y] = d[2]
                           /\ d[3] = Higher(im[x], im[y])

(* The part of a region at or below l is connected, *)
RegionsAreDeep(im, out) ==
    \A l \in Level : \A T : StaysIn(T, im, out, l) =>
        \A x, y \in Point :
            x \in T /\ out[x] > 0 /\ out[x] = out[y] /\ im[x] <= l /\ im[y] <= l => y \in T

(* and every basin has a label. *)
BasinsAreLabelled(im, out) ==
    \A S : S \subseteq Point /\ S # {} /\ IsDownClosed(S, im) => \E x \in S : out[x] > 0

FloodOK(im, out, n, wait, E) ==
    /\ FloodTyped(im, out, n, wait, E)
    /\ FrontIs(im, out, wait, E)
    /\ EdgesArePasses(im, out, E)
    /\ RegionsAreDeep(im, out)
    /\ BasinsAreLabelled(im, out)

(* A point without label is at least as high as those that wait: below it  *)
(* there would be a basin without label.                                   *)
LEMMA UnlabelledIsHigh ==
    ASSUME NEW im, NEW out, NEW n, NEW wait, NEW E, FloodOK(im, out, n, wait, E),
           NEW l \in Level, \A x \in wait : l <= im[x],
           NEW y \in Point, out[y] = 0
    PROVE  l <= im[y]
<1> SUFFICES ASSUME ~(l <= im[y]) PROVE FALSE
  OBVIOUS
<1> DEFINE S == {z \in Point : im[z] <= im[y] /\ out[z] = 0}
<1>1. /\ im \in [Point -> Level] /\ n \in Nat /\ out \in [Point -> 0 .. n]
      /\ \A u, v \in Point : <<u, v>> \in Adjacent /\ out[u] > 0 /\ out[v] = 0 => u \in wait
      /\ BasinsAreLabelled(im, out)
  BY DEF FloodOK, FloodTyped, FrontIs
<1>2. \A z \in Point : im[z] \in Int /\ out[z] \in Int /\ (out[z] = 0 \/ out[z] > 0)
  BY <1>1 DEF Level
<1>3. l \in Int /\ im[y] < l
  BY <1>2 DEF Level
<1>4. y \in S
  BY <1>2
<1>5. ASSUME NEW u \in Point, NEW v \in Point, u \in S, <<u, v>> \in Adjacent, im[v] <= im[u]
      PROVE  v \in S
  <2>1. im[v] <= im[y] /\ out[u] = 0
    BY <1>2, <1>5
  <2>2. CASE out[v] > 0
    <3>1. v \in wait
      BY <1>1, <1>5, <2>1, <2>2, AdjacentIs
    <3>2. l <= im[v]
      BY <3>1
    <3>3. QED
      BY <1>2, <1>3, <2>1, <3>2
  <2>3. QED
    BY <1>2, <2>1, <2>2
<1>6. IsDownClosed(S, im)
  <2> HIDE DEF S
  <2>1. QED
    BY <1>5 DEF IsDownClosed
<1>7. PICK x \in S : out[x] > 0
  <2>1. S \subseteq Point /\ S # {}
    BY <1>4
  <2> HIDE DEF S
  <2>2. QED
    BY <1>1, <1>6, <2>1 DEF BasinsAreLabelled
<1>8. QED
  BY <1>7

(* When no point waits every point has a label. *)
LEMMA FloodEnds ==
    ASSUME NEW im, NEW out, NEW n, NEW E, FloodOK(im, out, n, {}, E)
    PROVE  /\ \A y \in Point : out[y] \in 1 .. n
           /\ \A x, y : IsBorder(out, x, y) => HasPass(im, out, E, x, y)
<1> DEFINE S == {z \in Point : out[z] = 0}
<1>1. /\ n \in Nat /\ out \in [Point -> 0 .. n]
      /\ \A u, v \in Point : <<u, v>> \in Adjacent /\ out[u] > 0 /\ out[v] = 0 => FALSE
      /\ BasinsAreLabelled(im, out)
  BY DEF FloodOK, FloodTyped, FrontIs
<1>2. \A z \in Point : out[z] = 0 \/ out[z] > 0
  BY <1>1
<1>3. IsDownClosed(S, im)
  BY <1>1, <1>2, AdjacentIs DEF IsDownClosed
<1>4. S = {}
  <2>1. S \subseteq Point /\ \A x \in S : ~(out[x] > 0)
    OBVIOUS
  <2> HIDE DEF S
  <2>2. QED
    BY <1>1, <1>3, <2>1 DEF BasinsAreLabelled
<1>5. \A y \in Point : out[y] \in 1 .. n
  BY <1>1, <1>4
<1>6. \A x, y : IsBorder(out, x, y) => HasPass(im, out, E, x, y)
  BY DEF FloodOK, FrontIs
<1>7. QED
  BY <1>5, <1>6

(* The point x of the lowest level leaves the queue: its neighbours without *)
(* label take its label and wait, and the graph links x to the others.      *)
LEMMA FloodGoesOn ==
    ASSUME NEW im, NEW out, NEW n, NEW wait, NEW E, FloodOK(im, out, n, wait, E),
           NEW x \in wait, \A y \in wait : im[x] <= im[y],
           NEW new, \A y : y \in new <=> y \in Point /\ <<x, y>> \in Adjacent /\ out[y] = 0,
           NEW o, o = [y \in Point |-> IF y \in new THEN out[x] ELSE out[y]],
           NEW wt, wt \subseteq wait \cup new, \A y \in wait : y # x => y \in wt,
           new \subseteq wt,
           NEW D, D \subseteq (0 .. n) \X (0 .. n) \X Level,
           \A d \in E : \E e \in D : e[1] = d[1] /\ e[2] = d[2] /\ e[3] <= d[3],
           \A y : IsBorder(out, x, y) => HasPass(im, out, D, x, y),
           EdgesArePasses(im, out, D)
    PROVE  FloodOK(im, o, n, wt, D)
<1>1. /\ im \in [Point -> Level] /\ n \in Nat /\ n # 0 /\ out \in [Point -> 0 .. n]
      /\ wait \subseteq Point /\ E \subseteq (0 .. n) \X (0 .. n) \X Level
      /\ \A z \in wait : out[z] > 0
      /\ \A u, v \in Point : <<u, v>> \in Adjacent /\ out[u] > 0 /\ out[v] = 0 => u \in wait
      /\ \A u, v : IsBorder(out, u, v) => u \in wait \/ v \in wait \/ HasPass(im, out, E, u, v)
      /\ RegionsAreDeep(im, out) /\ BasinsAreLabelled(im, out)
  BY DEF FloodOK, FloodTyped, FrontIs
<1>2. /\ x \in Point /\ out[x] > 0 /\ out[x] \in 0 .. n /\ new \subseteq Point
      /\ \A y \in new : <<x, y>> \in Adjacent /\ <<y, x>> \in Adjacent /\ out[y] = 0 /\ y # x
      /\ \A z \in Point : im[z] \in Level /\ out[z] \in 0 .. n
  <2>1. x \in Point /\ out[x] > 0
    BY <1>1
  <2>2. new \subseteq Point /\ \A y \in new : <<x, y>> \in Adjacent /\ out[y] = 0
    OBVIOUS
  <2>3. \A y \in new : y # x
    <3>1. ASSUME x \in new PROVE FALSE
      <4>1. out[x] = 0
        BY <2>2, <3>1
      <4>2. QED
        BY <2>1, <4>1
    <3>2. QED
      BY <3>1
  <2>4. QED
    BY <1>1, <2>1, <2>2, <2>3, AdjacentIs
<1>3. \A y \in Point : o[y] = IF y \in new THEN out[x] ELSE out[y]
  OBVIOUS
<1>4. o \in [Point -> 0 .. n]
  BY <1>2
<1>5. FloodTyped(im, o, n, wt, D)
  BY <1>1, <1>2, <1>4 DEF FloodTyped
<1>6. \A y \in Point : out[y] > 0 => o[y] = out[y]
  <2>1. ASSUME NEW y \in new PROVE ~(out[y] > 0)
    <3>1. out[y] = 0
      BY <1>2
    <3>2. QED
      BY <3>1
  <2>2. QED
    BY <1>3, <2>1
<1>7. \A z \in wt : o[z] > 0
  BY <1>1, <1>2, <1>3
<1>8. ASSUME NEW u \in Point, NEW v \in Point, <<u, v>> \in Adjacent, o[u] > 0, o[v] = 0
      PROVE  u \in wt
  <2>1. v \notin new /\ out[v] = 0
    BY <1>2, <1>3, <1>8
  <2>2. u # x
    BY <1>8, <2>1
  <2>3. CASE u \in new
    BY <2>3
  <2>4. CASE u \notin new
    <3>1. out[u] > 0
      BY <1>3, <1>8, <2>4
    <3>2. u \in wait
      BY <1>1, <1>8, <2>1, <3>1
    <3>3. QED
      BY <2>2, <3>2
  <2>5. QED
    BY <2>3, <2>4
<1>9. ASSUME NEW u, NEW v, IsBorder(o, u, v)
      PROVE  u \in wt \/ v \in wt \/ HasPass(im, o, D, u, v)
  <2>1. u \in Point /\ v \in Point /\ <<u, v>> \in Adjacent /\ o[u] > 0 /\ o[v] > 0 /\ o[u] # o[v]
    BY <1>9 DEF IsBorder
  <2> SUFFICES ASSUME u \notin wt, v \notin wt PROVE HasPass(im, o, D, u, v)
    OBVIOUS
  <2>2. o[u] = out[u] /\ o[v] = out[v]
    BY <1>3, <2>1
  <2>3. IsBorder(out, u, v)
    BY <2>1, <2>2 DEF IsBorder
  <2>4. HasPass(im, out, D, u, v)
    <3>1. CASE u = x
      BY <2>3, <3>1
    <3>2. CASE v = x
      <4>1. IsBorder(out, x, u)
        BY <2>1, <2>3, <3>2, AdjacentIs DEF IsBorder
      <4>2. HasPass(im, out, D, x, u)
        BY <4>1
      <4>3. /\ Lesser(out[x], out[u]) = Lesser(out[u], out[x])
            /\ Higher(out[x], out[u]) = Higher(out[u], out[x])
            /\ Higher(im[x], im[u]) = Higher(im[u], im[x])
        BY <1>2, <2>1 DEF Lesser, Higher, Level
      <4>4. QED
        BY <3>2, <4>2, <4>3 DEF HasPass
    <3>3. CASE u # x /\ v # x
      <4>1. u \notin wait /\ v \notin wait
        BY <3>3
      <4>2. PICK w \in Level : /\ <<Lesser(out[u], out[v]), Higher(out[u], out[v]), w>> \in E
                               /\ w <= Higher(im[u], im[v])
        BY <1>1, <2>3, <4>1 DEF HasPass
      <4>3. PICK e \in D : e[1] = Lesser(out[u], out[v]) /\ e[2] = Higher(out[u], out[v]) /\ e[3] <= w
        <5> DEFINE d == <<Lesser(out[u], out[v]), Higher(out[u], out[v]), w>>
        <5>1. d \in E /\ d[1] = Lesser(out[u], out[v]) /\ d[2] = Higher(out[u], out[v]) /\ d[3] = w
          BY <4>2
        <5> HIDE DEF d
        <5>2. QED
          BY <5>1
      <4>4. e[3] \in Level /\ e = <<e[1], e[2], e[3]>>
        BY <4>3
      <4>5. e[3] <= Higher(im[u], im[v])
        BY <1>2, <2>1, <4>2, <4>3, <4>4 DEF Higher, Level
      <4>6. QED
        BY <4>3, <4>4, <4>5 DEF HasPass
    <3>4. QED
      BY <3>1, <3>2, <3>3
  <2>5. QED
    BY <2>2, <2>4 DEF HasPass
<1>10. EdgesArePasses(im, o, D)
  <2>1. \A u, v : IsBorder(out, u, v) => IsBorder(o, u, v) /\ o[u] = out[u] /\ o[v] = out[v]
    BY <1>6 DEF IsBorder
  <2>2. ASSUME NEW d \in D
        PROVE  \E u, v : IsBorder(o, u, v) /\ o[u] = d[1] /\ o[v] = d[2] /\ d[3] = Higher(im[u], im[v])
    <3>1. PICK u, v : /\ IsBorder(out, u, v) /\ out[u] = d[1] /\ out[v] = d[2]
                      /\ d[3] = Higher(im[u], im[v])
      BY DEF EdgesArePasses
    <3>2. IsBorder(o, u, v) /\ o[u] = d[1] /\ o[v] = d[2]
      BY <2>1, <3>1
    <3>3. QED
      BY <3>1, <3>2, Zenon
  <2>3. QED
    BY <2>2 DEF EdgesArePasses
<1>11. RegionsAreDeep(im, o)
  <2> SUFFICES ASSUME NEW l \in Level, NEW T, StaysIn(T, im, o, l),
                      NEW u \in Point, NEW v \in Point,
                      o[u] > 0, o[u] = o[v], im[u] <= l, im[v] <= l, u \in T
               PROVE  v \in T
    BY DEF RegionsAreDeep
  <2>1. StaysIn(T, im, out, l)
    BY <1>6 DEF StaysIn
  <2>2. \A y, z \in Point :
            y \in T /\ out[y] > 0 /\ out[y] = out[z] /\ im[y] <= l /\ im[z] <= l => z \in T
    BY <1>1, <2>1 DEF RegionsAreDeep
  <2>3. ASSUME NEW y \in new, im[y] <= l PROVE im[x] <= l /\ (y \in T <=> x \in T)
    <3>1. im[x] <= im[y]
      <4>1. im[x] \in Level /\ y \in Point /\ out[y] = 0
        BY <1>2
      <4>2. QED
        BY <4>1, UnlabelledIsHigh
    <3>2. im[x] <= l
      BY <1>2, <2>3, <3>1 DEF Level
    <3>3. o[y] = o[x] /\ o[x] > 0 /\ y \in Point
      BY <1>2, <1>3
    <3>4. QED
      BY <1>2, <2>3, <3>2, <3>3 DEF StaysIn
  <2>4. CASE u \notin new /\ v \notin new
    BY <1>3, <2>2, <2>4
  <2>5. CASE u \in new /\ v \in new
    BY <2>3, <2>5
  <2>6. CASE u \in new /\ v \notin new
    <3>1. im[x] <= l /\ x \in T /\ out[x] = out[v]
      BY <1>3, <2>3, <2>6
    <3>2. QED
      BY <1>2, <2>2, <3>1
  <2>7. CASE u \notin new /\ v \in new
    <3>1. im[x] <= l /\ (v \in T <=> x \in T) /\ out[x] = out[u]
      BY <1>3, <2>3, <2>7
    <3>2. QED
      BY <1>2, <2>2, <3>1
  <2>8. QED
    BY <2>4, <2>5, <2>6, <2>7
<1>12. BasinsAreLabelled(im, o)
  <2> SUFFICES ASSUME NEW S, S \subseteq Point, S # {}, IsDownClosed(S, im)
               PROVE  \E y \in S : o[y] > 0
    BY DEF BasinsAreLabelled
  <2>1. PICK y \in S : out[y] > 0
    BY <1>1 DEF BasinsAreLabelled
  <2>2. QED
    BY <1>6, <2>1
<1>13. QED
  BY <1>5, <1>7, <1>8, <1>9, <1>10, <1>11, <1>12 DEF FloodOK, FrontIs

-----------------------------------------------------------------------------
(* The passes of the image, once every point has a label. *)

LowPoints(im, l) == {x \in Point : im[x] <= l}

Links(E, l) == {e \in Int \X Int : \E d \in E : /\ d[3] <= l
                                                /\ \/ e[1] = d[1] /\ e[2] = d[2]
                                                   \/ e[1] = d[2] /\ e[2] = d[1]}

LEMMA PassesAreKept ==
    ASSUME NEW im, NEW out, NEW n, NEW E, FloodOK(im, out, n, {}, E),
           NEW l \in Level, NEW x \in LowPoints(im, l), NEW y \in LowPoints(im, l)
    PROVE  y \in Component(LowPoints(im, l), x, Adjacent)
           <=> out[y] \in Component(1 .. n, out[x], Links(E, l))
<1> DEFINE low == LowPoints(im, l)
           linked == Links(E, l)
           zone == Component(low, x, Adjacent)
           regions == Component(1 .. n, out[x], linked)
<1>1. /\ n \in Nat /\ im \in [Point -> Level] /\ E \subseteq (0 .. n) \X (0 .. n) \X Level
      /\ \A z \in Point : out[z] \in 1 .. n
      /\ \A u, v : IsBorder(out, u, v) => HasPass(im, out, E, u, v)
      /\ EdgesArePasses(im, out, E) /\ RegionsAreDeep(im, out)
  BY FloodEnds DEF FloodOK, FloodTyped
<1>2. /\ low \subseteq Point /\ IsFiniteSet(low) /\ x \in low /\ y \in low
      /\ \A z \in Point : z \in low <=> im[z] <= l
  BY PointsAreFinite, FS_Subset DEF LowPoints
<1>3. IsComponent(zone, low, x, Adjacent)
  BY <1>2, ComponentIs
<1>4. IsFiniteSet(1 .. n) /\ out[x] \in 1 .. n
  BY <1>1, <1>2, FS_Interval
<1>5. IsComponent(regions, 1 .. n, out[x], linked)
  BY <1>4, ComponentIs
<1>6. \A z \in Point : im[z] \in Level /\ im[z] \in Int /\ out[z] \in Int /\ out[z] > 0
  BY <1>1 DEF Level
<1>7. l \in Int
  BY DEF Level
<1> HIDE DEF low, linked, zone, regions
<1>8. ASSUME NEW o \in low, NEW r \in low, <<o, r>> \in Adjacent, out[o] \in regions
      PROVE  out[r] \in regions
  <2>1. o \in Point /\ r \in Point /\ im[o] <= l /\ im[r] <= l
    BY <1>2
  <2>2. CASE out[o] = out[r]
    BY <1>8, <2>2
  <2>3. CASE out[o] # out[r]
    <3>1. IsBorder(out, o, r)
      BY <1>6, <1>8, <2>1, <2>3 DEF IsBorder
    <3>2. PICK w \in Level : /\ <<Lesser(out[o], out[r]), Higher(out[o], out[r]), w>> \in E
                             /\ w <= Higher(im[o], im[r])
      BY <1>1, <3>1 DEF HasPass
    <3>3. w <= l
      BY <1>6, <1>7, <2>1, <3>2 DEF Higher, Level
    <3>4. <<out[o], out[r]>> \in linked
      <4> DEFINE d == <<Lesser(out[o], out[r]), Higher(out[o], out[r]), w>>
                 e == <<out[o], out[r]>>
      <4>1. d \in E /\ d[3] <= l
        BY <3>2, <3>3
      <4>2. e \in Int \X Int
        BY <1>6, <2>1
      <4>3. (e[1] = d[1] /\ e[2] = d[2]) \/ (e[1] = d[2] /\ e[2] = d[1])
        BY <1>6, <2>1 DEF Lesser, Higher
      <4> HIDE DEF d, e
      <4>4. e \in linked
        BY <4>1, <4>2, <4>3 DEF linked, Links
      <4>5. QED
        BY <4>4 DEF e
    <3>5. out[o] \in regions /\ out[r] \in 1 .. n
      BY <1>1, <1>8, <2>1
    <3>6. QED
      BY <1>5, <3>4, <3>5 DEF IsComponent, NoPairLeaves
  <2>4. QED
    BY <2>2, <2>3
<1>9. y \in zone => out[y] \in regions
  <2> DEFINE T == {z \in low : out[z] \in regions}
  <2>1. x \in T
    BY <1>2, <1>5 DEF IsComponent
  <2>2. NoPairLeaves(T, low, Adjacent)
    BY <1>8 DEF NoPairLeaves
  <2> HIDE DEF T
  <2>3. zone \subseteq T
    BY <1>3, <2>1, <2>2 DEF IsComponent
  <2>4. QED
    BY <2>3 DEF T
<1>10. StaysIn(zone, im, out, l)
  <2> SUFFICES ASSUME NEW o \in Point, NEW r \in Point, o \in zone, <<o, r>> \in Adjacent,
                      im[o] <= l, im[r] <= l
               PROVE  r \in zone
    BY DEF StaysIn
  <2>1. r \in low
    BY <1>2
  <2>2. QED
    BY <1>3, <2>1 DEF IsComponent, NoPairLeaves
<1>11. ASSUME NEW u \in low, NEW v \in low, u \in zone, out[u] = out[v] PROVE v \in zone
  <2>1. u \in Point /\ v \in Point /\ im[u] <= l /\ im[v] <= l /\ out[u] > 0
    BY <1>2, <1>6
  <2>2. QED
    BY <1>1, <1>10, <1>11, <2>1 DEF RegionsAreDeep
<1> DEFINE Good(a) == \A z \in low : out[z] = a => z \in zone
           T == {a \in 1 .. n : Good(a)}
<1>12. out[x] \in T
  <2>1. x \in zone
    BY <1>3 DEF IsComponent
  <2>2. QED
    BY <1>2, <1>4, <1>11, <2>1
<1>13. ASSUME NEW a \in T, NEW b \in 1 .. n, <<a, b>> \in linked PROVE b \in T
  <2>1. PICK d \in E : d[3] <= l /\ ((a = d[1] /\ b = d[2]) \/ (a = d[2] /\ b = d[1]))
    <3> DEFINE e == <<a, b>>
    <3>1. e \in linked /\ e[1] = a /\ e[2] = b
      BY <1>13
    <3> HIDE DEF e
    <3>2. PICK d \in E : /\ d[3] <= l
                         /\ \/ e[1] = d[1] /\ e[2] = d[2]
                            \/ e[1] = d[2] /\ e[2] = d[1]
      BY <3>1 DEF linked, Links
    <3>3. QED
      BY <3>1, <3>2
  <2>2. PICK u, v : /\ IsBorder(out, u, v) /\ out[u] = d[1] /\ out[v] = d[2]
                    /\ d[3] = Higher(im[u], im[v])
    BY <1>1 DEF EdgesArePasses
  <2>3. /\ u \in Point /\ v \in Point /\ <<u, v>> \in Adjacent /\ <<v, u>> \in Adjacent
        /\ im[u] <= l /\ im[v] <= l
    <3>1. u \in Point /\ v \in Point /\ <<u, v>> \in Adjacent
      BY <2>2 DEF IsBorder
    <3>2. Higher(im[u], im[v]) <= l
      BY <2>1, <2>2
    <3>3. im[u] <= l /\ im[v] <= l
      BY <1>6, <1>7, <3>1, <3>2 DEF Higher
    <3>4. QED
      BY <3>1, <3>3, AdjacentIs
  <2>4. u \in low /\ v \in low
    BY <1>2, <2>3
  <2>5. u \in zone <=> v \in zone
    BY <1>3, <2>3, <2>4 DEF IsComponent, NoPairLeaves
  <2>6. Good(a)
    OBVIOUS
  <2>7. (out[u] = a /\ out[v] = b) \/ (out[u] = b /\ out[v] = a)
    BY <2>1, <2>2
  <2>8. u \in zone /\ v \in zone
    BY <2>4, <2>5, <2>6, <2>7
  <2>9. Good(b)
    BY <1>11, <2>4, <2>7, <2>8
  <2>10. QED
    BY <2>9
<1> HIDE DEF Good
<1>14. regions \subseteq T
  <2>1. NoPairLeaves(T, 1 .. n, linked)
    <3> HIDE DEF T
    <3>1. QED
      BY <1>13 DEF NoPairLeaves
  <2> HIDE DEF T
  <2>2. QED
    BY <1>5, <1>12, <2>1 DEF IsComponent
<1>15. out[y] \in regions => y \in zone
  <2>1. out[y] \in regions => Good(out[y])
    BY <1>14
  <2>2. QED
    BY <1>2, <2>1 DEF Good
<1>16. QED
  BY <1>9, <1>15 DEF low, linked, zone, regions

-----------------------------------------------------------------------------
(* The flooding starts from the minima. *)

LEMMA LevelsAre ==
    ASSUME NEW im \in Images
    PROVE  /\ im \in [Point -> Level]
           /\ \A x, y \in Point : cmp(im[x], im[y]) <=> im[x] < im[y]
BY WaterfallAssumption DEF Level

(* The flat zone of x. *)
FlatPoints(im, x) == {y \in Point : im[y] = im[x]}

LEMMA ZoneOfIs ==
    ASSUME f \in Images, NEW x \in Point
    PROVE  /\ IsComponent(ZoneOf(x, Point, Adjacent), FlatPoints(f, x), x, Adjacent)
           /\ \A z : IsMinimum(z, Point, Adjacent) <=>
                 \A u, v \in Point : u \in z /\ <<u, v>> \in Adjacent => f[u] <= f[v]
<1>1. /\ \A u \in Point : f[u] \in Int
      /\ \A u, v \in Point : cmp(f[u], f[v]) <=> f[u] < f[v]
  BY LevelsAre DEF Level
<1>2. {y \in Point : ~cmp(f[x], f[y]) /\ ~cmp(f[y], f[x])} = FlatPoints(f, x)
  <2>1. \A y \in Point : ~cmp(f[x], f[y]) /\ ~cmp(f[y], f[x]) <=> f[y] = f[x]
    BY <1>1
  <2>2. QED
    BY <2>1 DEF FlatPoints
<1>3. IsFiniteSet(FlatPoints(f, x)) /\ x \in FlatPoints(f, x)
  BY PointsAreFinite, FS_Subset DEF FlatPoints
<1>4. IsComponent(ZoneOf(x, Point, Adjacent), FlatPoints(f, x), x, Adjacent)
  BY <1>2, <1>3, ComponentIs DEF ZoneOf
<1>5. ASSUME NEW z
      PROVE  IsMinimum(z, Point, Adjacent) <=>
                 \A u, v \in Point : u \in z /\ <<u, v>> \in Adjacent => f[u] <= f[v]
  <2>1. IsMinimum(z, Point, Adjacent) <=>
            \A u, v \in Point : u \in z /\ <<u, v>> \in Adjacent => ~cmp(f[v], f[u])
    <3>1. ASSUME IsMinimum(z, Point, Adjacent), NEW u \in Point, NEW v \in Point,
                 u \in z, <<u, v>> \in Adjacent
          PROVE  ~cmp(f[v], f[u])
      <4> DEFINE e == <<u, v>>
      <4>1. e \in Adjacent /\ e[1] = u /\ e[2] = v
        BY <3>1
      <4> HIDE DEF e
      <4>2. QED
        BY <3>1, <4>1 DEF IsMinimum
    <3>2. ASSUME \A u, v \in Point : u \in z /\ <<u, v>> \in Adjacent => ~cmp(f[v], f[u]),
                 NEW e \in Adjacent, e[1] \in z, e[2] \in Point
          PROVE  ~cmp(f[e[2]], f[e[1]])
      <4>1. e = <<e[1], e[2]>> /\ e[1] \in Point
        BY <3>2, AdjacentIs
      <4>2. QED
        BY <3>2, <4>1
    <3>3. QED
      BY <3>1, <3>2 DEF IsMinimum
  <2>2. \A u, v \in Point : ~cmp(f[v], f[u]) <=> f[u] <= f[v]
    BY <1>1
  <2>3. QED
    BY <2>1, <2>2
<1>6. QED
  BY <1>4, <1>5

(* The points of the minima have the labels: zone[x] is the one of x. *)
LEMMA LabelsAre ==
    ASSUME LabelsAreMinima, pc = "end", f \in Images
    PROVE  \A x \in Point : LET z == ZoneOf(x, Point, Adjacent)
                            IN  /\ IsMinimum(z, Point, Adjacent) => output[x] # 0
                                /\ output[x] # 0 => /\ IsMinimum(z, Point, Adjacent)
                                                    /\ \A y \in Point : output[y] = output[x] <=> y \in z
<1>1. ASSUME NEW x \in Point
      PROVE  IF IsMinimum(ZoneOf(x, Point, Adjacent), Point, Adjacent)
             THEN /\ output[x] # 0
                  /\ \A y \in Point : output[y] = output[x] <=> y \in ZoneOf(x, Point, Adjacent)
             ELSE output[x] = 0
  BY DEF LabelsAreMinima
<1>2. QED
  BY <1>1

LEMMA FloodStarts ==
    ASSUME LabelsAreMinima, pc = "end", f \in Images,
           n_label \in Nat \ {0}, output \in [Point -> 0 .. n_label],
           NEW wait, \A x : x \in wait <=> /\ x \in Point /\ output[x] > 0
                                           /\ \E y \in Point : <<x, y>> \in Adjacent /\ output[y] = 0
    PROVE  FloodOK(f, output, n_label, wait, {})
<1> DEFINE Zone(x) == ZoneOf(x, Point, Adjacent)
<1>1. /\ f \in [Point -> Level] /\ \A x \in Point : f[x] \in Nat
      /\ \A x \in Point : output[x] > 0 <=> output[x] # 0
  BY LevelsAre DEF Level
<1>2. ASSUME NEW x \in Point
      PROVE  IsComponent(Zone(x), FlatPoints(f, x), x, Adjacent)
  BY ZoneOfIs
<1>3. ASSUME NEW x \in Point, output[x] # 0
      PROVE  /\ \A u, v \in Point : u \in Zone(x) /\ <<u, v>> \in Adjacent => f[u] <= f[v]
             /\ \A y \in Point : output[y] = output[x] <=> y \in Zone(x)
  BY <1>3, ZoneOfIs, LabelsAre
<1>4. ASSUME NEW x \in Point,
             \A u, v \in Point : u \in Zone(x) /\ <<u, v>> \in Adjacent => f[u] <= f[v]
      PROVE  output[x] # 0
  BY <1>4, ZoneOfIs, LabelsAre
<1>5. \A x \in Point : /\ x \in Zone(x)
                       /\ \A y \in Zone(x) : y \in Point /\ f[y] = f[x]
                       /\ \A o \in Zone(x), r \in Point :
                             <<o, r>> \in Adjacent /\ f[r] = f[x] => r \in Zone(x)
                       /\ \A T : x \in T /\ NoPairLeaves(T, FlatPoints(f, x), Adjacent) => Zone(x) \subseteq T
  BY <1>2 DEF IsComponent, NoPairLeaves, FlatPoints
<1> HIDE DEF Zone
<1>6. FloodTyped(f, output, n_label, wait, {})
  BY <1>1 DEF FloodTyped
<1>7. ASSUME NEW x, NEW y, IsBorder(output, x, y) PROVE FALSE
  <2>1. /\ x \in Point /\ y \in Point /\ <<x, y>> \in Adjacent /\ <<y, x>> \in Adjacent
        /\ output[x] # 0 /\ output[y] # 0 /\ output[x] # output[y]
    BY <1>1, <1>7, AdjacentIs DEF IsBorder
  <2>2. f[x] <= f[y] /\ f[y] <= f[x]
    BY <1>3, <1>5, <2>1
  <2>3. f[x] = f[y]
    <3>1. f[x] \in Nat /\ f[y] \in Nat
      BY <1>1, <2>1
    <3>2. QED
      BY <2>2, <3>1
  <2>4. y \in Zone(x)
    BY <1>5, <2>1, <2>3
  <2>5. QED
    BY <1>3, <2>1, <2>4
<1>8. FrontIs(f, output, wait, {})
  BY <1>7 DEF FrontIs
<1>9. EdgesArePasses(f, output, {})
  BY DEF EdgesArePasses
<1>10. RegionsAreDeep(f, output)
  <2> SUFFICES ASSUME NEW l \in Level, NEW T, StaysIn(T, f, output, l),
                      NEW x \in Point, NEW y \in Point, x \in T,
                      output[x] > 0, output[x] = output[y], f[x] <= l, f[y] <= l
               PROVE  y \in T
    BY DEF RegionsAreDeep
  <2> DEFINE Z == {z \in Zone(x) : z \in T}
  <2>1. x \in Z
    BY <1>5
  <2>2. ASSUME NEW o \in Z, NEW r \in FlatPoints(f, x), <<o, r>> \in Adjacent PROVE r \in Z
    <3>1. o \in Point /\ r \in Point /\ f[o] = f[x] /\ f[r] = f[x] /\ o \in Zone(x) /\ o \in T
      BY <1>5 DEF FlatPoints
    <3>2. r \in Zone(x)
      BY <1>5, <2>2, <3>1
    <3>3. output[o] = output[x] /\ output[r] = output[x]
      BY <1>1, <1>3, <3>1, <3>2
    <3>4. r \in T
      BY <2>2, <3>1, <3>3 DEF StaysIn
    <3>5. QED
      BY <3>2, <3>4
  <2>3. NoPairLeaves(Z, FlatPoints(f, x), Adjacent)
    <3> HIDE DEF Z
    <3>1. QED
      BY <2>2 DEF NoPairLeaves
  <2> HIDE DEF Z
  <2>4. Zone(x) \subseteq Z
    BY <1>5, <2>1, <2>3
  <2>5. y \in Zone(x)
    BY <1>1, <1>3
  <2>6. QED
    BY <2>4, <2>5 DEF Z
<1>11. BasinsAreLabelled(f, output)
  <2> SUFFICES ASSUME NEW S, S \subseteq Point, S # {}, IsDownClosed(S, f)
               PROVE  \E x \in S : output[x] > 0
    BY DEF BasinsAreLabelled
  <2> DEFINE H == {f[z] : z \in S}
  <2>1. H \in SUBSET Nat /\ H # {}
    BY <1>1
  <2>2. PICK m \in H : \A h \in H : m <= h
    <3> HIDE DEF H
    <3>1. QED
      BY <2>1, LeastElement
  <2>3. PICK x \in S : f[x] = m
    OBVIOUS
  <2>4. \A z \in S : f[x] <= f[z]
    BY <2>2, <2>3
  <2>5. x \in Point
    OBVIOUS
  <2>6. NoPairLeaves(S, FlatPoints(f, x), Adjacent)
    <3> SUFFICES ASSUME NEW o \in S, NEW r \in FlatPoints(f, x), <<o, r>> \in Adjacent PROVE r \in S
      BY DEF NoPairLeaves
    <3>1. o \in Point /\ r \in Point /\ f[r] = f[x]
      BY DEF FlatPoints
    <3>2. f[r] <= f[o]
      BY <2>4, <3>1
    <3>3. QED
      BY <3>1, <3>2 DEF IsDownClosed
  <2>7. Zone(x) \subseteq S
    BY <1>5, <2>5, <2>6
  <2>8. ASSUME NEW u \in Point, NEW v \in Point, u \in Zone(x), <<u, v>> \in Adjacent
        PROVE  f[u] <= f[v]
    <3>1. u \in S /\ f[u] = f[x]
      BY <1>5, <2>5, <2>7, <2>8
    <3>2. CASE f[v] <= f[u]
      <4>1. v \in S
        BY <2>8, <3>1, <3>2 DEF IsDownClosed
      <4>2. QED
        BY <2>4, <3>1, <4>1
    <3>3. CASE ~(f[v] <= f[u])
      BY <1>1, <2>8, <3>3
    <3>4. QED
      BY <3>2, <3>3
  <2>9. output[x] # 0
    BY <1>4, <2>5, <2>8
  <2>10. QED
    BY <1>1, <2>5, <2>9
<1>12. QED
  BY <1>6, <1>8, <1>9, <1>10, <1>11 DEF FloodOK

-----------------------------------------------------------------------------
(* The edges that the flooding adds to the graph. *)

Edge == [out : 0 .. n_label, w : Level]

HasEdge(g, a, b, w) == \E c \in DOMAIN g[a] : g[a][c] = [out |-> b, w |-> w]

EdgeSet(g) == {d \in (0 .. n_label) \X (0 .. n_label) \X Level : HasEdge(g, d[1], d[2], d[3])}

(* The types while regions grow. *)
Typed == n_label \in Nat /\ output \in [Point -> 0 .. n_label] /\ f \in [Point -> Level]

LEMMA EndsAre ==
    ASSUME Typed, NEW x \in Point, NEW y \in Point
    PROVE  /\ Min({output[x], output[y]}) = Lesser(output[x], output[y])
           /\ Max({output[x], output[y]}) = Higher(output[x], output[y])
           /\ Max({f[x], f[y]}) = Higher(f[x], f[y])
           /\ Lesser(output[x], output[y]) \in 0 .. n_label
           /\ Higher(output[x], output[y]) \in 0 .. n_label
           /\ Higher(f[x], f[y]) \in Level
<1>1. output[x] \in Int /\ output[y] \in Int /\ f[x] \in Int /\ f[y] \in Int
  BY DEF Typed, Level
<1>2. \A u, v \in Int : Min({u, v}) = Lesser(u, v)
  BY MinOfTwo DEF Lesser
<1>3. \A u, v \in Int : Max({u, v}) = Higher(u, v)
  BY MaxOfTwo DEF Higher
<1>4. /\ Lesser(output[x], output[y]) \in 0 .. n_label
      /\ Higher(output[x], output[y]) \in 0 .. n_label
      /\ Higher(f[x], f[y]) \in Level
  BY DEF Typed, Lesser, Higher
<1>5. QED
  BY <1>1, <1>2, <1>3, <1>4

(* An edge is added, or a known one lowered. *)
LEMMA EdgeIsAdded ==
    ASSUME Typed, NEW g \in [0 .. n_label -> Seq(Edge)], NEW x \in Point, NEW y \in Point,
           NEW a, a = Lesser(output[x], output[y]), NEW b, b = Higher(output[x], output[y]),
           NEW m, m = Higher(f[x], f[y]), NEW h, h = AddEdge(g, x, y)
    PROVE  /\ h \in [0 .. n_label -> Seq(Edge)]
           /\ \E w \in Level : HasEdge(h, a, b, w) /\ w <= m
           /\ \A u, v \in 0 .. n_label, w \in Level :
                 HasEdge(g, u, v, w) => \E z \in Level : HasEdge(h, u, v, z) /\ z <= w
           /\ \A u, v \in 0 .. n_label, w \in Level :
                 HasEdge(h, u, v, w) => HasEdge(g, u, v, w) \/ (u = a /\ v = b /\ w = m)
<1>1. a \in 0 .. n_label /\ b \in 0 .. n_label /\ m \in Level
  BY EndsAre
<1>2. h = IF \E e \in DOMAIN g[a] : g[a][e].out = b
          THEN [g EXCEPT ![a] = [e \in DOMAIN g[a] |->
                   IF g[a][e].out = b THEN [out |-> b, w |-> Min({g[a][e].w, m})] ELSE g[a][e]]]
          ELSE [g EXCEPT ![a] = Append(g[a], [out |-> b, w |-> m])]
  <2>1. /\ Min({output[x], output[y]}) = a /\ Max({output[x], output[y]}) = b
        /\ Max({f[x], f[y]}) = m
    BY EndsAre
  <2>2. QED
    BY <2>1 DEF AddEdge
<1>3. /\ g[a] \in Seq(Edge) /\ Len(g[a]) \in Nat /\ DOMAIN g[a] = 1 .. Len(g[a])
      /\ \A c \in DOMAIN g[a] : g[a][c] \in Edge
  <2>1. g[a] \in Seq(Edge)
    BY <1>1
  <2> DEFINE s == g[a]
  <2> HIDE DEF s
  <2>2. s \in Seq(Edge) => /\ Len(s) \in Nat /\ DOMAIN s = 1 .. Len(s)
                           /\ \A c \in DOMAIN s : s[c] \in Edge
    OBVIOUS
  <2>3. QED
    BY <2>1, <2>2 DEF s
<1>4. \A w \in Level : w \in Int
  BY DEF Level
<1>5. ASSUME NEW u \in Level
      PROVE  /\ Min({u, m}) = Lesser(u, m) /\ Lesser(u, m) \in Level
             /\ Lesser(u, m) <= u /\ Lesser(u, m) <= m
             /\ Lesser(u, m) = u \/ Lesser(u, m) = m
  <2>1. u \in Int /\ m \in Int
    BY <1>1, <1>4
  <2>2. Min({u, m}) = IF u <= m THEN u ELSE m
    BY <2>1, MinOfTwo
  <2>3. Lesser(u, m) = IF u <= m THEN u ELSE m
    BY <2>1 DEF Lesser
  <2>4. QED
    BY <1>1, <2>1, <2>2, <2>3
<1>6. CASE \E e \in DOMAIN g[a] : g[a][e].out = b
  <2> DEFINE low(e) == IF e.out = b THEN [out |-> b, w |-> Lesser(e.w, m)] ELSE e
             t == [c \in DOMAIN g[a] |-> low(g[a][c])]
  <2>1. ASSUME NEW e \in Edge
        PROVE  /\ (IF e.out = b THEN [out |-> b, w |-> Min({e.w, m})] ELSE e) = low(e)
               /\ low(e) \in Edge /\ low(e).out = e.out /\ low(e).w <= e.w
               /\ low(e) = e \/ (low(e).out = b /\ low(e).w = m)
               /\ e.out = b => low(e).out = b /\ low(e).w <= m
    <3>1. e.w \in Level /\ e.out \in 0 .. n_label /\ e = [out |-> e.out, w |-> e.w]
      BY DEF Edge
    <3>2. /\ Min({e.w, m}) = Lesser(e.w, m) /\ Lesser(e.w, m) \in Level
          /\ Lesser(e.w, m) <= e.w /\ Lesser(e.w, m) <= m
          /\ Lesser(e.w, m) = e.w \/ Lesser(e.w, m) = m
      BY <1>5, <3>1
    <3>3. CASE e.out = b
      BY <1>1, <3>1, <3>2, <3>3 DEF Edge
    <3>4. CASE e.out # b
      BY <1>4, <3>1, <3>4
    <3>5. QED
      BY <3>3, <3>4
  <2>2. h = [g EXCEPT ![a] = t]
    <3>1. h = [g EXCEPT ![a] = [e \in DOMAIN g[a] |->
                 IF g[a][e].out = b THEN [out |-> b, w |-> Min({g[a][e].w, m})] ELSE g[a][e]]]
      BY <1>2, <1>6
    <3>2. \A c \in DOMAIN g[a] :
             (IF g[a][c].out = b THEN [out |-> b, w |-> Min({g[a][c].w, m})] ELSE g[a][c]) = low(g[a][c])
      BY <1>3, <2>1
    <3> HIDE DEF low
    <3>3. [e \in DOMAIN g[a] |->
              IF g[a][e].out = b THEN [out |-> b, w |-> Min({g[a][e].w, m})] ELSE g[a][e]] = t
      BY <3>2
    <3> HIDE DEF t
    <3>4. QED
      BY <3>1, <3>3
  <2> HIDE DEF low
  <2>3. t \in Seq(Edge) /\ DOMAIN t = DOMAIN g[a] /\ \A c \in DOMAIN g[a] : t[c] = low(g[a][c])
    <3>1. t \in [1 .. Len(g[a]) -> Edge]
      BY <1>3, <2>1
    <3> HIDE DEF t
    <3>2. t \in Seq(Edge)
      BY <1>3, <3>1
    <3>3. QED
      BY <3>2 DEF t
  <2> HIDE DEF t
  <2>4. /\ h \in [0 .. n_label -> Seq(Edge)] /\ h[a] = t
        /\ \A u \in 0 .. n_label : u # a => h[u] = g[u]
    BY <1>1, <2>2, <2>3
  <2>5. \E w \in Level : HasEdge(h, a, b, w) /\ w <= m
    <3>1. PICK c \in DOMAIN g[a] : g[a][c].out = b
      BY <1>6
    <3>2. h[a][c].out = b /\ h[a][c].w <= m /\ h[a][c] \in Edge /\ c \in DOMAIN h[a]
      <4>1. g[a][c] \in Edge /\ h[a][c] = low(g[a][c]) /\ c \in DOMAIN h[a]
        BY <1>3, <2>3, <2>4
      <4>2. low(g[a][c]).out = b /\ low(g[a][c]).w <= m /\ low(g[a][c]) \in Edge
        BY <2>1, <3>1, <4>1
      <4>3. QED
        BY <4>1, <4>2
    <3>3. h[a][c] = [out |-> b, w |-> h[a][c].w] /\ h[a][c].w \in Level
      BY <3>2 DEF Edge
    <3>4. QED
      BY <3>2, <3>3 DEF HasEdge
  <2>6. ASSUME NEW u \in 0 .. n_label, NEW v \in 0 .. n_label, NEW w \in Level, HasEdge(g, u, v, w)
        PROVE  \E z \in Level : HasEdge(h, u, v, z) /\ z <= w
    <3>1. PICK c \in DOMAIN g[u] : g[u][c] = [out |-> v, w |-> w]
      BY <2>6 DEF HasEdge
    <3>2. CASE u = a
      <4>1. g[a][c] \in Edge /\ h[a][c] = low(g[a][c]) /\ c \in DOMAIN h[a]
        BY <1>3, <2>3, <2>4, <3>1, <3>2
      <4>2. h[a][c] \in Edge /\ h[a][c].out = v /\ h[a][c].w <= w
        <5>1. g[a][c].out = v /\ g[a][c].w = w
          BY <3>1, <3>2
        <5>2. /\ low(g[a][c]) \in Edge /\ low(g[a][c]).out = g[a][c].out
              /\ low(g[a][c]).w <= g[a][c].w
          BY <2>1, <4>1
        <5>3. QED
          BY <4>1, <5>1, <5>2
      <4>3. h[a][c] = [out |-> v, w |-> h[a][c].w] /\ h[a][c].w \in Level
        BY <4>2 DEF Edge
      <4>4. QED
        BY <3>2, <4>1, <4>2, <4>3 DEF HasEdge
    <3>3. CASE u # a
      BY <1>4, <2>4, <2>6, <3>3 DEF HasEdge
    <3>4. QED
      BY <3>2, <3>3
  <2>7. ASSUME NEW u \in 0 .. n_label, NEW v \in 0 .. n_label, NEW w \in Level, HasEdge(h, u, v, w)
        PROVE  HasEdge(g, u, v, w) \/ (u = a /\ v = b /\ w = m)
    <3>1. CASE u = a
      <4>1. PICK c \in DOMAIN g[a] : low(g[a][c]) = [out |-> v, w |-> w]
        BY <2>3, <2>4, <2>7, <3>1 DEF HasEdge
      <4>2. g[a][c] \in Edge
        BY <1>3
      <4>3. low(g[a][c]) = g[a][c] \/ (low(g[a][c]).out = b /\ low(g[a][c]).w = m)
        BY <2>1, <4>2
      <4>4. QED
        BY <3>1, <4>1, <4>3 DEF HasEdge
    <3>2. CASE u # a
      BY <2>4, <2>7, <3>2 DEF HasEdge
    <3>3. QED
      BY <3>1, <3>2
  <2>8. QED
    BY <2>4, <2>5, <2>6, <2>7
<1>7. CASE ~(\E e \in DOMAIN g[a] : g[a][e].out = b)
  <2> DEFINE e == [out |-> b, w |-> m]
             t == Append(g[a], e)
  <2>1. e \in Edge /\ h = [g EXCEPT ![a] = t]
    BY <1>1, <1>2, <1>7 DEF Edge
  <2> HIDE DEF e
  <2>2. /\ t \in Seq(Edge) /\ DOMAIN t = DOMAIN g[a] \cup {Len(g[a]) + 1}
        /\ \A c \in DOMAIN g[a] : t[c] = g[a][c]
        /\ t[Len(g[a]) + 1] = e
    <3> DEFINE s == g[a]
               c == Len(s)
    <3>1. s \in Seq(Edge) /\ c \in Nat /\ DOMAIN s = 1 .. c
      BY <1>3
    <3> HIDE DEF s
    <3>2. /\ Append(s, e) \in Seq(Edge) /\ DOMAIN Append(s, e) = 1 .. c + 1
          /\ \A z \in 1 .. c : Append(s, e)[z] = s[z]
          /\ Append(s, e)[c + 1] = e
      BY <2>1, <3>1, AppendProperties
    <3>3. 1 .. c + 1 = (1 .. c) \cup {c + 1}
      BY <3>1
    <3>4. QED
      BY <3>1, <3>2, <3>3 DEF s
  <2> HIDE DEF t
  <2>3. /\ h \in [0 .. n_label -> Seq(Edge)] /\ h[a] = t
        /\ \A u \in 0 .. n_label : u # a => h[u] = g[u]
    BY <1>1, <2>1, <2>2
  <2>4. HasEdge(h, a, b, m)
    BY <2>2, <2>3 DEF HasEdge, e
  <2>5. \E w \in Level : HasEdge(h, a, b, w) /\ w <= m
    BY <1>1, <1>4, <2>4
  <2>6. ASSUME NEW u \in 0 .. n_label, NEW v \in 0 .. n_label, NEW w \in Level, HasEdge(g, u, v, w)
        PROVE  \E z \in Level : HasEdge(h, u, v, z) /\ z <= w
    <3>1. HasEdge(h, u, v, w)
      BY <2>2, <2>3, <2>6 DEF HasEdge
    <3>2. QED
      BY <1>4, <3>1
  <2>7. ASSUME NEW u \in 0 .. n_label, NEW v \in 0 .. n_label, NEW w \in Level, HasEdge(h, u, v, w)
        PROVE  HasEdge(g, u, v, w) \/ (u = a /\ v = b /\ w = m)
    <3>1. PICK c \in DOMAIN h[u] : h[u][c] = [out |-> v, w |-> w]
      BY <2>7 DEF HasEdge
    <3>2. CASE u = a /\ c \notin DOMAIN g[a]
      BY <2>2, <2>3, <3>1, <3>2 DEF e
    <3>3. CASE ~(u = a /\ c \notin DOMAIN g[a])
      BY <2>2, <2>3, <3>1, <3>3 DEF HasEdge
    <3>4. QED
      BY <3>2, <3>3
  <2>8. QED
    BY <2>3, <2>5, <2>6, <2>7
<1>8. QED
  BY <1>6, <1>7

(* h is g with an edge between the regions of x and of each point of T. *)
HasPassIn(g, x, y) ==
    \E w \in Level : /\ HasEdge(g, Lesser(output[x], output[y]), Higher(output[x], output[y]), w)
                     /\ w <= Higher(f[x], f[y])

IsPassOf(u, v, w, x, y) ==
    /\ u = Lesser(output[x], output[y]) /\ v = Higher(output[x], output[y])
    /\ w = Higher(f[x], f[y])

IsGrown(g, h, x, T) ==
    /\ \A y \in T : HasPassIn(h, x, y)
    /\ \A u, v \in 0 .. n_label, w \in Level :
          HasEdge(g, u, v, w) => \E z \in Level : HasEdge(h, u, v, z) /\ z <= w
    /\ \A u, v \in 0 .. n_label, w \in Level :
          HasEdge(h, u, v, w) => HasEdge(g, u, v, w) \/ \E y \in T : IsPassOf(u, v, w, x, y)

LEMMA GraphGrows ==
    ASSUME Typed, NEW g, NEW h \in [0 .. n_label -> Seq(Edge)], NEW x \in Point,
           NEW T, T \subseteq Point, IsGrown(g, h, x, T), NEW y \in Point
    PROVE  /\ AddEdge(h, x, y) \in [0 .. n_label -> Seq(Edge)]
           /\ IsGrown(g, AddEdge(h, x, y), x, T \cup {y})
<1> DEFINE t == AddEdge(h, x, y)
           a == Lesser(output[x], output[y])
           b == Higher(output[x], output[y])
           m == Higher(f[x], f[y])
<1>1. /\ t \in [0 .. n_label -> Seq(Edge)]
      /\ \E w \in Level : HasEdge(t, a, b, w) /\ w <= m
      /\ \A u, v \in 0 .. n_label, w \in Level :
            HasEdge(h, u, v, w) => \E z \in Level : HasEdge(t, u, v, z) /\ z <= w
      /\ \A u, v \in 0 .. n_label, w \in Level :
            HasEdge(t, u, v, w) => HasEdge(h, u, v, w) \/ (u = a /\ v = b /\ w = m)
  BY EdgeIsAdded
<1>2. HasPassIn(t, x, y)
  BY <1>1 DEF HasPassIn
<1>3. \A u, v, w : u = a /\ v = b /\ w = m => IsPassOf(u, v, w, x, y)
  BY DEF IsPassOf
<1>4. \A z \in Point : /\ Lesser(output[x], output[z]) \in 0 .. n_label
                       /\ Higher(output[x], output[z]) \in 0 .. n_label
                       /\ Higher(f[x], f[z]) \in Level
  BY EndsAre
<1>5. \A w \in Level : w \in Int
  BY DEF Level
<1> HIDE DEF t, a, b, m
<1>6. ASSUME NEW z \in T PROVE HasPassIn(t, x, z)
  <2>1. z \in Point
    OBVIOUS
  <2>2. PICK w \in Level : /\ HasEdge(h, Lesser(output[x], output[z]), Higher(output[x], output[z]), w)
                           /\ w <= Higher(f[x], f[z])
    BY DEF IsGrown, HasPassIn
  <2>3. PICK c \in Level : /\ HasEdge(t, Lesser(output[x], output[z]), Higher(output[x], output[z]), c)
                           /\ c <= w
    BY <1>1, <1>4, <2>1, <2>2
  <2>4. c <= Higher(f[x], f[z])
    BY <1>4, <1>5, <2>1, <2>2, <2>3
  <2>5. QED
    BY <2>3, <2>4 DEF HasPassIn
<1>7. ASSUME NEW u \in 0 .. n_label, NEW v \in 0 .. n_label, NEW w \in Level, HasEdge(g, u, v, w)
      PROVE  \E z \in Level : HasEdge(t, u, v, z) /\ z <= w
  <2>1. PICK c \in Level : HasEdge(h, u, v, c) /\ c <= w
    BY <1>7 DEF IsGrown
  <2>2. PICK z \in Level : HasEdge(t, u, v, z) /\ z <= c
    BY <1>1, <2>1
  <2>3. z <= w
    BY <1>5, <2>1, <2>2
  <2>4. QED
    BY <2>2, <2>3
<1>8. ASSUME NEW u \in 0 .. n_label, NEW v \in 0 .. n_label, NEW w \in Level, HasEdge(t, u, v, w)
      PROVE  HasEdge(g, u, v, w) \/ \E z \in T \cup {y} : IsPassOf(u, v, w, x, z)
  <2>1. HasEdge(h, u, v, w) \/ (u = a /\ v = b /\ w = m)
    BY <1>1, <1>8
  <2>2. CASE HasEdge(h, u, v, w)
    BY <2>2 DEF IsGrown
  <2>3. CASE u = a /\ v = b /\ w = m
    BY <1>3, <2>3
  <2>4. QED
    BY <2>1, <2>2, <2>3
<1>9. IsGrown(g, t, x, T \cup {y})
  BY <1>2, <1>6, <1>7, <1>8 DEF IsGrown
<1>10. QED
  BY <1>1, <1>9 DEF t

LEMMA EdgesAreAdded ==
    ASSUME Typed, NEW g \in [0 .. n_label -> Seq(Edge)], NEW x \in Point, NEW s \in Seq(Point)
    PROVE  /\ AddEdges(g, x, s) \in [0 .. n_label -> Seq(Edge)]
           /\ IsGrown(g, AddEdges(g, x, s), x, Range(s))
<1> DEFINE n == Len(s)
           S == [0 .. n_label -> Seq(Edge)]
           G == [e \in (1 .. n) \X S |-> AddEdge(e[2], x, s[e[1]])]
           Is(u) == u = [m \in 0 .. n |-> IF m = 0 THEN g ELSE AddEdge(u[m - 1], x, s[m])]
           added == CHOOSE u : Is(u)
           Met(m) == {s[a] : a \in 1 .. m}
           Good(m) == added[m] \in S /\ IsGrown(g, added[m], x, Met(m))
<1>1. AddEdges(g, x, s) = added[n]
  BY DEF AddEdges
<1>2. n \in Nat /\ \A m \in 1 .. n : s[m] \in Point
  OBVIOUS
<1>3. \A h \in S, y \in Point : AddEdge(h, x, y) \in S
  BY EdgeIsAdded
<1> HIDE DEF n, S
<1>4. \E u \in [0 .. n -> S] : Is(u)
  <2>1. \A m \in 1 .. n, h \in S : G[<<m, h>>] = AddEdge(h, x, s[m])
    OBVIOUS
  <2> HIDE DEF G
  <2>2. \A m \in 1 .. n, h \in S : G[<<m, h>>] \in S
    BY <1>2, <1>3, <2>1
  <2>3. PICK u \in [0 .. n -> S] : IsRecursion(u, G, g, n)
    <3>1. g \in S
      BY DEF S
    <3>2. QED
      BY <1>2, <2>2, <3>1, RecursionExists
  <2>4. u = [m \in 0 .. n |-> IF m = 0 THEN g ELSE G[<<m, u[m - 1]>>]]
    BY <2>3 DEF IsRecursion
  <2>5. \A m \in 0 .. n : m # 0 => G[<<m, u[m - 1]>>] = AddEdge(u[m - 1], x, s[m])
    <3> SUFFICES ASSUME NEW m \in 0 .. n, m # 0
                 PROVE  G[<<m, u[m - 1]>>] = AddEdge(u[m - 1], x, s[m])
      OBVIOUS
    <3>1. m \in 1 .. n /\ m - 1 \in 0 .. n
      BY <1>2
    <3>2. u[m - 1] \in S
      BY <3>1
    <3>3. QED
      BY <2>1, <3>1, <3>2
  <2>6. Is(u)
    BY <2>4, <2>5
  <2>7. QED
    BY <2>6
<1>5. Is(added)
  <2> HIDE DEF Is
  <2>1. QED
    BY <1>4
<1> HIDE DEF added
<1>6. added[0] = g /\ \A m \in Nat : m + 1 <= n => added[m + 1] = AddEdge(added[m], x, s[m + 1])
  <2>1. \A m \in 0 .. n : added[m] = IF m = 0 THEN g ELSE AddEdge(added[m - 1], x, s[m])
    BY <1>5
  <2>2. 0 \in 0 .. n /\ \A m \in Nat : m + 1 <= n => m + 1 \in 0 .. n /\ m + 1 # 0 /\ m + 1 - 1 = m
    BY <1>2
  <2> HIDE DEF Is
  <2>3. QED
    BY <2>1, <2>2
<1> HIDE DEF Is
<1> DEFINE H == {m \in Nat : m <= n => Good(m)}
<1>7. 0 \in H
  <2>1. Met(0) = {}
    OBVIOUS
  <2>2. IsGrown(g, g, x, {})
    <3>1. \A w \in Level : w <= w
      BY DEF Level
    <3>2. QED
      BY <3>1 DEF IsGrown
  <2>3. Good(0)
    BY <1>6, <2>1, <2>2 DEF S
  <2>4. QED
    BY <2>3
<1>8. ASSUME NEW m \in H PROVE m + 1 \in H
  <2>1. m \in Nat
    OBVIOUS
  <2> SUFFICES ASSUME m + 1 <= n PROVE Good(m + 1)
    BY <2>1
  <2>2. Good(m)
    BY <1>2, <2>1
  <2>3. m + 1 \in 1 .. n
    BY <1>2, <2>1
  <2>4. Met(m + 1) = Met(m) \cup {s[m + 1]}
    <3>1. 1 .. m + 1 = (1 .. m) \cup {m + 1}
      BY <2>1
    <3>2. QED
      BY <3>1
  <2>5. Met(m) \subseteq Point
    BY <1>2, <2>1
  <2>6. added[m + 1] = AddEdge(added[m], x, s[m + 1])
    BY <1>6, <2>1
  <2> HIDE DEF Met
  <2>7. s[m + 1] \in Point /\ added[m] \in S /\ IsGrown(g, added[m], x, Met(m))
    BY <1>2, <2>2, <2>3
  <2>8. /\ AddEdge(added[m], x, s[m + 1]) \in S
        /\ IsGrown(g, AddEdge(added[m], x, s[m + 1]), x, Met(m) \cup {s[m + 1]})
    BY <2>5, <2>7, GraphGrows DEF S
  <2>9. QED
    BY <2>4, <2>6, <2>8
<1> HIDE DEF H, Good
<1>9. H = Nat
  BY <1>7, <1>8, SetOfAllNaturals DEF H
<1>10. Good(n)
  BY <1>2, <1>9 DEF H
<1>11. Met(n) = Range(s)
  BY DEF Range, n
<1> HIDE DEF Met
<1>12. QED
  BY <1>1, <1>10, <1>11 DEF Good, S

-----------------------------------------------------------------------------
(* The actions. *)

Waits == {x \in Point : \E l \in Level : x \in Range(queue[l])}

QueueOK ==
    /\ queue \in [Level -> Seq(Point)]
    /\ \A l \in Level : \A x \in Range(queue[l]) : f[x] = l

GrowInv ==
    /\ rag \in [0 .. n_label -> Seq(Edge)]
    /\ QueueOK
    /\ FloodOK(f, output, n_label, Waits, EdgeSet(rag))

GraphInv ==
    /\ pc \in {"scan", "label", "end"} => f \in Images
    /\ pc = "labelled" => n_label \in Nat
    /\ pc = "flood" /\ seeds = Unmarked /\ n_label # 0 => GrowInv
    /\ pc = "mst" => j \in Nat \ {0}
    /\ GraphKeepsPasses

LEMMA NearIs ==
    ASSUME NEW x \in Point
    PROVE  /\ Near(x) \in Seq(Point) /\ DOMAIN Near(x) = 1 .. Len(Near(x)) /\ Len(Near(x)) \in Nat
           /\ Range(Near(x)) = {Near(x)[m] : m \in 1 .. Len(Near(x))}
           /\ \A y : y \in Range(Near(x)) <=> y \in Point /\ <<x, y>> \in Adjacent
<1> DEFINE s == Nbh[x]
<1>1. DOMAIN s = 1 .. Len(s) /\ Len(s) \in Nat
  BY WaterfallAssumption
<1>2. Range(s) = {s[m] : m \in 1 .. Len(s)}
  BY <1>1 DEF Range
<1>3. \A y \in Point : y \in Range(s) <=> <<x, y>> \in Adjacent
  BY WaterfallAssumption
<1> HIDE DEF s
<1>4. B!Selected(s, Point) \in Seq(Point) /\ Range(B!Selected(s, Point)) = Range(s) \cap Point
  BY <1>1, <1>2, SelectedIs
<1>5. Near(x) = B!Selected(s, Point)
  BY DEF Near, s
<1> DEFINE t == Near(x)
<1>6. t \in Seq(Point) /\ Range(t) = Range(s) \cap Point
  BY <1>4, <1>5
<1> HIDE DEF t
<1>7. DOMAIN t = 1 .. Len(t) /\ Len(t) \in Nat
  BY <1>6
<1>8. Range(t) = {t[m] : m \in 1 .. Len(t)}
  BY <1>7 DEF Range
<1>9. \A y : y \in Range(t) <=> y \in Point /\ <<x, y>> \in Adjacent
  BY <1>3, <1>6
<1>10. QED
  BY <1>6, <1>7, <1>8, <1>9 DEF t

(* The neighbours of x in T. *)
LEMMA NearSelectedIs ==
    ASSUME NEW x \in Point, NEW T
    PROVE  /\ B!Selected(Near(x), T) \in Seq(Point)
           /\ \A y : y \in Range(B!Selected(Near(x), T)) <=>
                        y \in Point /\ <<x, y>> \in Adjacent /\ y \in T
<1> DEFINE s == Near(x)
           t == B!Selected(s, T)
           U == T \cap Point
<1>1. /\ s \in Seq(Point) /\ DOMAIN s = 1 .. Len(s) /\ Len(s) \in Nat
      /\ Range(s) = {s[m] : m \in 1 .. Len(s)}
      /\ \A y : y \in Range(s) <=> y \in Point /\ <<x, y>> \in Adjacent
  BY NearIs
<1> HIDE DEF s
<1>2. t \in Seq(T) /\ Range(t) = Range(s) \cap T
  BY <1>1, SelectedIs
<1> HIDE DEF t
<1>3. t \in Seq(Point)
  <2>1. Len(t) \in Nat /\ DOMAIN t = 1 .. Len(t)
    BY <1>2
  <2>2. \A m \in 1 .. Len(t) : t[m] \in Point
    <3>1. \A m \in DOMAIN t : t[m] \in Range(t)
      BY DEF Range
    <3>2. QED
      BY <1>1, <1>2, <2>1, <3>1
  <2>3. t \in [1 .. Len(t) -> Point]
    BY <1>2, <2>1, <2>2
  <2>4. QED
    BY <2>1, <2>3
<1>4. QED
  BY <1>1, <1>2, <1>3 DEF t, s

LEMMA NoMarkerNoLabel ==
    ASSUME BlobsInv, pc = "labelled", n_label \in Nat, seeds = Unmarked PROVE n_label = 0
<1>1. On = {}
  BY DEF On, Unmarked
<1>2. B!Components = {}
  BY <1>1, ComponentsAre
<1>3. {{x \in Point : output[x] = l} : l \in 1 .. n_label} = {}
  BY <1>2 DEF BlobsInv, BlobsAreComponents, B!BlobsAreComponents
<1>4. ~(1 \in 1 .. n_label)
  <2> SUFFICES ASSUME 1 \in 1 .. n_label PROVE FALSE
    OBVIOUS
  <2> DEFINE Region(l) == {x \in Point : output[x] = l}
             all == {Region(l) : l \in 1 .. n_label}
  <2>1. Region(1) \in all
    OBVIOUS
  <2>2. all = {}
    BY <1>3
  <2> HIDE DEF all
  <2>3. QED
    BY <2>1, <2>2
<1>5. QED
  BY <1>4

LEMMA StartFloodKeeps ==
    ASSUME MinimaInv, BlobsInv, GraphInv, StartFlood PROVE GraphInv'
<1>1. /\ pc \in {"end", "labelled"} /\ pc' = "flood"
      /\ queue' = [l \in Q!Level |-> B!Selected(Raster, Shore(l))]
      /\ rag' = [l \in 0 .. n_label |-> <<>>]
      /\ f' = f /\ output' = output /\ n_label' = n_label /\ seeds' = seeds
  BY DEF StartFlood, labelling
<1>2. SUFFICES ASSUME seeds' = Unmarked, n_label' # 0 PROVE GrowInv'
  <2>1. (seeds = Unmarked /\ n_label # 0)' => GrowInv'
    BY <1>2 DEF Unmarked
  <2>2. QED
    BY <1>1, <2>1 DEF GraphInv, GraphKeepsPasses
<1>3. pc = "end" /\ n_label # 0
  <2>1. ASSUME pc = "labelled" PROVE FALSE
    BY <1>1, <1>2, <2>1, NoMarkerNoLabel DEF GraphInv
  <2>2. QED
    BY <1>1, <1>2, <2>1
<1>4. f \in Images /\ LabelsAreMinima
  BY <1>3, MinimaAreLabelled DEF GraphInv
<1>5. n_label \in Nat \ {0} /\ output \in [Point -> 0 .. n_label]
  <2>1. PICK to : LabelOK(Lower(f), Point, parent, output, n_label, to)
    BY <1>3 DEF MinimaInv, LabelInv, HasLabel
  <2>2. QED
    BY <1>3, <2>1 DEF LabelOK
<1>6. Q!Level = Level
  BY DEF Q!Level, Level
<1>7. ASSUME NEW l \in Level
      PROVE  /\ queue'[l] \in Seq(Point)
             /\ \A x : x \in Range(queue'[l]) <=>
                   /\ x \in Point /\ f[x] = l /\ output[x] > 0
                   /\ \E y \in Point : <<x, y>> \in Adjacent /\ output[y] = 0
  <2> DEFINE s == Raster
             t == queue'[l]
             T == Shore(l)
  <2>1. s \in Seq(Point) /\ DOMAIN s = 1 .. Len(s) /\ Len(s) \in Nat /\ {s[m] : m \in 1 .. Len(s)} = Point
    <3>1. s \in Seq(Point) /\ DOMAIN s = 1 .. Len(s) /\ Len(s) \in Nat
      BY LocalMinimaAssumption
    <3>2. \A a \in 1 .. Len(Raster) : Raster[a] \in Point
      BY RanksAre
    <3>3. \A x \in Point : At(x) \in 1 .. Len(Raster) /\ Raster[At(x)] = x
      BY RanksAre
    <3>4. QED
      BY <3>1, <3>2, <3>3
  <2>2. t = B!Selected(s, T)
    BY <1>1, <1>6
  <2>3. T \subseteq Point /\ T \cap Point = T
    BY DEF Shore
  <2> HIDE DEF s, T
  <2>4. t \in Seq(T) /\ Range(t) = Point \cap T
    BY <2>1, <2>2, SelectedIs
  <2> HIDE DEF t
  <2>5. t \in Seq(Point)
    BY <2>3, <2>4
  <2>6. \A x \in Point : x \in T <=> /\ f[x] = l /\ output[x] > 0
                                     /\ \E y \in Point : <<x, y>> \in Adjacent /\ output[y] = 0
    BY NearIs DEF T, Shore
  <2>7. QED
    BY <2>3, <2>4, <2>5, <2>6 DEF t
<1>8. QueueOK'
  <2>1. queue' \in [Level -> Seq(Point)]
    BY <1>1, <1>6, <1>7
  <2>2. \A l \in Level : \A x \in Range(queue'[l]) : f'[x] = l
    BY <1>1, <1>7
  <2>3. QED
    BY <2>1, <2>2 DEF QueueOK
<1> DEFINE wait == {x \in Point : \E l \in Level : x \in Range(queue'[l])}
<1>9. \A x : x \in wait <=> /\ x \in Point /\ output[x] > 0
                            /\ \E y \in Point : <<x, y>> \in Adjacent /\ output[y] = 0
  <2>1. \A x \in Point : f[x] \in Level
    BY <1>4, LevelsAre
  <2>2. QED
    BY <1>7, <2>1
<1>10. Waits' = wait
  BY DEF Waits
<1> HIDE DEF wait
<1>11. FloodOK(f, output, n_label, wait, {})
  BY <1>3, <1>4, <1>5, <1>9, FloodStarts
<1>12. rag' \in [0 .. n_label' -> Seq(Edge')] /\ EdgeSet(rag)' = {}
  <2>1. \A l \in 0 .. n_label : rag'[l] = <<>> /\ DOMAIN rag'[l] = {} /\ rag'[l] \in Seq(Edge')
    BY <1>1
  <2>2. rag' \in [0 .. n_label -> Seq(Edge')]
    BY <1>1, <2>1
  <2>3. \A d \in (0 .. n_label) \X (0 .. n_label) \X Level : ~HasEdge(rag', d[1], d[2], d[3])
    BY <2>1 DEF HasEdge
  <2>4. QED
    BY <1>1, <2>2, <2>3 DEF EdgeSet
<1>13. FloodOK(f, output, n_label, Waits, EdgeSet(rag))'
  BY <1>1, <1>10, <1>11, <1>12
<1>14. QED
  BY <1>8, <1>12, <1>13 DEF GrowInv

LEMMA QueueIsPopped ==
    ASSUME NEW S, NEW s \in Seq(S), s # <<>>, NEW t \in Seq(S)
    PROVE  /\ Head(s) \in S /\ Head(s) \in Range(s)
           /\ Tail(s) \o t \in Seq(S)
           /\ Range(Tail(s) \o t) \subseteq Range(s) \cup Range(t)
           /\ Range(t) \subseteq Range(Tail(s) \o t)
           /\ \A x \in Range(s) : x # Head(s) => x \in Range(Tail(s) \o t)
<1>1. /\ Len(s) \in Nat \ {0} /\ DOMAIN s = 1 .. Len(s) /\ Tail(s) \in Seq(S)
      /\ Head(s) = s[1] /\ Len(Tail(s)) = Len(s) - 1
      /\ \A a \in 1 .. Len(s) - 1 : Tail(s)[a] = s[a + 1]
      /\ DOMAIN Tail(s) = 1 .. Len(s) - 1
  <2>1. Len(s) \in Nat \ {0} /\ DOMAIN s = 1 .. Len(s)
    BY EmptySeq
  <2>2. Head(s) = s[1] /\ Tail(s) \in Seq(S) /\ Len(Tail(s)) = Len(s) - 1
        /\ \A a \in 1 .. Len(Tail(s)) : Tail(s)[a] = s[a + 1]
    BY HeadTailProperties
  <2>3. QED
    BY <2>1, <2>2
<1>2. Tail(s) \o t \in Seq(S) /\ Range(Tail(s) \o t) = Range(Tail(s)) \cup Range(t)
  BY <1>1, ConcatProperties, RangeConcatenation
<1>3. Head(s) \in S /\ Head(s) \in Range(s)
  <2>1. 1 \in DOMAIN s
    BY <1>1
  <2>2. QED
    BY <1>1, <2>1 DEF Range
<1>4. ASSUME NEW x \in Range(Tail(s)) PROVE x \in Range(s)
  <2>1. PICK a \in 1 .. Len(s) - 1 : Tail(s)[a] = x
    BY <1>1 DEF Range
  <2>2. a + 1 \in DOMAIN s /\ s[a + 1] = x
    BY <1>1, <2>1
  <2>3. QED
    BY <2>2 DEF Range
<1>5. ASSUME NEW x \in Range(s), x # Head(s) PROVE x \in Range(Tail(s))
  <2>1. PICK a \in DOMAIN s : s[a] = x
    BY DEF Range
  <2>2. a # 1 /\ a \in 1 .. Len(s)
    BY <1>1, <1>5, <2>1
  <2>3. a - 1 \in 1 .. Len(s) - 1 /\ (a - 1) + 1 = a
    BY <1>1, <2>2
  <2>4. Tail(s)[a - 1] = x /\ a - 1 \in DOMAIN Tail(s)
    BY <1>1, <2>1, <2>3
  <2>5. QED
    BY <2>4 DEF Range
<1>6. QED
  BY <1>2, <1>3, <1>4, <1>5

LEMMA PassesOf ==
    ASSUME Typed, NEW g \in [0 .. n_label -> Seq(Edge)], NEW x \in Point, NEW y \in Point
    PROVE  HasPass(f, output, EdgeSet(g), x, y) <=> HasPassIn(g, x, y)
<1> DEFINE a == Lesser(output[x], output[y])
           b == Higher(output[x], output[y])
<1>1. a \in 0 .. n_label /\ b \in 0 .. n_label
  BY EndsAre
<1> HIDE DEF a, b
<1>2. \A w \in Level : <<a, b, w>> \in EdgeSet(g) <=> HasEdge(g, a, b, w)
  BY <1>1 DEF EdgeSet
<1>3. QED
  BY <1>2 DEF HasPass, HasPassIn, a, b

LEMMA FloodKeeps ==
    ASSUME GraphInv, Flood PROVE GraphInv'
<1>1. pc = "flood" /\ pc' = pc /\ f' = f /\ n_label' = n_label /\ seeds' = seeds
  BY DEF Flood, labelling
<1>2. SUFFICES ASSUME seeds = Unmarked, n_label # 0 PROVE GrowInv'
  <2>1. (seeds = Unmarked /\ n_label # 0)' => GrowInv'
    BY <1>1, <1>2 DEF Unmarked
  <2>2. QED
    BY <1>1, <2>1 DEF GraphInv, GraphKeepsPasses
<1>3. /\ rag \in [0 .. n_label -> Seq(Edge)] /\ queue \in [Level -> Seq(Point)]
      /\ \A l \in Level : \A y \in Range(queue[l]) : f[y] = l
      /\ FloodOK(f, output, n_label, Waits, EdgeSet(rag))
  BY <1>1, <1>2 DEF GraphInv, GrowInv, QueueOK
<1>4. Q!Level = Level
  BY DEF Q!Level, Level
<1>5. PICK l \in Level :
         /\ Q!IsTopLevel(l)
         /\ LET x == Head(queue[l])
            IN  /\ output' = [y \in Point |-> IF y \in Range(New(x)) THEN output[x] ELSE output[y]]
                /\ queue' = [m \in Level |-> (IF m = l THEN Tail(queue[m]) ELSE queue[m])
                                             \o B!Selected(New(x), {y \in Point : f[y] = m})]
                /\ rag' = AddEdges(rag, x, Foreign(x))
  BY <1>4 DEF Flood
<1> DEFINE x == Head(queue[l])
           new == Range(New(x))
           Part(m) == B!Selected(New(x), {y \in Point : f[y] = m})
           s == queue[l]
<1>6. /\ queue[l] # <<>>
      /\ \A m \in Level : queue[m] # <<>> => l <= m
  <2>1. \A a, b : Q!Before(a, b) <=> a < b
    BY DEF Q!Before
  <2>2. \A m \in Level : m \in Int
    BY DEF Level
  <2>3. /\ queue[l] # <<>>
        /\ \A m \in Level : queue[m] # <<>> => m = l \/ Q!Before(l, m)
    BY <1>4, <1>5 DEF Q!IsTopLevel
  <2>4. QED
    BY <2>1, <2>2, <2>3
<1>7. /\ x \in Point /\ x \in Range(queue[l]) /\ f[x] = l
  <2>1. s \in Seq(Point) /\ s # <<>>
    BY <1>3, <1>6
  <2> HIDE DEF s
  <2>2. Head(s) \in Point /\ Head(s) \in Range(s)
    BY <2>1, QueueIsPopped, EmptySeq
  <2>3. QED
    BY <1>3, <2>2 DEF s
<1>8. Typed
  BY <1>3 DEF FloodOK, FloodTyped, Typed
<1>9. x \in Waits /\ \A y \in Waits : f[x] <= f[y]
  <2>1. x \in Waits
    BY <1>7 DEF Waits
  <2>2. ASSUME NEW y \in Waits PROVE f[x] <= f[y]
    <3>1. PICK m \in Level : y \in Range(queue[m])
      BY DEF Waits
    <3>2. queue[m] # <<>>
      BY <3>1 DEF Range
    <3>3. QED
      BY <1>3, <1>6, <1>7, <3>1, <3>2
  <2>3. QED
    BY <2>1, <2>2
<1> HIDE DEF x
<1>10. /\ New(x) \in Seq(Point)
       /\ \A y : y \in new <=> y \in Point /\ <<x, y>> \in Adjacent /\ output[y] = 0
  <2> DEFINE T == {y \in Point : output[y] = 0}
  <2>1. New(x) = B!Selected(Near(x), T)
    BY DEF New
  <2>2. \A y \in Point : y \in T <=> output[y] = 0
    OBVIOUS
  <2> HIDE DEF T
  <2>3. QED
    BY <1>7, <2>1, <2>2, NearSelectedIs
<1>11. /\ Foreign(x) \in Seq(Point)
       /\ \A y : y \in Range(Foreign(x)) <=> IsBorder(output, x, y)
  <2> DEFINE T == {y \in Point : output[y] > 0 /\ output[y] # output[x]}
  <2>1. Foreign(x) = B!Selected(Near(x), T)
    BY DEF Foreign
  <2>2. \A y \in Point : y \in T <=> output[y] > 0 /\ output[y] # output[x]
    OBVIOUS
  <2> HIDE DEF T
  <2>3. output[x] > 0
    BY <1>3, <1>9 DEF FloodOK, FrontIs
  <2>4. QED
    BY <1>7, <2>1, <2>2, <2>3, NearSelectedIs DEF IsBorder
<1>12. ASSUME NEW m \in Level
       PROVE  /\ Part(m) \in Seq(Point)
              /\ \A y : y \in Range(Part(m)) <=> y \in new /\ f[y] = m
  <2> DEFINE t == New(x)
             T == {y \in Point : f[y] = m}
  <2>1. t \in Seq(Point)
    BY <1>10
  <2>2. \A y \in Point : y \in T <=> f[y] = m
    OBVIOUS
  <2>3. T \subseteq Point
    OBVIOUS
  <2> HIDE DEF t, T
  <2>4. DOMAIN t = 1 .. Len(t) /\ Len(t) \in Nat
    BY <2>1
  <2>5. Range(t) = {t[a] : a \in 1 .. Len(t)} /\ Range(t) \subseteq Point
    BY <2>1, <2>4 DEF Range
  <2>6. B!Selected(t, T) \in Seq(T) /\ Range(B!Selected(t, T)) = Range(t) \cap T
    BY <2>4, <2>5, SelectedIs
  <2>7. B!Selected(t, T) \in Seq(Point)
    BY <2>3, <2>6
  <2>8. Part(m) = B!Selected(t, T)
    BY DEF t, T
  <2>9. new = Range(t)
    BY DEF t
  <2> HIDE DEF Part, new
  <2>10. QED
    BY <2>2, <2>5, <2>6, <2>7, <2>8, <2>9
<1>13. /\ output' = [y \in Point |-> IF y \in new THEN output[x] ELSE output[y]]
       /\ queue' = [m \in Level |-> (IF m = l THEN Tail(queue[m]) ELSE queue[m]) \o Part(m)]
       /\ rag' = AddEdges(rag, x, Foreign(x))
  BY <1>5 DEF x
<1> HIDE DEF Part, new
<1>14. ASSUME NEW m \in Level
       PROVE  /\ queue'[m] \in Seq(Point)
              /\ Range(queue'[m]) \subseteq Range(queue[m]) \cup Range(Part(m))
              /\ Range(Part(m)) \subseteq Range(queue'[m])
              /\ \A y \in Range(queue[m]) : y # x => y \in Range(queue'[m])
  <2> DEFINE t == queue[m]
             u == Part(m)
  <2>1. t \in Seq(Point) /\ u \in Seq(Point)
    BY <1>3, <1>12
  <2>2. queue'[m] = (IF m = l THEN Tail(t) ELSE t) \o u
    BY <1>13
  <2>3. m = l => t # <<>> /\ x = Head(t)
    BY <1>6 DEF x
  <2> HIDE DEF t, u
  <2>4. CASE m = l
    BY <2>1, <2>2, <2>3, <2>4, QueueIsPopped DEF t, u
  <2>5. CASE m # l
    <3>1. t \o u \in Seq(Point) /\ Range(t \o u) = Range(t) \cup Range(u)
      BY <2>1, ConcatProperties, RangeConcatenation
    <3>2. QED
      BY <2>2, <2>5, <3>1 DEF t, u
  <2>6. QED
    BY <2>4, <2>5
<1>15. \A y \in Point : f[y] \in Level
  BY <1>8 DEF Typed
<1>16. QueueOK'
  <2>1. queue' \in [Level -> Seq(Point)]
    BY <1>13, <1>14
  <2>2. \A m \in Level : \A y \in Range(queue'[m]) : f[y] = m
    BY <1>3, <1>12, <1>14
  <2>3. QED
    BY <1>1, <2>1, <2>2 DEF QueueOK
<1>17. /\ Waits' \subseteq Waits \cup new
       /\ \A y \in Waits : y # x => y \in Waits'
       /\ new \subseteq Waits'
  <2>1. /\ Waits' = {y \in Point : \E m \in Level : y \in Range(queue'[m])}
        /\ Waits = {y \in Point : \E m \in Level : y \in Range(queue[m])}
    BY DEF Waits
  <2>2. \A y \in new : y \in Point /\ f[y] \in Level /\ y \in Range(Part(f[y]))
    BY <1>10, <1>12, <1>15
  <2>3. new \subseteq Waits'
    BY <1>14, <2>1, <2>2
  <2>4. Waits' \subseteq Waits \cup new
    BY <1>12, <1>14, <2>1
  <2>5. \A y \in Waits : y # x => y \in Waits'
    BY <1>14, <2>1
  <2>6. QED
    BY <2>3, <2>4, <2>5
<1> DEFINE t == Foreign(x)
           T == Range(t)
<1>18. T \subseteq Point
  <2>1. t \in Seq(Point)
    BY <1>11
  <2> HIDE DEF t
  <2>2. DOMAIN t = 1 .. Len(t) /\ \A a \in 1 .. Len(t) : t[a] \in Point
    BY <2>1
  <2>3. QED
    BY <2>2 DEF Range
<1>19. rag' \in [0 .. n_label -> Seq(Edge)] /\ IsGrown(rag, rag', x, T)
  <2>1. t \in Seq(Point) /\ rag' = AddEdges(rag, x, t)
    BY <1>11, <1>13
  <2> HIDE DEF t
  <2>2. QED
    BY <1>3, <1>7, <1>8, <2>1, EdgesAreAdded
<1>20. EdgeSet(rag)' = EdgeSet(rag') /\ Edge' = Edge
  BY <1>1 DEF EdgeSet, Edge
<1> HIDE DEF T, t
<1>21. FloodOK(f, output', n_label, Waits', EdgeSet(rag'))
  <2> DEFINE E == EdgeSet(rag)
             D == EdgeSet(rag')
             wt == Waits'
             o == output'
  <2>1. D \subseteq (0 .. n_label) \X (0 .. n_label) \X Level
    BY DEF EdgeSet
  <2>2. ASSUME NEW d \in E PROVE \E e \in D : e[1] = d[1] /\ e[2] = d[2] /\ e[3] <= d[3]
    <3>1. d[1] \in 0 .. n_label /\ d[2] \in 0 .. n_label /\ d[3] \in Level /\ HasEdge(rag, d[1], d[2], d[3])
      BY DEF EdgeSet
    <3>2. PICK z \in Level : HasEdge(rag', d[1], d[2], z) /\ z <= d[3]
      BY <1>19, <3>1 DEF IsGrown
    <3>3. <<d[1], d[2], z>> \in D
      BY <3>1, <3>2 DEF EdgeSet
    <3> HIDE DEF D
    <3>4. QED
      BY <3>2, <3>3
  <2>3. \A y : IsBorder(output, x, y) => HasPass(f, output, D, x, y)
    <3> SUFFICES ASSUME NEW y, IsBorder(output, x, y) PROVE HasPass(f, output, D, x, y)
      OBVIOUS
    <3>1. y \in Point /\ y \in T
      BY <1>11 DEF t, T, IsBorder
    <3>2. HasPassIn(rag', x, y)
      BY <1>19, <3>1 DEF IsGrown
    <3>3. QED
      BY <1>7, <1>8, <1>19, <3>1, <3>2, PassesOf
  <2>4. EdgesArePasses(f, output, D)
    <3> SUFFICES ASSUME NEW d \in D
                 PROVE  \E u, v : /\ IsBorder(output, u, v) /\ output[u] = d[1] /\ output[v] = d[2]
                                  /\ d[3] = Higher(f[u], f[v])
      BY DEF EdgesArePasses
    <3>1. d[1] \in 0 .. n_label /\ d[2] \in 0 .. n_label /\ d[3] \in Level /\ HasEdge(rag', d[1], d[2], d[3])
      BY DEF EdgeSet
    <3>2. HasEdge(rag, d[1], d[2], d[3]) \/ \E y \in T : IsPassOf(d[1], d[2], d[3], x, y)
      BY <1>19, <3>1 DEF IsGrown
    <3>3. CASE HasEdge(rag, d[1], d[2], d[3])
      <4>1. d \in E
        BY <3>3 DEF EdgeSet
      <4>2. EdgesArePasses(f, output, E)
        BY <1>3 DEF FloodOK
      <4> HIDE DEF D, E
      <4>3. QED
        BY <4>1, <4>2 DEF EdgesArePasses
    <3>4. ASSUME NEW y \in T, IsPassOf(d[1], d[2], d[3], x, y)
          PROVE  \E u, v : /\ IsBorder(output, u, v) /\ output[u] = d[1] /\ output[v] = d[2]
                           /\ d[3] = Higher(f[u], f[v])
      <4>1. IsBorder(output, x, y) /\ y \in Point
        BY <1>11, <1>18 DEF t, T
      <4>2. IsBorder(output, y, x)
        BY <1>7, <4>1, AdjacentIs DEF IsBorder
      <4>3. output[x] \in Int /\ output[y] \in Int /\ f[x] \in Int /\ f[y] \in Int
        BY <1>7, <1>8, <4>1 DEF Typed, Level
      <4>4. /\ d[1] = Lesser(output[x], output[y]) /\ d[2] = Higher(output[x], output[y])
            /\ d[3] = Higher(f[x], f[y])
        BY <3>4 DEF IsPassOf
      <4>5. CASE output[x] < output[y]
        <5>1. output[x] = d[1] /\ output[y] = d[2]
          BY <4>3, <4>4, <4>5 DEF Lesser, Higher
        <5>2. QED
          BY <4>1, <4>4, <5>1
      <4>6. CASE ~(output[x] < output[y])
        <5>1. output[y] = d[1] /\ output[x] = d[2]
          BY <4>1, <4>3, <4>4, <4>6 DEF Lesser, Higher, IsBorder
        <5>2. d[3] = Higher(f[y], f[x])
          BY <4>3, <4>4 DEF Higher
        <5>3. QED
          BY <4>2, <5>1, <5>2
      <4>7. QED
        BY <4>5, <4>6
    <3>5. QED
      BY <3>2, <3>3, <3>4
  <2>5. o = [y \in Point |-> IF y \in new THEN output[x] ELSE output[y]]
    BY <1>13
  <2>6. FloodOK(f, output, n_label, Waits, E)
    BY <1>3
  <2> HIDE DEF D, E, wt, o
  <2>7. /\ wt \subseteq Waits \cup new /\ new \subseteq wt
        /\ \A y \in Waits : y # x => y \in wt
    BY <1>17 DEF wt
  <2>8. FloodOK(f, o, n_label, wt, D)
    BY <1>9, <1>10, <2>1, <2>2, <2>3, <2>4, <2>5, <2>6, <2>7, FloodGoesOn
  <2>9. QED
    BY <2>8 DEF o, wt, D
<1>22. QED
  BY <1>1, <1>16, <1>19, <1>20, <1>21 DEF GrowInv

-----------------------------------------------------------------------------
(* The graph is flattened and sorted: the same edges are in it. *)

LEMMA SortedIs ==
    ASSUME NEW S, NEW edges \in Seq(S), \A e \in S : e.w \in Int, NEW tie
    PROVE  Sorted(edges, tie) \in Seq(S) /\ Range(Sorted(edges, tie)) = Range(edges)
<1> DEFINE s == IF tie = "backwards" THEN Reverse(edges) ELSE edges
           weights == {s[e].w : e \in DOMAIN s}
           n == Cardinality(weights)
           Less(e) == {w \in weights : w < e.w}
           T(r) == {e \in Range(s) : Cardinality(Less(e)) = r - 1}
           ss == [r \in 1 .. n |-> B!Selected(s, T(r))]
<1>1. Sorted(edges, tie) = FlattenSeq(ss)
  BY DEF Sorted
<1>2. s \in Seq(S) /\ Range(s) = Range(edges)
  <2>1. Len(edges) \in Nat /\ DOMAIN edges = 1 .. Len(edges) /\ edges \in [1 .. Len(edges) -> S]
    OBVIOUS
  <2>2. CASE tie = "backwards"
    <3>1. s = [a \in 1 .. Len(edges) |-> edges[(Len(edges) - a) + 1]]
      BY <2>2 DEF Reverse
    <3>2. \A a \in 1 .. Len(edges) : (Len(edges) - a) + 1 \in 1 .. Len(edges)
      BY <2>1
    <3> HIDE DEF s
    <3>3. s \in [1 .. Len(edges) -> S]
      BY <2>1, <3>1, <3>2
    <3>4. s \in Seq(S)
      BY <2>1, <3>3
    <3>5. DOMAIN s = 1 .. Len(edges)
      BY <3>3
    <3>6. ASSUME NEW x \in Range(s) PROVE x \in Range(edges)
      <4>1. PICK a \in 1 .. Len(edges) : s[a] = x
        BY <3>5 DEF Range
      <4>2. x = edges[(Len(edges) - a) + 1]
        BY <3>1, <4>1
      <4>3. QED
        BY <2>1, <3>2, <4>2 DEF Range
    <3>7. ASSUME NEW x \in Range(edges) PROVE x \in Range(s)
      <4>1. PICK a \in 1 .. Len(edges) : edges[a] = x
        BY <2>1 DEF Range
      <4> DEFINE b == (Len(edges) - a) + 1
      <4>2. b \in 1 .. Len(edges) /\ (Len(edges) - b) + 1 = a
        BY <2>1
      <4> HIDE DEF b
      <4>3. s[b] = x
        BY <3>1, <4>1, <4>2
      <4>4. QED
        BY <3>5, <4>2, <4>3 DEF Range
    <3>8. QED
      BY <3>4, <3>6, <3>7
  <2>3. CASE tie # "backwards"
    BY <2>3
  <2>4. QED
    BY <2>2, <2>3
<1> HIDE DEF s
<1>3. DOMAIN s = 1 .. Len(s) /\ Len(s) \in Nat /\ \A a \in DOMAIN s : s[a] \in S
  BY <1>2
<1>4. /\ Range(s) = {s[a] : a \in 1 .. Len(s)}
      /\ \A x : x \in Range(s) <=> \E a \in DOMAIN s : s[a] = x
  BY <1>3 DEF Range
<1>5. weights = {e.w : e \in Range(s)} /\ weights \subseteq Int
  BY <1>3, <1>4
<1>6. IsFiniteSet(weights) /\ n \in Nat
  <2>1. IsFiniteSet(1 .. Len(s))
    BY <1>3, FS_Interval
  <2> DEFINE D == 1 .. Len(s)
             g == [a \in D |-> s[a].w]
  <2>2. g \in [D -> weights] /\ \A w \in weights : \E a \in D : g[a] = w
    BY <1>3
  <2> HIDE DEF D, g, weights
  <2>3. g \in Surjection(D, weights)
    BY <2>2 DEF Surjection
  <2>4. QED
    BY <2>1, <2>3, FS_Surjection, FS_CardinalityType DEF D
<1>7. ASSUME NEW e \in Range(s)
      PROVE  Cardinality(Less(e)) + 1 \in 1 .. n
  <2>1. Less(e) \subseteq weights /\ e.w \in weights /\ e.w \notin Less(e)
    <3>1. e.w \in weights
      BY <1>5
    <3>2. e.w \in Int
      BY <1>2, <1>3, <1>4
    <3> HIDE DEF weights
    <3>3. QED
      BY <3>1, <3>2
  <2> HIDE DEF weights, Less
  <2>2. Cardinality(Less(e)) \in Nat /\ Cardinality(Less(e)) < n
    BY <1>6, <2>1, FS_Subset, FS_CardinalityType
  <2>3. QED
    BY <1>6, <2>2
<1>8. ASSUME NEW r \in 1 .. n
      PROVE  ss[r] \in Seq(Range(s)) /\ \A x : x \in Range(ss[r]) <=> x \in T(r)
  <2>1. ss[r] = B!Selected(s, T(r)) /\ T(r) \subseteq Range(s)
    OBVIOUS
  <2> HIDE DEF T, ss
  <2>2. B!Selected(s, T(r)) \in Seq(T(r)) /\ Range(B!Selected(s, T(r))) = Range(s) \cap T(r)
    BY <1>3, <1>4, SelectedIs
  <2>3. QED
    BY <2>1, <2>2
<1>9. CASE n = 0
  <2>1. weights = {}
    <3> HIDE DEF weights
    <3>1. QED
      BY <1>6, <1>9, FS_EmptySet
  <2>2. Range(s) = {}
    BY <1>5, <2>1
  <2>3. ss \in [1 .. 0 -> Seq(Range(s))]
    BY <1>8, <1>9
  <2> HIDE DEF ss
  <2>4. Len(ss) = 0 /\ DOMAIN ss = {} /\ ss \in Seq(S)
    BY <2>3
  <2>5. Range(ss) = {}
    BY <2>4 DEF Range
  <2>6. QED
    BY <1>1, <1>2, <2>2, <2>4, <2>5, FlattenNothing
<1>10. CASE n # 0
  <2>1. n \in Nat \ {0}
    BY <1>6, <1>10
  <2>2. ss \in Family(Range(s), n)
    BY <1>8 DEF Family
  <2> HIDE DEF ss, n, T
  <2>3. \A x : x \in Range(FlattenSeq(ss)) <=> \E m \in 1 .. n : x \in T(m)
    BY <1>8, <2>1, <2>2, FlattenRange
  <2>4. \A x : x \in Range(s) <=> \E m \in 1 .. n : x \in T(m)
    <3>1. ASSUME NEW e \in Range(s) PROVE \E m \in 1 .. n : e \in T(m)
      <4> DEFINE c == Cardinality(Less(e))
      <4>1. c + 1 \in 1 .. n
        BY <1>7
      <4>2. c \in Int
        <5>1. IsFiniteSet(Less(e))
          <6> HIDE DEF weights
          <6>1. QED
            BY <1>6, FS_Subset
        <5> HIDE DEF Less
        <5>2. QED
          BY <5>1, FS_CardinalityType
      <4> HIDE DEF Less
      <4>3. (c + 1) - 1 = c
        BY <4>2
      <4>4. e \in T(c + 1)
        BY <4>3 DEF T
      <4>5. QED
        BY <4>1, <4>4
    <3>2. \A m \in 1 .. n : T(m) \subseteq Range(s)
      BY DEF T
    <3>3. QED
      BY <3>1, <3>2
  <2> DEFINE t == FlattenSeq(ss)
  <2>5. \A x : x \in Range(t) <=> x \in Range(s)
    BY <2>3, <2>4
  <2> HIDE DEF t
  <2>6. Range(t) = Range(s)
    BY <2>5
  <2>7. t \in Seq(Range(s))
    BY <2>1, <2>2, FamilyIs DEF t
  <2>8. Range(s) \subseteq S
    BY <1>3, <1>4
  <2>9. t \in Seq(S)
    BY <2>7, <2>8
  <2>10. QED
    BY <1>1, <1>2, <2>6, <2>9 DEF t
<1>11. QED
  BY <1>9, <1>10

GraphEdge == [p : 0 .. n_label, q : 0 .. n_label, w : Level]

LEMMA FlattenedGraphIs ==
    ASSUME n_label \in Nat, rag \in [0 .. n_label -> Seq(Edge)]
    PROVE  /\ FlattenedGraph \in Seq(GraphEdge)
           /\ \A d : d \in Range(FlattenedGraph) <=> d \in GraphEdge /\ HasEdge(rag, d.p, d.q, d.w)
<1> DEFINE ends(a, e) == [p |-> a, q |-> e.out, w |-> e.w]
           Of(l) == [e \in DOMAIN rag[l - 1] |-> ends(l - 1, rag[l - 1][e])]
           ss == [l \in 1 .. nlbl |-> Of(l)]
<1>1. nlbl \in Nat \ {0} /\ FlattenedGraph = FlattenSeq(ss)
  BY DEF nlbl, FlattenedGraph
<1>2. ASSUME NEW l \in 1 .. nlbl
      PROVE  /\ Of(l) \in Seq(GraphEdge) /\ l - 1 \in 0 .. n_label
             /\ \A d : d \in Range(Of(l)) <=> \E e \in Range(rag[l - 1]) : d = ends(l - 1, e)
  <2>1. l - 1 \in 0 .. n_label
    BY DEF nlbl
  <2> DEFINE a == l - 1
             s == rag[a]
  <2>2. a \in 0 .. n_label /\ s \in Seq(Edge)
    BY <2>1
  <2>3. Of(l) = [e \in DOMAIN s |-> ends(a, s[e])]
    OBVIOUS
  <2> DEFINE t == Of(l)
  <2> HIDE DEF s, a, Of
  <2>4. Len(s) \in Nat /\ DOMAIN s = 1 .. Len(s) /\ \A e \in DOMAIN s : s[e] \in Edge
    BY <2>2
  <2>5. \A e \in Edge : ends(a, e) \in GraphEdge
    BY <2>2 DEF Edge, GraphEdge
  <2> HIDE DEF ends
  <2>6. t \in [1 .. Len(s) -> GraphEdge]
    BY <2>3, <2>4, <2>5
  <2>7. t \in Seq(GraphEdge) /\ DOMAIN t = DOMAIN s /\ \A e \in DOMAIN s : t[e] = ends(a, s[e])
    BY <2>3, <2>4, <2>6
  <2> HIDE DEF t
  <2>8. \A d : d \in Range(t) <=> \E e \in Range(s) : d = ends(a, e)
    BY <2>7 DEF Range
  <2>9. QED
    BY <2>1, <2>7, <2>8 DEF t, s, a
<1> HIDE DEF Of
<1>3. ss \in Family(GraphEdge, nlbl)
  BY <1>2 DEF Family
<1>4. \A l \in 1 .. nlbl : ss[l] = Of(l)
  OBVIOUS
<1> HIDE DEF ss
<1>5. /\ FlattenSeq(ss) \in Seq(GraphEdge)
      /\ \A d : d \in Range(FlattenSeq(ss)) <=> \E l \in 1 .. nlbl : d \in Range(ss[l])
  BY <1>1, <1>3, FlattenRange, FamilyIs
<1>6. ASSUME NEW d, d \in GraphEdge, HasEdge(rag, d.p, d.q, d.w)
      PROVE  \E l \in 1 .. nlbl : d \in Range(ss[l])
  <2> DEFINE l == d.p + 1
             e == [out |-> d.q, w |-> d.w]
  <2>1. l \in 1 .. nlbl /\ l - 1 = d.p /\ d = ends(l - 1, e)
    BY <1>6 DEF GraphEdge, nlbl
  <2>2. e \in Range(rag[l - 1])
    <3>1. PICK c \in DOMAIN rag[d.p] : rag[d.p][c] = e
      BY <1>6 DEF HasEdge
    <3>2. QED
      BY <2>1, <3>1 DEF Range
  <2> HIDE DEF l, e, ends
  <2>3. d \in Range(Of(l))
    BY <1>2, <2>1, <2>2
  <2>4. QED
    BY <1>4, <2>1, <2>3
<1>7. ASSUME NEW d, NEW l \in 1 .. nlbl, d \in Range(ss[l])
      PROVE  d \in GraphEdge /\ HasEdge(rag, d.p, d.q, d.w)
  <2>1. PICK e \in Range(rag[l - 1]) : d = ends(l - 1, e)
    BY <1>2, <1>4, <1>7
  <2>2. l - 1 \in 0 .. n_label /\ rag[l - 1] \in Seq(Edge)
    BY <1>2
  <2>3. PICK c \in DOMAIN rag[l - 1] : rag[l - 1][c] = e
    BY DEF Range
  <2>4. e \in Edge
    <3> DEFINE s == rag[l - 1]
    <3> HIDE DEF s
    <3>1. s \in Seq(Edge) => \A a \in DOMAIN s : s[a] \in Edge
      OBVIOUS
    <3>2. QED
      BY <2>2, <2>3, <3>1 DEF s
  <2>5. e = [out |-> e.out, w |-> e.w] /\ e.out \in 0 .. n_label /\ e.w \in Level
    BY <2>4 DEF Edge
  <2>6. d.p = l - 1 /\ d.q = e.out /\ d.w = e.w /\ d \in GraphEdge
    BY <2>1, <2>2, <2>5 DEF GraphEdge
  <2>7. QED
    BY <2>3, <2>5, <2>6 DEF HasEdge
<1>8. QED
  BY <1>1, <1>5, <1>6, <1>7

(* The links of the property are those of the graph. *)
LEMMA LinkedIs ==
    ASSUME n_label \in Nat, NEW G \in Seq(GraphEdge), NEW l,
           \A d : d \in Range(G) <=> d \in GraphEdge /\ HasEdge(rag, d.p, d.q, d.w)
    PROVE  UNION {{<<G[e].p, G[e].q>>, <<G[e].q, G[e].p>>} : e \in {d \in DOMAIN G : G[d].w <= l}}
           = Links(EdgeSet(rag), l)
<1> DEFINE Two(e) == {<<G[e].p, G[e].q>>, <<G[e].q, G[e].p>>}
           Low == {d \in DOMAIN G : G[d].w <= l}
           L == UNION {Two(e) : e \in Low}
           R == Links(EdgeSet(rag), l)
<1>1. \A c \in DOMAIN G : G[c] \in GraphEdge /\ HasEdge(rag, G[c].p, G[c].q, G[c].w)
  <2>1. \A c \in DOMAIN G : G[c] \in Range(G)
    BY DEF Range
  <2>2. QED
    BY <2>1
<1>2. ASSUME NEW c \in Low, NEW e \in Two(c) PROVE e \in R
  <2> DEFINE d == <<G[c].p, G[c].q, G[c].w>>
  <2>1. d \in EdgeSet(rag) /\ d[3] <= l /\ d[1] = G[c].p /\ d[2] = G[c].q
    BY <1>1 DEF EdgeSet, GraphEdge
  <2>2. d[1] \in Int /\ d[2] \in Int
    BY <1>1 DEF GraphEdge
  <2> HIDE DEF d
  <2>3. e \in Int \X Int /\ \/ e[1] = d[1] /\ e[2] = d[2]
                            \/ e[1] = d[2] /\ e[2] = d[1]
    BY <2>1, <2>2
  <2>4. QED
    BY <2>1, <2>3 DEF Links
<1>3. ASSUME NEW e \in R PROVE e \in L
  <2>1. PICK d \in EdgeSet(rag) : /\ d[3] <= l
                                  /\ \/ e[1] = d[1] /\ e[2] = d[2]
                                     \/ e[1] = d[2] /\ e[2] = d[1]
    BY DEF Links
  <2>2. e = <<e[1], e[2]>>
    BY DEF Links
  <2> DEFINE g == [p |-> d[1], q |-> d[2], w |-> d[3]]
  <2>3. g \in GraphEdge /\ HasEdge(rag, g.p, g.q, g.w)
    BY DEF EdgeSet, GraphEdge
  <2>4. g \in Range(G)
    BY <2>3
  <2>5. PICK c \in DOMAIN G : G[c] = g
    BY <2>4 DEF Range
  <2>6. G[c].p = d[1] /\ G[c].q = d[2] /\ G[c].w = d[3]
    BY <2>5
  <2>7. c \in Low /\ e \in Two(c)
    BY <2>1, <2>2, <2>6
  <2>8. QED
    BY <2>7
<1>4. L = R
  <2>1. L \subseteq R
    BY <1>2
  <2>2. R \subseteq L
    BY <1>3
  <2> HIDE DEF L, R
  <2>3. QED
    BY <2>1, <2>2
<1>5. QED
  BY <1>4

LEMMA SortGraphKeeps ==
    ASSUME GraphInv, SortGraph PROVE GraphInv'
<1>1. /\ pc = "flood" /\ pc' = "mst" /\ f' = f /\ output' = output /\ n_label' = n_label
      /\ seeds' = seeds /\ j' = 1 /\ Q!AllEmpty
      /\ \E tie \in Ties : graph' = Sorted(FlattenedGraph, tie)
  BY DEF SortGraph, StartKruskal, labelling
<1>2. SUFFICES ASSUME seeds = Unmarked, n_label # 0
      PROVE  \E adj \in {Adjacent} : \A l \in Q!Level :
                \E low \in {{x \in Point : f'[x] <= l}},
                   linked \in {UNION {{<<graph'[e].p, graph'[e].q>>, <<graph'[e].q, graph'[e].p>>} :
                                         e \in {d \in DOMAIN graph' : graph'[d].w <= l}}} :
                \A x \in low :
                  \E zone \in {Component(low, x, adj)},
                     regions \in {Component(1 .. n_label', output'[x], linked)} :
                    \A y \in low : y \in zone <=> output'[y] \in regions
  <2>1. (seeds = Unmarked /\ n_label # 0)' => seeds = Unmarked /\ n_label # 0
    BY <1>1 DEF Unmarked
  <2>2. GraphKeepsPasses'
    BY <1>2, <2>1 DEF GraphKeepsPasses
  <2>3. QED
    BY <1>1, <2>2 DEF GraphInv
<1>3. /\ rag \in [0 .. n_label -> Seq(Edge)] /\ queue \in [Level -> Seq(Point)]
      /\ FloodOK(f, output, n_label, Waits, EdgeSet(rag))
  BY <1>1, <1>2 DEF GraphInv, GrowInv, QueueOK
<1>4. n_label \in Nat
  BY <1>3 DEF FloodOK, FloodTyped
<1>5. Q!Level = Level
  BY DEF Q!Level, Level
<1>6. Waits = {}
  <2>1. \A l \in Level : queue[l] = <<>>
    BY <1>1, <1>5 DEF Q!AllEmpty
  <2>2. QED
    BY <2>1 DEF Waits, Range
<1>7. FloodOK(f, output, n_label, {}, EdgeSet(rag))
  BY <1>3, <1>6
<1> DEFINE G == graph'
<1>8. /\ G \in Seq(GraphEdge)
      /\ \A d : d \in Range(G) <=> d \in GraphEdge /\ HasEdge(rag, d.p, d.q, d.w)
  <2>1. PICK tie \in Ties : G = Sorted(FlattenedGraph, tie)
    BY <1>1
  <2> DEFINE s == FlattenedGraph
  <2>2. /\ s \in Seq(GraphEdge)
        /\ \A d : d \in Range(s) <=> d \in GraphEdge /\ HasEdge(rag, d.p, d.q, d.w)
    BY <1>3, <1>4, FlattenedGraphIs
  <2> HIDE DEF s
  <2>3. \A e \in GraphEdge : e.w \in Int
    BY DEF GraphEdge, Level
  <2>4. G \in Seq(GraphEdge) /\ Range(G) = Range(s)
    BY <2>1, <2>2, <2>3, SortedIs DEF s
  <2>5. QED
    BY <2>2, <2>4
<1> HIDE DEF G
<1>9. ASSUME NEW l \in Level
      PROVE  \E low \in {{x \in Point : f'[x] <= l}},
                linked \in {UNION {{<<G[e].p, G[e].q>>, <<G[e].q, G[e].p>>} :
                                      e \in {d \in DOMAIN G : G[d].w <= l}}} :
             \A x \in low :
               \E zone \in {Component(low, x, Adjacent)},
                  regions \in {Component(1 .. n_label', output'[x], linked)} :
                 \A y \in low : y \in zone <=> output'[y] \in regions
  <2> DEFINE low == {x \in Point : f'[x] <= l}
             linked == UNION {{<<G[e].p, G[e].q>>, <<G[e].q, G[e].p>>} :
                                 e \in {d \in DOMAIN G : G[d].w <= l}}
  <2>1. linked = Links(EdgeSet(rag), l)
    BY <1>4, <1>8, LinkedIs
  <2>2. low = LowPoints(f, l)
    BY <1>1 DEF LowPoints
  <2> HIDE DEF low, linked
  <2>3. \A x, y \in low : y \in Component(low, x, Adjacent)
                          <=> output[y] \in Component(1 .. n_label, output[x], linked)
    BY <1>7, <2>1, <2>2, PassesAreKept
  <2>4. \A x \in low :
           \E zone \in {Component(low, x, Adjacent)},
              regions \in {Component(1 .. n_label', output'[x], linked)} :
             \A y \in low : y \in zone <=> output'[y] \in regions
    BY <1>1, <2>3
  <2>5. QED
    BY <2>4 DEF low, linked
<1>10. QED
  BY <1>5, <1>9 DEF G

(* What the property says of the graph G, for an image and its labels. *)
KeepsPasses(im, out, n, G) ==
    \E adj \in {Adjacent} : \A l \in Q!Level :
      \E low \in {{x \in Point : im[x] <= l}},
         linked \in {UNION {{<<G[e].p, G[e].q>>, <<G[e].q, G[e].p>>} :
                               e \in {d \in DOMAIN G : G[d].w <= l}}} :
      \A x \in low :
        \E zone \in {Component(low, x, adj)}, regions \in {Component(1 .. n, out[x], linked)} :
          \A y \in low : y \in zone <=> out[y] \in regions

LEMMA GraphStutter == ASSUME GraphInv, UNCHANGED wvars PROVE GraphInv'
<1>1. /\ f' = f /\ output' = output /\ n_label' = n_label /\ pc' = pc /\ seeds' = seeds
      /\ queue' = queue /\ rag' = rag /\ graph' = graph /\ j' = j
  BY DEF wvars, vars, flooding, merging
<1>2. Waits' = Waits /\ QueueOK' = QueueOK
  BY <1>1 DEF Waits, QueueOK
<1>3. Edge' = Edge /\ EdgeSet(rag)' = EdgeSet(rag)
  BY <1>1 DEF Edge, EdgeSet
<1>4. GrowInv => GrowInv'
  BY <1>1, <1>2, <1>3 DEF GrowInv
<1>5. GraphKeepsPasses => GraphKeepsPasses'
  <2> DEFINE Done == pc = "mst" /\ j = 1 /\ seeds = Unmarked /\ n_label # 0
  <2>1. GraphKeepsPasses <=> (Done => KeepsPasses(f, output, n_label, graph))
    BY DEF GraphKeepsPasses, KeepsPasses
  <2>2. GraphKeepsPasses' <=> (Done' => KeepsPasses(f', output', n_label', graph'))
    BY DEF GraphKeepsPasses, KeepsPasses
  <2>3. Done <=> Done'
    BY <1>1 DEF Unmarked
  <2>4. QED
    BY <1>1, <2>1, <2>2, <2>3
<1>6. Unmarked' = Unmarked
  BY DEF Unmarked
<1>7. QED
  BY <1>1, <1>4, <1>5, <1>6 DEF GraphInv

LEMMA GraphKeeps ==
    ASSUME MinimaInv, BlobsInv, GraphInv, [WaterfallNext]_wvars PROVE GraphInv'
<1>1. CASE LocalMinimaStep
  <2>1. pc \in {"scan", "label", "end"} /\ pc' \in {"scan", "label", "end"} /\ f' = f
    BY <1>1 DEF LocalMinimaStep, Next, ScanExtension, ScanLower, ScanHigher, ScanFlat, NextNeighbour,
       EndPixel, LabelNone, LabelRoot, LabelOther, NextLabel
  <2>2. QED
    BY <2>1 DEF GraphInv, GraphKeepsPasses
<1>2. CASE BlobsStep
  <2>1. /\ pc = "blobs" /\ pc' \in {"blobs", "labelled", "overflow"}
        /\ pc' = "labelled" => n_label' = n_label
    BY <1>2 DEF BlobsStep, B!BlobsNext, B!Skip, B!NewComponent, B!Visit, B!Finish, B!Scanning
  <2>2. n_label \in Nat
    BY <2>1, BlobsSearchFacts
  <2>3. QED
    BY <2>1, <2>2 DEF GraphInv, GraphKeepsPasses
<1>3. CASE UnionOfMst \/ SkipOfMst
  <2>1. pc = "mst" /\ pc' = "mst" /\ j' = j + 1
    BY <1>3 DEF UnionOfMst, SkipOfMst, Kruskal
  <2>2. j \in Nat \ {0}
    BY <2>1 DEF GraphInv
  <2>3. j' \in Nat \ {0} /\ j' # 1
    BY <2>1, <2>2
  <2>4. QED
    BY <2>1, <2>3 DEF GraphInv, GraphKeepsPasses
<1>4. CASE SortMst \/ UnionOfTree \/ Return
  <2>1. pc' \in {"tree", "return"}
    BY <1>4 DEF SortMst, UnionOfTree, Return, Kruskal
  <2>2. QED
    BY <2>1 DEF GraphInv, GraphKeepsPasses
<1>5. QED
  BY <1>1, <1>2, <1>3, <1>4, StartFloodKeeps, FloodKeeps, SortGraphKeeps, GraphStutter
     DEF WaterfallNext

(* The graph of the regions that grow from the minima keeps the passes of  *)
(* the image, for every image, domain and neighbourhood, and however equal *)
(* edges are sorted: the flooding, which takes the points of the lowest    *)
(* level first, enters no region above its border.                         *)
THEOREM PassesKept == WaterfallSpec => []GraphKeepsPasses
<1> DEFINE Inv == MinimaInv /\ BlobsInv /\ GraphInv
<1>1. WaterfallInit => Inv
  <2>1. ASSUME WaterfallInit PROVE MinimaInv /\ GraphInv
    <3>1. CASE Init
      BY <3>1, MinimaInit DEF Init, GraphInv, GraphKeepsPasses
    <3>2. CASE B!BlobsInit
      BY <3>2 DEF B!BlobsInit, MinimaInv, ScanInv, LabelInv, GraphInv, GraphKeepsPasses
    <3>3. QED
      BY <2>1, <3>1, <3>2 DEF WaterfallInit
  <2>2. QED
    BY <2>1, BlobsInitially
<1>2. Inv /\ [WaterfallNext]_wvars => Inv'
  BY WaterfallKeeps, BlobsKeep, GraphKeeps
<1>3. Inv => GraphKeepsPasses
  BY DEF GraphInv
<1>4. QED
  BY <1>1, <1>2, <1>3, PTL DEF WaterfallSpec

=============================================================================
