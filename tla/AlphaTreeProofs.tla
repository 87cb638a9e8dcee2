--------------------------- MODULE AlphaTreeProofs ---------------------------
(***************************************************************************)
(* Proofs about the alpha-tree and the first stages of the watershed       *)
(* hierarchies, for any connected domain, neighbourhood and symmetric      *)
(* distance: what the containers of edges yield, what the forests of zones *)
(* and of sets are, that the nodes mirror the sets while they merge, and   *)
(* that the tree that is returned is that of the quasi-flat zones.         *)
(***************************************************************************)
EXTENDS AlphaTree, DataLemmas, SequenceTheorems

-----------------------------------------------------------------------------
(* The directional queue: its cells, the places of the points in them, and  *)
(* the cache, which is right as long as there is something to pop.          *)

Weight == 0 .. NLevels - 1
Direction == 1 .. NDir

Cells == [Direction -> [Weight -> Seq(Point)]]

Slots(cells) == {t \in Direction \X Weight \X Nat : t[3] \in 1 .. Len(cells[t[1]][t[2]])}

CacheIsRight(hq) ==
    hq.size # 0 =>
        /\ hq.dir \in Direction /\ hq.level \in Weight
        /\ hq.cells[hq.dir][hq.level] # <<>>
        /\ \A d \in Direction, l \in Weight : l < hq.level => hq.cells[d][l] = <<>>

QueueOK(hq) ==
    /\ hq.cells \in Cells
    /\ IsFiniteSet(Slots(hq.cells)) /\ hq.size = Cardinality(Slots(hq.cells))
    /\ CacheIsRight(hq)

LEMMA EmptyQueueIsOK == QueueOK(EmptyHQueue)
<1> DEFINE cells == [d \in 1 .. NDir |-> [l \in 0 .. NLevels - 1 |-> <<>>]]
<1>1. EmptyHQueue.cells = cells /\ EmptyHQueue.size = 0
  BY DEF EmptyHQueue
<1>2. cells \in Cells /\ \A d \in Direction, l \in Weight : cells[d][l] = <<>>
  BY DEF Cells, Direction, Weight
<1> HIDE DEF cells
<1>3. Slots(cells) = {}
  BY <1>2 DEF Slots
<1>4. QED
  BY <1>1, <1>2, <1>3, FS_EmptySet DEF QueueOK, CacheIsRight

(* All the queue is empty when its size is zero, and only then. *)
LEMMA SizeIsRight ==
    ASSUME NEW hq, QueueOK(hq)
    PROVE  /\ hq.size \in Nat
           /\ hq.size = 0 <=> \A d \in Direction, l \in Weight : hq.cells[d][l] = <<>>
<1>1. hq.size \in Nat /\ (hq.size = 0 <=> Slots(hq.cells) = {})
  BY FS_CardinalityType, FS_EmptySet DEF QueueOK
<1>2. ASSUME NEW d \in Direction, NEW l \in Weight, hq.cells[d][l] # <<>> PROVE Slots(hq.cells) # {}
  <2>1. hq.cells[d][l] \in Seq(Point)
    BY DEF QueueOK, Cells
  <2>2. Len(hq.cells[d][l]) \in Nat \ {0}
    BY <1>2, <2>1, EmptySeq
  <2>3. <<d, l, 1>> \in Slots(hq.cells)
    BY <2>2 DEF Slots
  <2>4. QED
    BY <2>3
<1>3. ASSUME \A d \in Direction, l \in Weight : hq.cells[d][l] = <<>> PROVE Slots(hq.cells) = {}
  BY <1>3 DEF Slots
<1>4. QED
  BY <1>1, <1>2, <1>3

(* A point is added to one of the stacks, or removed from it. *)
LEMMA SlotIsAdded ==
    ASSUME NEW cells \in Cells, NEW d \in Direction, NEW l \in Weight, NEW x \in Point,
           IsFiniteSet(Slots(cells)),
           NEW c2, c2 = [cells EXCEPT ![d][l] = Append(@, x)]
    PROVE  /\ c2 \in Cells /\ IsFiniteSet(Slots(c2))
           /\ Cardinality(Slots(c2)) = Cardinality(Slots(cells)) + 1
           /\ c2[d][l] = Append(cells[d][l], x)
           /\ \A e \in Direction, m \in Weight : e # d \/ m # l => c2[e][m] = cells[e][m]
<1>1. \A e \in Direction, m \in Weight : cells[e][m] \in Seq(Point)
  BY DEF Cells
<1>2. /\ c2[d][l] = Append(cells[d][l], x)
      /\ \A e \in Direction, m \in Weight : e # d \/ m # l => c2[e][m] = cells[e][m]
      /\ c2 \in Cells
  <2>1. Append(cells[d][l], x) \in Seq(Point)
    BY <1>1
  <2>2. QED
    BY <2>1 DEF Cells
<1> DEFINE n == Len(cells[d][l])
           t == <<d, l, n + 1>>
<1>3. n \in Nat /\ Len(c2[d][l]) = n + 1
  BY <1>1, <1>2
<1> HIDE DEF n
<1>4. t \notin Slots(cells)
  BY <1>3 DEF Slots, n
<1>5. Slots(c2) = Slots(cells) \cup {t}
  <2>1. \A s \in Direction \X Weight \X Nat :
            s[3] \in 1 .. Len(c2[s[1]][s[2]]) <=> s[3] \in 1 .. Len(cells[s[1]][s[2]]) \/ s = t
    <3> SUFFICES ASSUME NEW e \in Direction, NEW m \in Weight, NEW k \in Nat
                 PROVE  k \in 1 .. Len(c2[e][m]) <=> k \in 1 .. Len(cells[e][m]) \/ <<e, m, k>> = t
      OBVIOUS
    <3>1. CASE e = d /\ m = l
      BY <1>2, <1>3, <3>1 DEF n
    <3>2. CASE e # d \/ m # l
      BY <1>2, <3>2
    <3>3. QED
      BY <3>1, <3>2
  <2>2. t \in Direction \X Weight \X Nat
    BY <1>3
  <2> HIDE DEF t
  <2>3. QED
    BY <2>1, <2>2 DEF Slots
<1>6. QED
  BY <1>2, <1>4, <1>5, FS_AddElement

LEMMA SlotIsRemoved ==
    ASSUME NEW cells \in Cells, NEW d \in Direction, NEW l \in Weight, cells[d][l] # <<>>,
           IsFiniteSet(Slots(cells)),
           NEW c2, c2[d][l] = Front(cells[d][l]),
           \A e \in Direction, m \in Weight : e # d \/ m # l => c2[e][m] = cells[e][m]
    PROVE  /\ IsFiniteSet(Slots(c2))
           /\ Cardinality(Slots(c2)) = Cardinality(Slots(cells)) - 1
<1> DEFINE s == cells[d][l]
           n == Len(s)
           t == <<d, l, n>>
<1>1. \A e \in Direction, m \in Weight : cells[e][m] \in Seq(Point)
  BY DEF Cells
<1>2. n \in Nat \ {0} /\ Front(s) \in Seq(Point) /\ Len(Front(s)) = n - 1
  BY <1>1, FrontAndLast
<1>3. /\ c2[d][l] = Front(cells[d][l])
      /\ \A e \in Direction, m \in Weight : e # d \/ m # l => c2[e][m] = cells[e][m]
  OBVIOUS
<1>4. n = Len(cells[d][l]) /\ Len(c2[d][l]) = n - 1
  BY <1>2, <1>3
<1> HIDE DEF n, s
<1>5. t \in Slots(cells)
  BY <1>2, <1>4 DEF Slots
<1>6. Slots(c2) = Slots(cells) \ {t}
  <2>1. \A r \in Direction \X Weight \X Nat :
            r[3] \in 1 .. Len(c2[r[1]][r[2]]) <=> r[3] \in 1 .. Len(cells[r[1]][r[2]]) /\ r # t
    <3> SUFFICES ASSUME NEW e \in Direction, NEW m \in Weight, NEW k \in Nat
                 PROVE  k \in 1 .. Len(c2[e][m]) <=> k \in 1 .. Len(cells[e][m]) /\ <<e, m, k>> # t
      OBVIOUS
    <3>1. CASE e = d /\ m = l
      BY <1>2, <1>3, <1>4, <3>1
    <3>2. CASE e # d \/ m # l
      BY <1>3, <3>2
    <3>3. QED
      BY <3>1, <3>2
  <2> HIDE DEF t
  <2>2. QED
    BY <2>1 DEF Slots
<1>7. QED
  BY <1>3, <1>5, <1>6, FS_RemoveElement

-----------------------------------------------------------------------------
(* The edges a queue holds. *)
EdgesIn(cells) ==
    UNION {UNION {{Edge(x, After[x][d], l) : x \in Range(cells[d][l])} : l \in Weight} : d \in Direction}

LEMMA EdgesInAre ==
    \A cells, e : e \in EdgesIn(cells) <=>
        \E d \in Direction, l \in Weight : \E x \in Range(cells[d][l]) : e = Edge(x, After[x][d], l)
BY DEF EdgesIn

LEMMA RangeOfAppend ==
    ASSUME NEW S, NEW s \in Seq(S), NEW x \in S
    PROVE  Range(Append(s, x)) = Range(s) \cup {x}
<1>1. /\ Len(s) \in Nat /\ DOMAIN s = 1 .. Len(s)
      /\ DOMAIN Append(s, x) = 1 .. Len(s) + 1
      /\ \A a \in 1 .. Len(s) : Append(s, x)[a] = s[a]
      /\ Append(s, x)[Len(s) + 1] = x
  OBVIOUS
<1>2. ASSUME NEW y PROVE y \in Range(Append(s, x)) <=> y \in Range(s) \cup {x}
  <2>1. y \in Range(Append(s, x)) <=> \E a \in 1 .. Len(s) + 1 : Append(s, x)[a] = y
    BY <1>1 DEF Range
  <2>2. y \in Range(s) <=> \E a \in 1 .. Len(s) : s[a] = y
    BY <1>1 DEF Range
  <2>3. \A a : a \in 1 .. Len(s) + 1 <=> a \in 1 .. Len(s) \/ a = Len(s) + 1
    BY <1>1
  <2>4. QED
    BY <1>1, <2>1, <2>2, <2>3
<1>3. QED
  BY <1>2

LEMMA RangeOfFront ==
    ASSUME NEW S, NEW s \in Seq(S), s # <<>>
    PROVE  /\ Last(s) \in Range(s)
           /\ Range(Front(s)) \subseteq Range(s)
           /\ Range(s) \subseteq Range(Front(s)) \cup {Last(s)}
<1>1. /\ Len(s) \in Nat \ {0} /\ DOMAIN s = 1 .. Len(s)
      /\ DOMAIN Front(s) = 1 .. Len(s) - 1
      /\ \A a \in 1 .. Len(s) - 1 : Front(s)[a] = s[a]
      /\ s[Len(s)] = Last(s)
  <2>1. /\ Len(s) \in Nat \ {0}
        /\ Front(s) \in Seq(S) /\ Len(Front(s)) = Len(s) - 1
        /\ \A a \in 1 .. Len(s) - 1 : Front(s)[a] = s[a]
        /\ Last(s) = s[Len(s)]
    BY FrontAndLast
  <2>2. QED
    BY <2>1
<1>2. \A a : a \in 1 .. Len(s) <=> a \in 1 .. Len(s) - 1 \/ a = Len(s)
  BY <1>1
<1>3. \A y : y \in Range(s) <=> \E a \in 1 .. Len(s) : s[a] = y
  BY <1>1 DEF Range
<1>4. \A y : y \in Range(Front(s)) <=> \E a \in 1 .. Len(s) - 1 : s[a] = y
  BY <1>1 DEF Range
<1>5. QED
  BY <1>1, <1>2, <1>3, <1>4

(* insert: the cache follows a lower level. *)
LEMMA InsertIs ==
    ASSUME NEW hq, QueueOK(hq), NEW d \in Direction, NEW w \in Weight, NEW x \in Point
    PROVE  /\ QueueOK(Insert(hq, d, w, x)) /\ Insert(hq, d, w, x).size # 0
           /\ EdgesIn(Insert(hq, d, w, x).cells) = EdgesIn(hq.cells) \cup {Edge(x, After[x][d], w)}
<1> DEFINE h2 == Insert(hq, d, w, x)
           lower == hq.size = 0 \/ w < hq.level
<1>1. /\ h2.cells = [hq.cells EXCEPT ![d][w] = Append(@, x)]
      /\ h2.dir = (IF lower THEN d ELSE hq.dir)
      /\ h2.level = (IF lower THEN w ELSE hq.level)
      /\ h2.size = hq.size + 1
  BY DEF Insert
<1> HIDE DEF h2
<1>2. hq.cells \in Cells /\ IsFiniteSet(Slots(hq.cells)) /\ hq.size = Cardinality(Slots(hq.cells))
  BY DEF QueueOK
<1>3. /\ h2.cells \in Cells /\ IsFiniteSet(Slots(h2.cells))
      /\ Cardinality(Slots(h2.cells)) = Cardinality(Slots(hq.cells)) + 1
      /\ h2.cells[d][w] = Append(hq.cells[d][w], x)
      /\ \A e \in Direction, m \in Weight : e # d \/ m # w => h2.cells[e][m] = hq.cells[e][m]
  BY <1>1, <1>2, SlotIsAdded
<1>4. hq.size \in Nat /\ h2.size # 0 /\ h2.size = Cardinality(Slots(h2.cells))
  BY <1>1, <1>2, <1>3, FS_CardinalityType
<1>5. \A e \in Direction, m \in Weight : hq.cells[e][m] \in Seq(Point)
  BY <1>2 DEF Cells
<1>6. h2.cells[d][w] # <<>>
  BY <1>3, <1>5
<1>7. CacheIsRight(h2)
  <2>1. CASE hq.size = 0
    <3>1. \A e \in Direction, m \in Weight : hq.cells[e][m] = <<>>
      BY <2>1, SizeIsRight
    <3>2. h2.dir = d /\ h2.level = w
      BY <1>1, <2>1
    <3>3. \A e \in Direction, m \in Weight : m < w => h2.cells[e][m] = <<>>
      BY <1>3, <3>1 DEF Weight
    <3>4. QED
      BY <1>6, <3>2, <3>3 DEF CacheIsRight
  <2>2. CASE hq.size # 0
    <3>1. /\ hq.dir \in Direction /\ hq.level \in Weight
          /\ hq.cells[hq.dir][hq.level] # <<>>
          /\ \A e \in Direction, m \in Weight : m < hq.level => hq.cells[e][m] = <<>>
      BY <2>2 DEF QueueOK, CacheIsRight
    <3>2. CASE w < hq.level
      <4>1. h2.dir = d /\ h2.level = w
        BY <1>1, <3>2
      <4>2. \A e \in Direction, m \in Weight : m < w => h2.cells[e][m] = <<>>
        BY <1>3, <3>1, <3>2 DEF Weight
      <4>3. QED
        BY <1>6, <4>1, <4>2 DEF CacheIsRight
    <3>3. CASE ~(w < hq.level)
      <4>1. h2.dir = hq.dir /\ h2.level = hq.level
        BY <1>1, <2>2, <3>3
      <4>2. \A e \in Direction, m \in Weight : m < hq.level => h2.cells[e][m] = <<>>
        BY <1>3, <3>1, <3>3 DEF Weight
      <4>3. h2.cells[hq.dir][hq.level] # <<>>
        BY <1>3, <1>6, <3>1
      <4>4. QED
        BY <3>1, <4>1, <4>2, <4>3 DEF CacheIsRight
    <3>4. QED
      BY <3>2, <3>3
  <2>3. QED
    BY <2>1, <2>2
<1>8. \A e \in Direction, m \in Weight :
          Range(h2.cells[e][m]) = IF e = d /\ m = w THEN Range(hq.cells[e][m]) \cup {x}
                                  ELSE Range(hq.cells[e][m])
  <2>1. Range(h2.cells[d][w]) = Range(hq.cells[d][w]) \cup {x}
    BY <1>3, <1>5, RangeOfAppend
  <2>2. QED
    BY <1>3, <2>1
<1>9. EdgesIn(h2.cells) = EdgesIn(hq.cells) \cup {Edge(x, After[x][d], w)}
  <2>1. ASSUME NEW e \in EdgesIn(h2.cells), e \notin EdgesIn(hq.cells) PROVE e = Edge(x, After[x][d], w)
    <3>1. PICK b \in Direction, m \in Weight : \E y \in Range(h2.cells[b][m]) : e = Edge(y, After[y][b], m)
      BY <2>1, EdgesInAre
    <3>2. PICK y \in Range(h2.cells[b][m]) : e = Edge(y, After[y][b], m)
      BY <3>1
    <3>3. y \notin Range(hq.cells[b][m])
      BY <2>1, <3>2, EdgesInAre
    <3>4. QED
      BY <1>8, <3>2, <3>3
  <2>2. ASSUME NEW e \in EdgesIn(hq.cells) PROVE e \in EdgesIn(h2.cells)
    <3>1. PICK b \in Direction, m \in Weight : \E y \in Range(hq.cells[b][m]) : e = Edge(y, After[y][b], m)
      BY <2>2, EdgesInAre
    <3>2. Range(hq.cells[b][m]) \subseteq Range(h2.cells[b][m])
      BY <1>8
    <3>3. QED
      BY <3>1, <3>2, EdgesInAre
  <2>3. Edge(x, After[x][d], w) \in EdgesIn(h2.cells)
    <3>1. x \in Range(h2.cells[d][w])
      BY <1>8
    <3>2. QED
      BY <3>1, EdgesInAre
  <2>4. QED
    BY <2>1, <2>2, <2>3
<1>10. QED
  BY <1>3, <1>4, <1>7, <1>9 DEF QueueOK, h2

LEMMA LowerBoundIs ==
    ASSUME NEW lists, NEW l \in 0 .. NLevels, NEW m, m = LowerBound(lists, l)
    PROVE  /\ m \in l .. NLevels
           /\ m = NLevels \/ lists[m] # <<>>
           /\ \A n \in l .. m - 1 : lists[n] = <<>>
<1> DEFINE T == {n \in l .. NLevels : n = NLevels \/ lists[n] # <<>>}
<1>1. NLevels \in Nat /\ T \in SUBSET Nat /\ NLevels \in T
  BY AlphaTreeAssumption
<1>2. PICK b \in T : \A n \in T : b <= n
  BY <1>1, LeastElement
<1>3. \A n \in l .. b - 1 : lists[n] = <<>>
  <2> SUFFICES ASSUME NEW n \in l .. b - 1 PROVE lists[n] = <<>>
    OBVIOUS
  <2>1. n \in l .. NLevels /\ ~(b <= n)
    BY <1>1
  <2>2. QED
    BY <1>2, <2>1
<1>4. \E n \in l .. NLevels : /\ n = NLevels \/ lists[n] # <<>>
                              /\ \A k \in l .. n - 1 : lists[k] = <<>>
  BY <1>2, <1>3
<1>5. QED
  BY <1>4 DEF LowerBound

(* pop: when the stack is exhausted the cache moves to the lowest level. *)
LEMMA PopFrontIs ==
    ASSUME NEW hq, QueueOK(hq), hq.size # 0,
           NEW top, top = Edge(FrontPoint(hq), After[FrontPoint(hq)][hq.dir], hq.level)
    PROVE  /\ QueueOK(PopFront(hq))
           /\ top \in EdgesIn(hq.cells) /\ \A e \in EdgesIn(hq.cells) : top.w <= e.w
           /\ EdgesIn(PopFront(hq).cells) \subseteq EdgesIn(hq.cells)
           /\ EdgesIn(hq.cells) \subseteq EdgesIn(PopFront(hq).cells) \cup {top}
<1> DEFINE d == hq.dir
           l == hq.level
           cells == [hq.cells EXCEPT ![hq.dir][hq.level] = Front(@)]
           low(e) == LowerBound(cells[e], hq.level)
           IsBest(b) == /\ \A e \in 1 .. NDir : low(b) <= low(e)
                        /\ \A e \in 1 .. b - 1 : low(b) < low(e)
           best == CHOOSE b \in 1 .. NDir : IsBest(b)
           moves == hq.size > 1 /\ cells[hq.dir][hq.level] = <<>>
           h2 == PopFront(hq)
<1>1. /\ h2.cells = cells
      /\ h2.dir = (IF moves THEN best ELSE hq.dir)
      /\ h2.level = (IF moves THEN low(best) ELSE hq.level)
      /\ h2.size = hq.size - 1
  BY DEF PopFront
<1> HIDE DEF h2
<1>2. hq.cells \in Cells /\ IsFiniteSet(Slots(hq.cells)) /\ hq.size = Cardinality(Slots(hq.cells))
  BY DEF QueueOK
<1>3. /\ d \in Direction /\ l \in Weight /\ hq.cells[d][l] # <<>>
      /\ \A e \in Direction, m \in Weight : m < l => hq.cells[e][m] = <<>>
  BY DEF QueueOK, CacheIsRight
<1>4. /\ cells \in Cells /\ IsFiniteSet(Slots(cells))
      /\ Cardinality(Slots(cells)) = Cardinality(Slots(hq.cells)) - 1
      /\ cells[d][l] = Front(hq.cells[d][l])
      /\ \A e \in Direction, m \in Weight : e # d \/ m # l => cells[e][m] = hq.cells[e][m]
  <2> DEFINE old == hq.cells
  <2>1. old \in Cells /\ d \in Direction /\ l \in Weight /\ old[d][l] # <<>> /\ IsFiniteSet(Slots(old))
    BY <1>2, <1>3
  <2>2. cells = [old EXCEPT ![d][l] = Front(old[d][l])]
    OBVIOUS
  <2> HIDE DEF cells, d, l, old
  <2>3. Front(old[d][l]) \in Seq(Point)
    BY <2>1, FrontAndLast DEF Cells
  <2>4. /\ cells \in Cells /\ cells[d][l] = Front(old[d][l])
        /\ \A e \in Direction, m \in Weight : e # d \/ m # l => cells[e][m] = old[e][m]
    BY <2>1, <2>2, <2>3 DEF Cells
  <2>5. /\ IsFiniteSet(Slots(cells))
        /\ Cardinality(Slots(cells)) = Cardinality(Slots(old)) - 1
    BY <2>1, <2>4, SlotIsRemoved
  <2>6. QED
    BY <2>4, <2>5 DEF old
<1>5. h2.size = Cardinality(Slots(cells)) /\ h2.size \in Nat /\ hq.size \in Nat
  <2>1. Cardinality(Slots(cells)) \in Nat /\ Cardinality(Slots(hq.cells)) \in Nat
    BY <1>2, <1>4, FS_CardinalityType
  <2> HIDE DEF cells
  <2>2. QED
    BY <1>1, <1>2, <1>4, <2>1
<1>6. \A e \in Direction, m \in Weight : hq.cells[e][m] \in Seq(Point) /\ cells[e][m] \in Seq(Point)
  BY <1>2, <1>4 DEF Cells
<1>7. NLevels \in Nat \ {0} /\ NDir \in Nat /\ l \in 0 .. NLevels
  BY <1>3, AlphaTreeAssumption DEF Weight
<1> HIDE DEF cells
<1>8. \A e \in Direction, m \in Weight : m < l => cells[e][m] = <<>>
  BY <1>3, <1>4 DEF Weight
<1>9. \A e \in Direction : /\ low(e) \in l .. NLevels
                           /\ low(e) = NLevels \/ cells[e][low(e)] # <<>>
                           /\ \A n \in l .. low(e) - 1 : cells[e][n] = <<>>
  BY <1>7, LowerBoundIs
<1>10. best \in Direction /\ \A e \in Direction : low(best) <= low(e)
  <2> DEFINE A == {low(e) : e \in Direction}
  <2>1. A \in SUBSET Nat /\ A # {}
    BY <1>3, <1>7, <1>9
  <2>2. PICK a \in A : \A b \in A : a <= b
    BY <2>1, LeastElement
  <2> DEFINE B == {e \in Direction : low(e) = a}
  <2>3. B \in SUBSET Nat /\ B # {}
    BY DEF Direction
  <2>4. PICK b \in B : \A e \in B : b <= e
    BY <2>3, LeastElement
  <2> HIDE DEF low
  <2>5. \A e \in Direction : low(e) \in Nat /\ low(b) <= low(e)
    BY <1>7, <1>9, <2>2, <2>4
  <2>6. \A e \in 1 .. b - 1 : low(b) < low(e)
    <3> SUFFICES ASSUME NEW e \in 1 .. b - 1 PROVE low(b) < low(e)
      OBVIOUS
    <3>1. e \in Direction /\ ~(b <= e)
      BY <1>7, <2>4 DEF Direction
    <3>2. e \notin B
      BY <2>4, <3>1
    <3>3. low(e) # low(b)
      BY <2>4, <3>1, <3>2
    <3>4. b \in Direction
      BY <2>4
    <3> HIDE DEF B
    <3>5. QED
      BY <2>5, <3>1, <3>3, <3>4
  <2>7. b \in 1 .. NDir /\ IsBest(b)
    BY <2>4, <2>5, <2>6 DEF Direction
  <2> HIDE DEF IsBest
  <2>8. best \in 1 .. NDir /\ IsBest(best)
    BY <2>7
  <2>9. QED
    BY <2>8 DEF IsBest, Direction
<1>11. CacheIsRight(h2)
  <2> HIDE DEF best
  <2> SUFFICES ASSUME h2.size # 0
               PROVE  /\ h2.dir \in Direction /\ h2.level \in Weight
                      /\ cells[h2.dir][h2.level] # <<>>
                      /\ \A e \in Direction, m \in Weight : m < h2.level => cells[e][m] = <<>>
    BY <1>1 DEF CacheIsRight
  <2>1. hq.size > 1
    BY <1>1, <1>5
  <2>2. CASE cells[d][l] # <<>>
    <3>1. h2.dir = d /\ h2.level = l
      BY <1>1, <2>2
    <3>2. QED
      BY <1>3, <1>8, <2>2, <3>1
  <2>3. CASE cells[d][l] = <<>>
    <3>1. h2.dir = best /\ h2.level = low(best)
      BY <1>1, <2>1, <2>3
    <3>2. Slots(cells) # {}
      BY <1>5, FS_EmptySet
    <3>3. PICK e \in Direction, m \in Weight : cells[e][m] # <<>>
      BY <3>2 DEF Slots
    <3>4. l <= m
      BY <1>3, <1>8, <3>3 DEF Weight
    <3>5. low(e) <= m
      <4>1. low(e) \in l .. NLevels /\ \A n \in l .. low(e) - 1 : cells[e][n] = <<>>
        BY <1>9
      <4> HIDE DEF low
      <4>2. QED
        BY <1>3, <1>7, <3>3, <3>4, <4>1 DEF Weight
    <3>6. /\ low(best) \in l .. NLevels /\ low(best) <= low(e)
          /\ low(best) = NLevels \/ cells[best][low(best)] # <<>>
      BY <1>9, <1>10
    <3>7. low(e) \in l .. NLevels
      BY <1>9
    <3>8. \A b \in Direction, n \in Weight : n < low(best) => cells[b][n] = <<>>
      <4> SUFFICES ASSUME NEW b \in Direction, NEW n \in Weight, n < low(best) PROVE cells[b][n] = <<>>
        OBVIOUS
      <4>1. low(best) <= low(b) /\ low(b) \in l .. NLevels
        BY <1>9, <1>10
      <4>2. \A k \in l .. low(b) - 1 : cells[b][k] = <<>>
        BY <1>9
      <4> HIDE DEF low
      <4>3. n < l \/ n \in l .. low(b) - 1
        BY <1>3, <1>7, <3>6, <4>1 DEF Weight
      <4>4. QED
        BY <1>8, <4>2, <4>3
    <3> HIDE DEF low
    <3>9. low(best) \in Weight
      BY <1>3, <1>7, <3>3, <3>5, <3>6, <3>7 DEF Weight
    <3>10. low(best) # NLevels
      BY <1>7, <3>9 DEF Weight
    <3>11. QED
      BY <1>10, <3>1, <3>6, <3>8, <3>9, <3>10
  <2>4. QED
    BY <2>2, <2>3
<1>12. QueueOK(h2)
  BY <1>1, <1>4, <1>5, <1>11 DEF QueueOK
<1> DEFINE x == FrontPoint(hq)
<1>13. x = Last(hq.cells[d][l])
  BY DEF FrontPoint
<1>14. /\ x \in Range(hq.cells[d][l])
       /\ Range(cells[d][l]) \subseteq Range(hq.cells[d][l])
       /\ Range(hq.cells[d][l]) \subseteq Range(cells[d][l]) \cup {x}
  BY <1>3, <1>4, <1>6, <1>13, RangeOfFront
<1> HIDE DEF x
<1>15. top = Edge(x, After[x][d], l)
  BY DEF x
<1>16. top \in EdgesIn(hq.cells)
  BY <1>3, <1>14, <1>15, EdgesInAre
<1>17. ASSUME NEW e \in EdgesIn(hq.cells) PROVE top.w <= e.w
  <2>1. PICK b \in Direction, m \in Weight : \E y \in Range(hq.cells[b][m]) : e = Edge(y, After[y][b], m)
    BY EdgesInAre
  <2>2. e.w = m /\ top.w = l
    BY <1>15, <2>1 DEF Edge
  <2>3. hq.cells[b][m] # <<>>
    BY <2>1 DEF Range
  <2>4. ~(m < l)
    BY <1>3, <2>3
  <2>5. QED
    BY <1>3, <2>2, <2>4 DEF Weight
<1>18. EdgesIn(cells) \subseteq EdgesIn(hq.cells)
  <2> SUFFICES ASSUME NEW e \in EdgesIn(cells) PROVE e \in EdgesIn(hq.cells)
    OBVIOUS
  <2>1. PICK b \in Direction, m \in Weight : \E y \in Range(cells[b][m]) : e = Edge(y, After[y][b], m)
    BY EdgesInAre
  <2>2. Range(cells[b][m]) \subseteq Range(hq.cells[b][m])
    BY <1>4, <1>14
  <2>3. QED
    BY <2>1, <2>2, EdgesInAre
<1>19. EdgesIn(hq.cells) \subseteq EdgesIn(cells) \cup {top}
  <2> SUFFICES ASSUME NEW e \in EdgesIn(hq.cells), e # top PROVE e \in EdgesIn(cells)
    OBVIOUS
  <2>1. PICK b \in Direction, m \in Weight : \E y \in Range(hq.cells[b][m]) : e = Edge(y, After[y][b], m)
    BY EdgesInAre
  <2>2. PICK y \in Range(hq.cells[b][m]) : e = Edge(y, After[y][b], m)
    BY <2>1
  <2>3. y \in Range(cells[b][m])
    BY <1>4, <1>14, <1>15, <2>2
  <2>4. QED
    BY <2>2, <2>3, EdgesInAre
<1>20. QED
  BY <1>1, <1>12, <1>16, <1>17, <1>18, <1>19 DEF h2

-----------------------------------------------------------------------------
(* What the two containers hold: the edges of the image. *)

GraphEdges == [p : Point, q : Point, w : Weight]

HQueues == {hq \in [cells : Cells, dir : 0 .. NDir, level : Weight, size : Nat] : QueueOK(hq)}

(* The edges of x in the first n directions, for the image im. *)
EdgesOf(im, x, n) ==
    {Edge(x, After[x][d], distance(im[x], im[After[x][d]])) : d \in {e \in 1 .. n : After[x][e] \in Point}}

LEMMA EdgeIs ==
    /\ \A x, y, w : Edge(x, y, w).p = x /\ Edge(x, y, w).q = y /\ Edge(x, y, w).w = w
    /\ \A x, y \in Point, w \in Weight : Edge(x, y, w) \in GraphEdges
BY DEF Edge, GraphEdges

LEMMA EdgesOfGrow ==
    ASSUME NEW im, NEW x, NEW n \in Nat \ {0}
    PROVE  EdgesOf(im, x, n) = IF After[x][n] \in Point
                               THEN EdgesOf(im, x, n - 1) \cup {Edge(x, After[x][n], distance(im[x], im[After[x][n]]))}
                               ELSE EdgesOf(im, x, n - 1)
<1>1. 1 .. n = (1 .. n - 1) \cup {n}
  OBVIOUS
<1> DEFINE e(d) == Edge(x, After[x][d], distance(im[x], im[After[x][d]]))
           D(m) == {d \in 1 .. m : After[x][d] \in Point}
<1>2. D(n) = IF After[x][n] \in Point THEN D(n - 1) \cup {n} ELSE D(n - 1)
  BY <1>1
<1>3. \A m : EdgesOf(im, x, m) = {e(d) : d \in D(m)}
  BY DEF EdgesOf
<1> HIDE DEF e, D
<1>4. EdgesOf(im, x, n) = IF After[x][n] \in Point THEN EdgesOf(im, x, n - 1) \cup {e(n)} ELSE EdgesOf(im, x, n - 1)
  BY <1>2, <1>3
<1>5. QED
  BY <1>4 DEF e

LEMMA NoEdgesOf == \A im, x : EdgesOf(im, x, 0) = {}
BY DEF EdgesOf

LEMMA WeightsAre ==
    ASSUME NEW im \in Images, NEW x \in Point, NEW d \in 1 .. NDir, After[x][d] \in Point
    PROVE  distance(im[x], im[After[x][d]]) \in Weight
BY AlphaTreeAssumption DEF Weight

LEMMA InsertedIsQueue ==
    ASSUME NEW hq \in HQueues, NEW d \in Direction, NEW w \in Weight, NEW x \in Point
    PROVE  /\ Insert(hq, d, w, x) \in HQueues
           /\ EdgesIn(Insert(hq, d, w, x).cells) = EdgesIn(hq.cells) \cup {Edge(x, After[x][d], w)}
<1> DEFINE h2 == Insert(hq, d, w, x)
<1>1. QueueOK(h2) /\ EdgesIn(h2.cells) = EdgesIn(hq.cells) \cup {Edge(x, After[x][d], w)}
  <2>1. QueueOK(hq)
    BY DEF HQueues
  <2>2. QED
    BY <2>1, InsertIs
<1>2. h2.cells \in Cells
  BY <1>1 DEF QueueOK
<1>3. hq.dir \in 0 .. NDir /\ hq.level \in Weight /\ hq.size \in Nat
  BY DEF HQueues
<1>4. d \in 0 .. NDir
  BY AlphaTreeAssumption DEF Direction
<1>5. h2 \in [cells : Cells, dir : 0 .. NDir, level : Weight, size : Nat]
  <2> DEFINE lower == hq.size = 0 \/ w < hq.level
             c == h2.cells
             a == IF lower THEN d ELSE hq.dir
             b == IF lower THEN w ELSE hq.level
  <2>1. h2 = [cells |-> c, dir |-> a, level |-> b, size |-> hq.size + 1]
    BY DEF Insert
  <2>2. a \in 0 .. NDir /\ b \in Weight /\ c \in Cells /\ hq.size + 1 \in Nat
    BY <1>2, <1>3, <1>4
  <2> HIDE DEF h2, a, b, c
  <2>3. QED
    BY <2>1, <2>2
<1> HIDE DEF h2
<1>6. QED
  BY <1>1, <1>5 DEF HQueues, h2

LEMMA PoppedIsQueue ==
    ASSUME NEW hq \in HQueues, hq.size # 0
    PROVE  PopFront(hq) \in HQueues
<1> DEFINE cells == [hq.cells EXCEPT ![hq.dir][hq.level] = Front(@)]
           low(e) == LowerBound(cells[e], hq.level)
           IsBest(b) == /\ \A e \in 1 .. NDir : low(b) <= low(e)
                        /\ \A e \in 1 .. b - 1 : low(b) < low(e)
           best == CHOOSE b \in 1 .. NDir : IsBest(b)
           moves == hq.size > 1 /\ cells[hq.dir][hq.level] = <<>>
           a == IF moves THEN best ELSE hq.dir
           b == IF moves THEN low(best) ELSE hq.level
           h2 == PopFront(hq)
<1>1. h2 = [cells |-> cells, dir |-> a, level |-> b, size |-> hq.size - 1]
  BY DEF PopFront
<1> HIDE DEF h2, a, b, cells
<1>2. QueueOK(h2)
  BY PopFrontIs DEF HQueues, h2
<1>3. h2.cells \in Cells /\ h2.cells = cells
  BY <1>1, <1>2 DEF QueueOK
<1>4. hq.dir \in 0 .. NDir /\ hq.level \in Weight /\ hq.size \in Nat
  BY DEF HQueues
<1>5. a \in 0 .. NDir /\ b \in Weight
  <2>1. CASE hq.size = 1
    BY <1>4, <2>1 DEF a, b
  <2>2. CASE hq.size # 1
    <3>1. h2.size # 0
      BY <1>1, <1>4, <2>2
    <3>2. h2.dir \in Direction /\ h2.level \in Weight
      BY <1>2, <3>1 DEF QueueOK, CacheIsRight
    <3>3. h2.dir = a /\ h2.level = b
      BY <1>1
    <3>4. QED
      BY <3>2, <3>3, AlphaTreeAssumption DEF Direction
  <2>3. QED
    BY <2>1, <2>2
<1>6. h2 \in [cells : Cells, dir : 0 .. NDir, level : Weight, size : Nat]
  BY <1>1, <1>3, <1>4, <1>5
<1>7. QED
  BY <1>2, <1>6 DEF HQueues, h2

(* The edges of a point are added to the queue, *)
LEMMA InsertedEdgesAre ==
    ASSUME hqueue \in HQueues, f \in Images, NEW x \in Point
    PROVE  /\ InsertedEdges(x) \in HQueues
           /\ EdgesIn(InsertedEdges(x).cells) = EdgesIn(hqueue.cells) \cup EdgesOf(f, x, NDir)
<1> DEFINE adds(d) == After[x][d] \in Point
           add(h, d) == Insert(h, d, Dist(x, After[x][d]), x)
           g == [e \in (1 .. NDir) \X HQueues |-> IF adds(e[1]) THEN add(e[2], e[1]) ELSE e[2]]
           Is(u) == u = [d \in 0 .. NDir |->
                            IF d = 0 THEN hqueue
                            ELSE IF adds(d) THEN add(u[d - 1], d) ELSE u[d - 1]]
           filled == CHOOSE u : Is(u)
<1>1. InsertedEdges(x) = filled[NDir]
  BY DEF InsertedEdges
<1>2. NDir \in Nat
  BY AlphaTreeAssumption
<1>3. \A d \in 1 .. NDir : adds(d) => Dist(x, After[x][d]) \in Weight
  BY WeightsAre DEF Dist
<1>4. \A d \in 1 .. NDir, h \in HQueues : adds(d) =>
          /\ add(h, d) \in HQueues
          /\ EdgesIn(add(h, d).cells) = EdgesIn(h.cells) \cup {Edge(x, After[x][d], distance(f[x], f[After[x][d]]))}
  <2> SUFFICES ASSUME NEW d \in 1 .. NDir, NEW h \in HQueues, adds(d)
               PROVE  /\ add(h, d) \in HQueues
                      /\ EdgesIn(add(h, d).cells) = EdgesIn(h.cells) \cup {Edge(x, After[x][d], Dist(x, After[x][d]))}
    BY DEF Dist
  <2>1. PICK w \in Weight : w = Dist(x, After[x][d])
    BY <1>3
  <2>2. d \in Direction /\ add(h, d) = Insert(h, d, w, x)
    BY <2>1 DEF Direction
  <2> HIDE DEF add
  <2>3. /\ Insert(h, d, w, x) \in HQueues
        /\ EdgesIn(Insert(h, d, w, x).cells) = EdgesIn(h.cells) \cup {Edge(x, After[x][d], w)}
    BY <2>2, InsertedIsQueue
  <2>4. QED
    BY <2>1, <2>2, <2>3
<1> HIDE DEF adds, add
<1>5. \A d \in 1 .. NDir, h \in HQueues : /\ g[<<d, h>>] = (IF adds(d) THEN add(h, d) ELSE h)
                                          /\ g[<<d, h>>] \in HQueues
  BY <1>4
<1> HIDE DEF g
<1>6. PICK u \in [0 .. NDir -> HQueues] : IsRecursion(u, g, hqueue, NDir)
  BY <1>2, <1>5, RecursionExists
<1>7. ASSUME NEW d \in 0 .. NDir
      PROVE  u[d] = IF d = 0 THEN hqueue ELSE IF adds(d) THEN add(u[d - 1], d) ELSE u[d - 1]
  <2>1. u[d] = IF d = 0 THEN hqueue ELSE g[<<d, u[d - 1]>>]
    BY <1>6 DEF IsRecursion
  <2>2. CASE d # 0
    <3>1. d \in 1 .. NDir /\ d - 1 \in 0 .. NDir
      BY <1>2, <2>2
    <3>2. u[d - 1] \in HQueues
      BY <3>1
    <3>3. QED
      BY <1>5, <2>1, <2>2, <3>1, <3>2
  <2>3. QED
    BY <2>1, <2>2
<1>8. Is(u)
  <2>1. u = [d \in 0 .. NDir |-> u[d]]
    OBVIOUS
  <2>2. QED
    BY <1>7, <2>1
<1>9. Is(filled)
  <2> HIDE DEF Is
  <2>1. QED
    BY <1>8
<1> HIDE DEF filled
<1>10. \A d \in 0 .. NDir : filled[d] = IF d = 0 THEN hqueue
                                        ELSE IF adds(d) THEN add(filled[d - 1], d) ELSE filled[d - 1]
  BY <1>9
<1> HIDE DEF Is
<1> DEFINE T == {d \in Nat : d <= NDir =>
                     /\ filled[d] \in HQueues
                     /\ EdgesIn(filled[d].cells) = EdgesIn(hqueue.cells) \cup EdgesOf(f, x, d)}
<1>11. 0 \in T
  BY <1>2, <1>10, NoEdgesOf
<1>12. ASSUME NEW d \in T PROVE d + 1 \in T
  <2> DEFINE k == d + 1
  <2>1. d \in Nat /\ k \in Nat \ {0} /\ k - 1 = d
    OBVIOUS
  <2> SUFFICES ASSUME k <= NDir
               PROVE  /\ filled[k] \in HQueues
                      /\ EdgesIn(filled[k].cells) = EdgesIn(hqueue.cells) \cup EdgesOf(f, x, k)
    BY <2>1
  <2>2. /\ filled[d] \in HQueues
        /\ EdgesIn(filled[d].cells) = EdgesIn(hqueue.cells) \cup EdgesOf(f, x, d)
    BY <1>2, <2>1
  <2>3. k \in 1 .. NDir /\ k \in 0 .. NDir
    BY <1>2, <2>1
  <2> HIDE DEF k, T
  <2>4. filled[k] = IF adds(k) THEN add(filled[d], k) ELSE filled[d]
    BY <1>10, <2>1, <2>3
  <2>5. EdgesOf(f, x, k) = IF After[x][k] \in Point
                           THEN EdgesOf(f, x, d) \cup {Edge(x, After[x][k], distance(f[x], f[After[x][k]]))}
                           ELSE EdgesOf(f, x, d)
    BY <2>1, EdgesOfGrow
  <2>6. CASE adds(k)
    BY <1>4, <2>2, <2>3, <2>4, <2>5, <2>6 DEF adds
  <2>7. CASE ~adds(k)
    BY <2>2, <2>4, <2>5, <2>7 DEF adds
  <2>8. QED
    BY <2>6, <2>7
<1> HIDE DEF T
<1>13. T = Nat
  BY <1>11, <1>12, SetOfAllNaturals DEF T
<1>14. QED
  BY <1>1, <1>2, <1>13 DEF T

(* or to the vector. *)
LEMMA PushedEdgesAre ==
    ASSUME cont \in Seq(GraphEdges), f \in Images, NEW x \in Point
    PROVE  /\ PushedEdges(x) \in Seq(GraphEdges)
           /\ Range(PushedEdges(x)) = Range(cont) \cup EdgesOf(f, x, NDir)
<1> DEFINE Q == Seq(GraphEdges)
           adds(d) == After[x][d] \in Point
           edge(d) == Edge(x, After[x][d], Dist(x, After[x][d]))
           g == [e \in (1 .. NDir) \X Q |-> IF adds(e[1]) THEN Append(e[2], edge(e[1])) ELSE e[2]]
           Is(u) == u = [d \in 0 .. NDir |->
                            IF d = 0 THEN cont
                            ELSE IF adds(d) THEN Append(u[d - 1], edge(d)) ELSE u[d - 1]]
           filled == CHOOSE u : Is(u)
<1>1. PushedEdges(x) = filled[NDir]
  BY DEF PushedEdges
<1>2. NDir \in Nat
  BY AlphaTreeAssumption
<1>3. \A d \in 1 .. NDir : adds(d) => edge(d) \in GraphEdges
  BY WeightsAre, EdgeIs DEF Dist
<1>4. \A d \in 1 .. NDir : edge(d) = Edge(x, After[x][d], distance(f[x], f[After[x][d]]))
  BY DEF Dist
<1> HIDE DEF adds, edge
<1>5. \A d \in 1 .. NDir, h \in Q : adds(d) =>
          /\ Append(h, edge(d)) \in Q
          /\ Range(Append(h, edge(d))) = Range(h) \cup {edge(d)}
  BY <1>3, RangeOfAppend
<1> HIDE DEF Q
<1>6. \A d \in 1 .. NDir, h \in Q : /\ g[<<d, h>>] = (IF adds(d) THEN Append(h, edge(d)) ELSE h)
                                    /\ g[<<d, h>>] \in Q
  BY <1>5
<1> HIDE DEF g
<1>7. PICK u \in [0 .. NDir -> Q] : IsRecursion(u, g, cont, NDir)
  BY <1>2, <1>6, RecursionExists DEF Q
<1>8. ASSUME NEW d \in 0 .. NDir
      PROVE  u[d] = IF d = 0 THEN cont ELSE IF adds(d) THEN Append(u[d - 1], edge(d)) ELSE u[d - 1]
  <2>1. u[d] = IF d = 0 THEN cont ELSE g[<<d, u[d - 1]>>]
    BY <1>7 DEF IsRecursion
  <2>2. CASE d # 0
    <3>1. d \in 1 .. NDir /\ d - 1 \in 0 .. NDir
      BY <1>2, <2>2
    <3>2. u[d - 1] \in Q
      BY <3>1
    <3>3. QED
      BY <1>6, <2>1, <2>2, <3>1, <3>2
  <2>3. QED
    BY <2>1, <2>2
<1>9. Is(u)
  <2>1. u = [d \in 0 .. NDir |-> u[d]]
    OBVIOUS
  <2>2. QED
    BY <1>8, <2>1
<1>10. Is(filled)
  <2> HIDE DEF Is
  <2>1. QED
    BY <1>9
<1> HIDE DEF filled
<1>11. \A d \in 0 .. NDir : filled[d] = IF d = 0 THEN cont
                                        ELSE IF adds(d) THEN Append(filled[d - 1], edge(d)) ELSE filled[d - 1]
  BY <1>10
<1> HIDE DEF Is
<1> DEFINE T == {d \in Nat : d <= NDir =>
                     /\ filled[d] \in Q
                     /\ Range(filled[d]) = Range(cont) \cup EdgesOf(f, x, d)}
<1>12. 0 \in T
  BY <1>2, <1>11, NoEdgesOf DEF Q
<1>13. ASSUME NEW d \in T PROVE d + 1 \in T
  <2> DEFINE k == d + 1
  <2>1. d \in Nat /\ k \in Nat \ {0} /\ k - 1 = d
    OBVIOUS
  <2> SUFFICES ASSUME k <= NDir
               PROVE  /\ filled[k] \in Q
                      /\ Range(filled[k]) = Range(cont) \cup EdgesOf(f, x, k)
    BY <2>1
  <2>2. filled[d] \in Q /\ Range(filled[d]) = Range(cont) \cup EdgesOf(f, x, d)
    BY <1>2, <2>1
  <2>3. k \in 1 .. NDir /\ k \in 0 .. NDir
    BY <1>2, <2>1
  <2> HIDE DEF k, T
  <2>4. filled[k] = IF adds(k) THEN Append(filled[d], edge(k)) ELSE filled[d]
    BY <1>11, <2>1, <2>3
  <2>5. EdgesOf(f, x, k) = IF After[x][k] \in Point
                           THEN EdgesOf(f, x, d) \cup {edge(k)} ELSE EdgesOf(f, x, d)
    BY <1>4, <2>1, <2>3, EdgesOfGrow
  <2>6. CASE adds(k)
    BY <1>5, <2>2, <2>3, <2>4, <2>5, <2>6 DEF adds
  <2>7. CASE ~adds(k)
    BY <2>2, <2>4, <2>5, <2>7 DEF adds
  <2>8. QED
    BY <2>6, <2>7
<1> HIDE DEF T
<1>14. T = Nat
  BY <1>12, <1>13, SetOfAllNaturals DEF T
<1>15. QED
  <2>1. NDir \in T
    BY <1>2, <1>14
  <2>2. filled[NDir] \in Q /\ Range(filled[NDir]) = Range(cont) \cup EdgesOf(f, x, NDir)
    BY <1>2, <2>1 DEF T
  <2>3. QED
    BY <1>1, <2>2 DEF Q

-----------------------------------------------------------------------------
(* The vector of the edges is sorted by weight. *)

OfLevel(S, l) == {e \in S : e.w = l}

ByWeight(s) == \A a, b \in 1 .. Len(s) : a <= b => s[a].w <= s[b].w

LEMMA OfWeightIs ==
    ASSUME NEW S, NEW s \in Seq(S), NEW l
    PROVE  /\ OfWeight(s, l) \in Seq(OfLevel(S, l))
           /\ Range(OfWeight(s, l)) = OfLevel(Range(s), l)
<1> DEFINE n == Len(s)
           R == OfLevel(S, l)
           Q == Seq(R)
           keeps(m) == s[m].w = l
           g == [e \in (1 .. n) \X Q |-> IF keeps(e[1]) THEN Append(e[2], s[e[1]]) ELSE e[2]]
           Is(u) == u = [m \in 0 .. n |->
                            IF m = 0 THEN <<>>
                            ELSE IF keeps(m) THEN Append(u[m - 1], s[m]) ELSE u[m - 1]]
           kept == CHOOSE u : Is(u)
           First(m) == {s[b] : b \in {c \in 1 .. m : keeps(c)}}
<1>1. OfWeight(s, l) = kept[n]
  BY DEF OfWeight
<1>2. n \in Nat /\ DOMAIN s = 1 .. n /\ \A m \in 1 .. n : s[m] \in S
  OBVIOUS
<1>3. \A m \in 1 .. n : keeps(m) => s[m] \in R
  BY <1>2 DEF OfLevel
<1>4. OfLevel(Range(s), l) = First(n)
  BY <1>2 DEF OfLevel, Range
<1>5. \A m \in Nat \ {0} : First(m) = IF keeps(m) THEN First(m - 1) \cup {s[m]} ELSE First(m - 1)
  <2> SUFFICES ASSUME NEW m \in Nat \ {0}
               PROVE First(m) = IF keeps(m) THEN First(m - 1) \cup {s[m]} ELSE First(m - 1)
    OBVIOUS
  <2>1. 1 .. m = (1 .. m - 1) \cup {m}
    OBVIOUS
  <2> DEFINE K(b) == {c \in 1 .. b : keeps(c)}
  <2> HIDE DEF keeps
  <2>2. K(m) = IF keeps(m) THEN K(m - 1) \cup {m} ELSE K(m - 1)
    BY <2>1
  <2>3. \A b : First(b) = {s[c] : c \in K(b)}
    OBVIOUS
  <2> HIDE DEF K, First
  <2>4. QED
    BY <2>2, <2>3
<1>6. First(0) = {}
  OBVIOUS
<1> HIDE DEF keeps, R, First
<1>7. \A m \in 1 .. n, h \in Q : keeps(m) =>
          /\ Append(h, s[m]) \in Q
          /\ Range(Append(h, s[m])) = Range(h) \cup {s[m]}
  BY <1>3, RangeOfAppend
<1>8. <<>> \in Q /\ Range(<<>>) = {}
  BY DEF Range
<1> HIDE DEF Q, n
<1>9. \A m \in 1 .. n, h \in Q : /\ g[<<m, h>>] = (IF keeps(m) THEN Append(h, s[m]) ELSE h)
                                 /\ g[<<m, h>>] \in Q
  BY <1>7
<1> HIDE DEF g
<1>10. PICK u \in [0 .. n -> Q] : IsRecursion(u, g, <<>>, n)
  BY <1>2, <1>8, <1>9, RecursionExists
<1>11. ASSUME NEW m \in 0 .. n
       PROVE  u[m] = IF m = 0 THEN <<>> ELSE IF keeps(m) THEN Append(u[m - 1], s[m]) ELSE u[m - 1]
  <2>1. u[m] = IF m = 0 THEN <<>> ELSE g[<<m, u[m - 1]>>]
    BY <1>10 DEF IsRecursion
  <2>2. CASE m # 0
    <3>1. m \in 1 .. n /\ m - 1 \in 0 .. n
      BY <1>2, <2>2
    <3>2. u[m - 1] \in Q
      BY <3>1
    <3>3. QED
      BY <1>9, <2>1, <2>2, <3>1, <3>2
  <2>3. QED
    BY <2>1, <2>2
<1>12. Is(u)
  <2>1. u = [m \in 0 .. n |-> u[m]]
    OBVIOUS
  <2>2. QED
    BY <1>11, <2>1
<1>13. Is(kept)
  <2> HIDE DEF Is
  <2>1. QED
    BY <1>12
<1> HIDE DEF kept
<1>14. \A m \in 0 .. n : kept[m] = IF m = 0 THEN <<>>
                                   ELSE IF keeps(m) THEN Append(kept[m - 1], s[m]) ELSE kept[m - 1]
  BY <1>13
<1> HIDE DEF Is
<1> DEFINE T == {m \in Nat : m <= n => kept[m] \in Q /\ Range(kept[m]) = First(m)}
<1>15. 0 \in T
  <2>1. 0 \in 0 .. n
    BY <1>2
  <2>2. kept[0] = <<>>
    BY <1>14, <2>1
  <2>3. QED
    BY <1>6, <1>8, <2>2
<1>16. ASSUME NEW m \in T PROVE m + 1 \in T
  <2> DEFINE k == m + 1
  <2>1. m \in Nat /\ k \in Nat \ {0} /\ k - 1 = m
    OBVIOUS
  <2> SUFFICES ASSUME k <= n PROVE kept[k] \in Q /\ Range(kept[k]) = First(k)
    BY <2>1
  <2>2. kept[m] \in Q /\ Range(kept[m]) = First(m)
    BY <1>2, <2>1
  <2>3. k \in 1 .. n /\ k \in 0 .. n
    BY <1>2, <2>1
  <2> HIDE DEF k, T
  <2>4. kept[k] = IF keeps(k) THEN Append(kept[m], s[k]) ELSE kept[m]
    BY <1>14, <2>1, <2>3
  <2>5. First(k) = IF keeps(k) THEN First(m) \cup {s[k]} ELSE First(m)
    BY <1>5, <2>1
  <2>6. QED
    BY <1>7, <2>2, <2>3, <2>4, <2>5
<1>17. T = Nat
  BY <1>15, <1>16, SetOfAllNaturals
<1> HIDE DEF T
<1>18. n \in T
  BY <1>2, <1>17
<1>19. kept[n] \in Q /\ Range(kept[n]) = First(n)
  BY <1>2, <1>18 DEF T
<1>20. QED
  BY <1>1, <1>4, <1>19 DEF Q, R

(* The edges whose weight is a level, all of them, in the order of weights. *)
LEMMA SortedEdgesAre ==
    ASSUME NEW S, NEW s \in Seq(S)
    PROVE  /\ SortedEdges(s) \in Seq({e \in S : e.w \in Weight})
           /\ Range(SortedEdges(s)) = {e \in Range(s) : e.w \in Weight}
           /\ ByWeight(SortedEdges(s))
<1> DEFINE n == NLevels
           W == {e \in S : e.w \in Weight}
           ss == [l \in 1 .. n |-> OfWeight(s, l - 1)]
           t == SortedEdges(s)
<1>1. n \in Nat \ {0} /\ t = FlattenSeq(ss)
  BY AlphaTreeAssumption DEF SortedEdges
<1>2. ASSUME NEW l \in 1 .. n
      PROVE  /\ ss[l] \in Seq(OfLevel(S, l - 1)) /\ ss[l] \in Seq(W)
             /\ Range(ss[l]) = OfLevel(Range(s), l - 1)
  <2>1. OfWeight(s, l - 1) \in Seq(OfLevel(S, l - 1)) /\ Range(OfWeight(s, l - 1)) = OfLevel(Range(s), l - 1)
    BY OfWeightIs
  <2>2. OfLevel(S, l - 1) \subseteq W
    BY <1>1 DEF OfLevel, Weight
  <2>3. ss[l] = OfWeight(s, l - 1)
    OBVIOUS
  <2> HIDE DEF W, ss
  <2>4. ss[l] \in Seq(W)
    <3> DEFINE r == ss[l]
               A == OfLevel(S, l - 1)
    <3>1. r \in Seq(A) /\ A \subseteq W
      BY <2>1, <2>2, <2>3
    <3> HIDE DEF r, A
    <3>2. QED
      BY <3>1 DEF r
  <2>5. QED
    BY <2>1, <2>3, <2>4
<1>3. ss \in Family(W, n) /\ ss \in Seq(Seq(W)) /\ Len(ss) = n /\ ss # <<>>
  <2>1. ss \in [1 .. n -> Seq(W)]
    BY <1>2
  <2> HIDE DEF ss, W
  <2>2. ss \in Seq(Seq(W)) /\ Len(ss) = n
    BY <1>1, <2>1
  <2>3. QED
    BY <1>1, <2>1, <2>2, EmptySeq DEF Family
<1> HIDE DEF ss, n, W
<1>4. t \in Seq(W)
  BY <1>1, <1>3, FlattenType
<1>5. Range(t) = {e \in Range(s) : e.w \in Weight}
  <2>1. \A x : x \in Range(t) <=> \E m \in 1 .. n : x \in Range(ss[m])
    BY <1>1, <1>3, FlattenRange
  <2>2. \A m \in 1 .. n : \A x : x \in Range(ss[m]) <=> x \in Range(s) /\ x.w = m - 1
    BY <1>2 DEF OfLevel
  <2>3. \A w : w \in Weight <=> \E m \in 1 .. n : w = m - 1
    <3>1. \A w \in Weight : w + 1 \in 1 .. n /\ w = (w + 1) - 1
      BY <1>1 DEF Weight, n
    <3>2. \A m \in 1 .. n : m - 1 \in Weight
      BY <1>1 DEF Weight, n
    <3>3. QED
      BY <3>1, <3>2
  <2>4. QED
    BY <2>1, <2>2, <2>3
<1>6. PICK F \in [1 .. Len(ss) -> Seq(W)] :
            /\ F[1] = ss[1]
            /\ \A i2 \in 2 .. Len(ss) : F[i2] = F[i2 - 1] \o ss[i2]
            /\ FlattenSeq(ss) = F[Len(ss)]
  BY <1>3, FlattenIs
<1> DEFINE P == {m \in 1 .. n : ByWeight(F[m]) /\ \A a \in 1 .. Len(F[m]) : F[m][a].w < m}
<1>7. \A m \in 1 .. n : \A a \in 1 .. Len(ss[m]) : ss[m][a].w = m - 1
  <2> SUFFICES ASSUME NEW m \in 1 .. n, NEW a \in 1 .. Len(ss[m]) PROVE ss[m][a].w = m - 1
    OBVIOUS
  <2> DEFINE r == ss[m]
             A == OfLevel(S, m - 1)
  <2>1. r \in Seq(A)
    BY <1>2
  <2> HIDE DEF r, A
  <2>2. r[a] \in A
    BY <2>1 DEF r
  <2>3. QED
    BY <2>2 DEF r, A, OfLevel
<1>8. 1 \in P
  <2>1. 1 \in 1 .. n
    BY <1>1
  <2>2. \A a \in 1 .. Len(ss[1]) : ss[1][a].w = 0
    BY <1>7, <2>1
  <2>3. QED
    BY <1>6, <2>1, <2>2 DEF ByWeight
<1>9. ASSUME NEW m \in 2 .. n, m - 1 \in P PROVE m \in P
  <2> DEFINE x == F[m - 1]
             y == ss[m]
             z == F[m]
  <2>1. m \in 1 .. n /\ m - 1 \in 1 .. n /\ m \in Nat
    BY <1>1
  <2>2. z = x \o y
    BY <1>3, <1>6
  <2>3. ByWeight(x) /\ \A a \in 1 .. Len(x) : x[a].w < m - 1
    BY <1>9
  <2>4. \A a \in 1 .. Len(y) : y[a].w = m - 1
    BY <1>7, <2>1
  <2>5. x \in Seq(W) /\ y \in Seq(W)
    BY <1>2, <1>3, <1>6, <2>1
  <2> HIDE DEF x, y, z, P
  <2>6. /\ Len(x) \in Nat /\ Len(y) \in Nat /\ Len(z) = Len(x) + Len(y)
        /\ \A a \in 1 .. Len(x) : z[a] = x[a] /\ x[a] \in W
        /\ \A a \in 1 .. Len(y) : z[a + Len(x)] = y[a]
    BY <2>2, <2>5
  <2>7. \A a \in 1 .. Len(x) : x[a].w \in Weight
    BY <2>6 DEF W
  <2>8. \A a \in 1 .. Len(z) : a \in 1 .. Len(x) \/ (a - Len(x) \in 1 .. Len(y) /\ a = (a - Len(x)) + Len(x))
    BY <2>6
  <2>9. \A a \in 1 .. Len(z) : \/ a \in 1 .. Len(x) /\ z[a] = x[a] /\ z[a].w \in Nat /\ z[a].w < m - 1
                               \/ a > Len(x) /\ z[a].w = m - 1
    <3> SUFFICES ASSUME NEW a \in 1 .. Len(z)
                 PROVE  \/ a \in 1 .. Len(x) /\ z[a] = x[a] /\ z[a].w \in Nat /\ z[a].w < m - 1
                        \/ a > Len(x) /\ z[a].w = m - 1
      OBVIOUS
    <3>1. CASE a \in 1 .. Len(x)
      BY <2>3, <2>6, <2>7, <3>1, AlphaTreeAssumption DEF Weight
    <3>2. CASE a \notin 1 .. Len(x)
      <4> DEFINE b == a - Len(x)
      <4>1. b \in 1 .. Len(y) /\ a = b + Len(x)
        BY <2>8, <3>2
      <4> HIDE DEF b
      <4>2. z[a] = y[b] /\ y[b].w = m - 1
        BY <2>4, <2>6, <4>1
      <4>3. a > Len(x)
        BY <2>6, <4>1
      <4>4. QED
        BY <4>2, <4>3
    <3>3. QED
      BY <3>1, <3>2
  <2>10. \A a \in 1 .. Len(z) : z[a].w < m
    BY <2>1, <2>9
  <2>11. ByWeight(z)
    <3> SUFFICES ASSUME NEW a \in 1 .. Len(z), NEW b \in 1 .. Len(z), a <= b PROVE z[a].w <= z[b].w
      BY DEF ByWeight
    <3>1. CASE b \in 1 .. Len(x)
      <4>1. a \in 1 .. Len(x)
        BY <2>6, <3>1
      <4>2. QED
        BY <2>3, <2>6, <3>1, <4>1 DEF ByWeight
    <3>2. CASE b \notin 1 .. Len(x)
      BY <2>1, <2>9, <3>2
    <3>3. QED
      BY <3>1, <3>2
  <2>12. QED
    BY <2>1, <2>10, <2>11 DEF P, z
<1> HIDE DEF P
<1>10. \A m \in 1 .. n : m \in P
  BY <1>1, <1>8, <1>9, InductionUpTo
<1>11. ByWeight(t)
  <2>1. n \in P /\ t = F[n]
    BY <1>1, <1>3, <1>6, <1>10
  <2>2. QED
    BY <2>1 DEF P
<1>12. QED
  BY <1>4, <1>5, <1>11 DEF W

(* The tail of a sorted vector is sorted, and its head is not above the rest. *)
LEMMA TailIs ==
    ASSUME NEW S, NEW s \in Seq(S), s # <<>>, ByWeight(s)
    PROVE  /\ Head(s) \in Range(s) /\ Head(s) \in S
           /\ \A e \in Range(s) : Head(s).w <= e.w
           /\ Tail(s) \in Seq(S) /\ ByWeight(Tail(s))
           /\ Range(Tail(s)) \subseteq Range(s)
           /\ Range(s) \subseteq Range(Tail(s)) \cup {Head(s)}
<1>1. /\ Len(s) \in Nat \ {0} /\ DOMAIN s = 1 .. Len(s)
      /\ \A a \in 1 .. Len(s) : s[a] \in S
      /\ Head(s) = s[1]
      /\ Tail(s) \in Seq(S) /\ Len(Tail(s)) = Len(s) - 1 /\ DOMAIN Tail(s) = 1 .. Len(s) - 1
      /\ \A a \in 1 .. Len(s) - 1 : Tail(s)[a] = s[a + 1]
  <2>1. Len(s) \in Nat \ {0}
    BY EmptySeq
  <2>2. QED
    BY <2>1
<1>2. \A a \in 1 .. Len(s) : a = 1 \/ (a - 1 \in 1 .. Len(s) - 1 /\ a = (a - 1) + 1)
  BY <1>1
<1>3. \A y : y \in Range(s) <=> \E a \in 1 .. Len(s) : s[a] = y
  BY <1>1 DEF Range
<1>4. \A y : y \in Range(Tail(s)) <=> \E a \in 1 .. Len(s) - 1 : s[a + 1] = y
  BY <1>1 DEF Range
<1>5. 1 \in 1 .. Len(s) /\ \A a \in 1 .. Len(s) - 1 : a + 1 \in 1 .. Len(s)
  BY <1>1
<1>6. \A e \in Range(s) : Head(s).w <= e.w
  <2> SUFFICES ASSUME NEW a \in 1 .. Len(s) PROVE s[1].w <= s[a].w
    BY <1>1, <1>3
  <2>1. 1 <= a
    OBVIOUS
  <2>2. QED
    BY <1>5, <2>1 DEF ByWeight
<1>7. ByWeight(Tail(s))
  <2> SUFFICES ASSUME NEW a \in 1 .. Len(s) - 1, NEW b \in 1 .. Len(s) - 1, a <= b
               PROVE  s[a + 1].w <= s[b + 1].w
    BY <1>1 DEF ByWeight
  <2>1. a + 1 <= b + 1
    BY <1>1
  <2>2. QED
    BY <1>5, <2>1 DEF ByWeight
<1>8. QED
  BY <1>1, <1>2, <1>3, <1>4, <1>5, <1>6, <1>7

-----------------------------------------------------------------------------
(* The edges, from their computation to the last one. *)

Met(n) == {Raster[a] : a \in 1 .. n}

EdgesFrom(im, P) == UNION {EdgesOf(im, x, NDir) : x \in P}

Pcs == {"edges", "flatzones", "hierarchy", "reweight", "end"}

EdgesInv ==
    /\ f \in Images /\ task \in AllTasks /\ pc \in Pcs /\ i \in 1 .. Len(Raster) + 1
    /\ canonize_tree \in BOOLEAN
    /\ ~canonize_tree \/ pc = "reweight" => ForHierarchy
    /\ hqueue \in HQueues
    /\ cont \in Seq(GraphEdges)
    /\ mst \in Seq(GraphEdges)
    /\ pc # "edges" => ByWeight(cont)
    /\ pc = "edges" => EdgesLeft = EdgesFrom(f, Met(i - 1))
    /\ ~ForHierarchy => EdgesLeft \subseteq EdgesFrom(f, Point)

LEMMA RasterIs ==
    /\ Len(Raster) \in Nat /\ \A a \in 1 .. Len(Raster) : Raster[a] \in Point
    /\ Met(Len(Raster)) = Point
    /\ \A n \in 0 .. Len(Raster) : Met(n) \subseteq Point
    /\ \A n \in 1 .. Len(Raster) : Met(n) = Met(n - 1) \cup {Raster[n]}
<1>1. Raster \in Seq(Point) /\ Range(Raster) = Point
  BY AlphaTreeAssumption
<1>2. Len(Raster) \in Nat /\ DOMAIN Raster = 1 .. Len(Raster)
  BY <1>1
<1>3. \A a \in 1 .. Len(Raster) : Raster[a] \in Point
  BY <1>1
<1>4. Met(Len(Raster)) = Point
  BY <1>1, <1>2 DEF Met, Range
<1>5. \A n \in 0 .. Len(Raster) : Met(n) \subseteq Point
  BY <1>2, <1>3 DEF Met
<1>6. \A n \in 1 .. Len(Raster) : 1 .. n = (1 .. n - 1) \cup {n}
  BY <1>2
<1>7. \A n \in 1 .. Len(Raster) : Met(n) = Met(n - 1) \cup {Raster[n]}
  BY <1>6 DEF Met
<1>8. QED
  BY <1>2, <1>3, <1>4, <1>5, <1>7

LEMMA EdgesFromGrow == \A im, P, x : EdgesFrom(im, P \cup {x}) = EdgesFrom(im, P) \cup EdgesOf(im, x, NDir)
BY DEF EdgesFrom

LEMMA EdgesFromAre ==
    ASSUME NEW im \in Images
    PROVE  /\ EdgesFrom(im, Point) \subseteq GraphEdges
           /\ \A P \in SUBSET Point : EdgesFrom(im, P) \subseteq EdgesFrom(im, Point)
<1>1. \A x \in Point : EdgesOf(im, x, NDir) \subseteq GraphEdges
  <2> SUFFICES ASSUME NEW x \in Point, NEW d \in 1 .. NDir, After[x][d] \in Point
               PROVE  Edge(x, After[x][d], distance(im[x], im[After[x][d]])) \in GraphEdges
    BY DEF EdgesOf
  <2>1. QED
    BY WeightsAre, EdgeIs
<1>2. QED
  BY <1>1 DEF EdgesFrom

(* The edge that comes next, and what is left once it is popped. *)
LEMMA EdgeIsPopped ==
    ASSUME hqueue \in HQueues, cont \in Seq(GraphEdges), ByWeight(cont), ~NoEdge
    PROVE  /\ TopEdge \in EdgesLeft
           /\ \A e \in EdgesLeft : TopEdge.w <= e.w
           /\ ~HQ => TopEdge \in GraphEdges
<1>1. CASE HQ
  <2>1. QueueOK(hqueue) /\ hqueue.size # 0
    BY <1>1 DEF HQueues, NoEdge
  <2>2. TopEdge = Edge(FrontPoint(hqueue), After[FrontPoint(hqueue)][hqueue.dir], hqueue.level)
    BY <1>1 DEF TopEdge
  <2>3. EdgesLeft = EdgesIn(hqueue.cells)
    BY <1>1 DEF EdgesLeft, EdgesIn, Weight, Direction
  <2>4. QED
    BY <1>1, <2>1, <2>2, <2>3, PopFrontIs
<1>2. CASE ~HQ
  <2>1. cont # <<>> /\ TopEdge = Head(cont) /\ EdgesLeft = Range(cont)
    BY <1>2 DEF NoEdge, TopEdge, EdgesLeft
  <2>2. QED
    BY <2>1, TailIs
<1>3. QED
  BY <1>1, <1>2

LEMMA EdgesAreLeft ==
    ASSUME hqueue \in HQueues, cont \in Seq(GraphEdges), ByWeight(cont), PopEdge, task' = task
    PROVE  /\ hqueue' \in HQueues /\ cont' \in Seq(GraphEdges) /\ ByWeight(cont')
           /\ EdgesLeft' \subseteq EdgesLeft
           /\ EdgesLeft \subseteq EdgesLeft' \cup {TopEdge}
<1>1. ~NoEdge /\ HQ' = HQ
  BY DEF PopEdge, HQ
<1>2. CASE HQ
  <2>1. QueueOK(hqueue) /\ hqueue.size # 0
    BY <1>1, <1>2 DEF HQueues, NoEdge
  <2>2. hqueue' = PopFront(hqueue) /\ cont' = cont
    BY <1>2 DEF PopEdge
  <2>3. TopEdge = Edge(FrontPoint(hqueue), After[FrontPoint(hqueue)][hqueue.dir], hqueue.level)
    BY <1>2 DEF TopEdge
  <2>4. EdgesLeft = EdgesIn(hqueue.cells) /\ EdgesLeft' = EdgesIn(PopFront(hqueue).cells)
    BY <1>1, <1>2, <2>2 DEF EdgesLeft, EdgesIn, Weight, Direction
  <2>5. PopFront(hqueue) \in HQueues
    BY <2>1, PoppedIsQueue
  <2>6. /\ EdgesIn(PopFront(hqueue).cells) \subseteq EdgesIn(hqueue.cells)
        /\ EdgesIn(hqueue.cells) \subseteq EdgesIn(PopFront(hqueue).cells) \cup {TopEdge}
    BY <2>1, <2>3, PopFrontIs
  <2>7. QED
    BY <2>2, <2>4, <2>5, <2>6
<1>3. CASE ~HQ
  <2>1. cont # <<>> /\ TopEdge = Head(cont) /\ EdgesLeft = Range(cont)
    BY <1>1, <1>3 DEF NoEdge, TopEdge, EdgesLeft
  <2>2. hqueue' = hqueue /\ cont' = Tail(cont)
    BY <1>3 DEF PopEdge
  <2>3. EdgesLeft' = Range(Tail(cont))
    BY <1>1, <1>3, <2>2 DEF EdgesLeft
  <2>4. QED
    BY <2>1, <2>2, <2>3, TailIs
<1>4. QED
  BY <1>2, <1>3

LEMMA EdgesInvInit == Init => EdgesInv
<1> SUFFICES ASSUME Init PROVE EdgesInv
  OBVIOUS
<1>1. /\ f \in Images /\ task \in AllTasks /\ pc = "edges" /\ i = 1
      /\ canonize_tree = ~ForHierarchy
      /\ hqueue = EmptyHQueue /\ cont = <<>> /\ mst = <<>>
  BY AlphaTreeAssumption DEF Init
<1>2. i \in 1 .. Len(Raster) + 1 /\ pc \in Pcs
  BY <1>1, RasterIs DEF Pcs
<1>3. EmptyHQueue \in HQueues
  <2> DEFINE c == EmptyHQueue.cells
  <2>1. QueueOK(EmptyHQueue)
    BY EmptyQueueIsOK
  <2>2. EmptyHQueue = [cells |-> c, dir |-> 0, level |-> 0, size |-> 0]
    BY DEF EmptyHQueue
  <2>3. c \in Cells
    BY <2>1 DEF QueueOK
  <2>4. 0 \in 0 .. NDir /\ 0 \in Weight
    BY AlphaTreeAssumption DEF Weight
  <2> HIDE DEF c
  <2>5. EmptyHQueue \in [cells : Cells, dir : 0 .. NDir, level : Weight, size : Nat]
    BY <2>2, <2>3, <2>4
  <2>6. QED
    BY <2>1, <2>5 DEF HQueues
<1>4. EdgesLeft = {}
  <2>1. Range(<<>>) = {}
    BY DEF Range
  <2>2. EmptyHQueue.cells = [d \in 1 .. NDir |-> [l \in 0 .. NLevels - 1 |-> <<>>]]
    BY DEF EmptyHQueue
  <2>3. \A d \in 1 .. NDir : \A l \in 0 .. NLevels - 1 : hqueue.cells[d][l] = <<>>
    BY <1>1, <2>2
  <2>4. QED
    BY <1>1, <2>1, <2>3 DEF EdgesLeft
<1>5. Met(i - 1) = {} /\ EdgesFrom(f, {}) = {}
  BY <1>1 DEF Met, EdgesFrom
<1>6. <<>> \in Seq(GraphEdges)
  BY EmptySeq
<1>7. canonize_tree \in BOOLEAN /\ (~canonize_tree \/ pc = "reweight" => ForHierarchy)
  BY <1>1, Zenon
<1>8. EdgesLeft = EdgesFrom(f, Met(i - 1)) /\ EdgesLeft \subseteq EdgesFrom(f, Point)
  BY <1>4, <1>5
<1>9. QED
  BY <1>1, <1>2, <1>3, <1>6, <1>7, <1>8 DEF EdgesInv

LEMMA EdgesAreComputed == ASSUME EdgesInv, ComputeEdges PROVE EdgesInv'
<1> DEFINE x == Raster[i]
           P == Met(i - 1)
<1>1. /\ pc = "edges" /\ i \in 1 .. Len(Raster) /\ i' = i + 1 /\ x \in Point
      /\ f' = f /\ task' = task /\ pc' = pc /\ canonize_tree' = canonize_tree /\ mst' = mst
  BY RasterIs DEF EdgesInv, ComputeEdges
<1>2. EdgesLeft = EdgesFrom(f, P)
  BY <1>1 DEF EdgesInv
<1>3. /\ hqueue' \in HQueues /\ cont' \in Seq(GraphEdges)
      /\ EdgesLeft' = EdgesLeft \cup EdgesOf(f, x, NDir)
  <2>1. CASE HQ
    <3>1. hqueue' = InsertedEdges(x) /\ cont' = cont /\ HQ'
      BY <1>1, <2>1 DEF ComputeEdges, HQ
    <3>2. /\ hqueue' \in HQueues
          /\ EdgesIn(hqueue'.cells) = EdgesIn(hqueue.cells) \cup EdgesOf(f, x, NDir)
      BY <1>1, <3>1, InsertedEdgesAre DEF EdgesInv
    <3>3. EdgesLeft = EdgesIn(hqueue.cells) /\ EdgesLeft' = EdgesIn(hqueue'.cells)
      BY <2>1, <3>1 DEF EdgesLeft, EdgesIn, Weight, Direction
    <3>4. QED
      BY <3>1, <3>2, <3>3 DEF EdgesInv
  <2>2. CASE ~HQ
    <3>1. cont' = PushedEdges(x) /\ hqueue' = hqueue /\ ~HQ'
      BY <1>1, <2>2 DEF ComputeEdges, HQ
    <3>2. /\ cont' \in Seq(GraphEdges)
          /\ Range(cont') = Range(cont) \cup EdgesOf(f, x, NDir)
      BY <1>1, <3>1, PushedEdgesAre DEF EdgesInv
    <3>3. EdgesLeft = Range(cont) /\ EdgesLeft' = Range(cont')
      BY <2>2, <3>1 DEF EdgesLeft
    <3>4. QED
      BY <3>1, <3>2, <3>3 DEF EdgesInv
  <2>3. QED
    BY <2>1, <2>2
<1>4. Met(i) = P \cup {x} /\ Met(i) \subseteq Point
  BY <1>1, RasterIs
<1>5. EdgesLeft' = EdgesFrom(f, Met(i))
  BY <1>2, <1>3, <1>4, EdgesFromGrow
<1>6. i' \in 1 .. Len(Raster) + 1 /\ i' - 1 = i
  BY <1>1, RasterIs
<1>7. EdgesFrom(f, Met(i)) \subseteq EdgesFrom(f, Point)
  BY <1>4, EdgesFromAre DEF EdgesInv
<1>8. ForHierarchy' = ForHierarchy
  BY <1>1 DEF ForHierarchy
<1>9. f' \in Images /\ task' \in AllTasks /\ pc' \in Pcs /\ canonize_tree' \in BOOLEAN
      /\ (~canonize_tree' \/ pc' = "reweight" => ForHierarchy') /\ mst' \in Seq(GraphEdges)
  BY <1>1, <1>8 DEF EdgesInv
<1>10. EdgesLeft' = EdgesFrom(f', Met(i' - 1)) /\ EdgesLeft' \subseteq EdgesFrom(f', Point)
  BY <1>1, <1>5, <1>6, <1>7
<1>11. QED
  BY <1>1, <1>3, <1>6, <1>9, <1>10 DEF EdgesInv

LEMMA EdgesAreSorted ==
    ASSUME EdgesInv, FinishInsert
    PROVE  EdgesInv' /\ EdgesLeft' = EdgesFrom(f, Point)
<1>1. /\ pc = "edges" /\ i = Len(Raster) + 1 /\ i' = i /\ pc' = "flatzones" /\ cont' = SortedEdges(cont)
      /\ f' = f /\ task' = task /\ canonize_tree' = canonize_tree /\ mst' = mst /\ hqueue' = hqueue
  BY RasterIs DEF EdgesInv, FinishInsert
<1>2. EdgesLeft = EdgesFrom(f, Point)
  <2>1. i - 1 = Len(Raster)
    BY <1>1, RasterIs
  <2>2. Met(i - 1) = Point
    BY <2>1, RasterIs
  <2>3. QED
    BY <1>1, <2>2 DEF EdgesInv
<1>3. /\ SortedEdges(cont) \in Seq({e \in GraphEdges : e.w \in Weight})
      /\ Range(SortedEdges(cont)) = {e \in Range(cont) : e.w \in Weight}
      /\ ByWeight(SortedEdges(cont))
  <2>1. cont \in Seq(GraphEdges)
    BY DEF EdgesInv
  <2>2. QED
    BY <2>1, SortedEdgesAre
<1>4. {e \in GraphEdges : e.w \in Weight} = GraphEdges /\ {e \in Range(cont) : e.w \in Weight} = Range(cont)
  <2>1. \A e \in GraphEdges : e.w \in Weight
    BY DEF GraphEdges
  <2>2. Range(cont) \subseteq GraphEdges
    <3>1. cont \in Seq(GraphEdges)
      BY DEF EdgesInv
    <3>2. QED
      BY <3>1 DEF Range
  <2>3. QED
    BY <2>1, <2>2
<1>5. cont' \in Seq(GraphEdges) /\ Range(cont') = Range(cont) /\ ByWeight(cont')
  BY <1>1, <1>3, <1>4
<1>6. EdgesLeft' = EdgesLeft
  BY <1>1, <1>5 DEF EdgesLeft, HQ
<1>7. f' \in Images /\ task' \in AllTasks /\ pc' \in Pcs /\ canonize_tree' \in BOOLEAN
      /\ (~canonize_tree' \/ pc' = "reweight" => ForHierarchy') /\ mst' \in Seq(GraphEdges) /\ i' \in 1 .. Len(Raster) + 1
      /\ hqueue' \in HQueues
  BY <1>1 DEF EdgesInv, ForHierarchy, Pcs
<1>8. pc' # "edges" /\ EdgesLeft' \subseteq EdgesFrom(f', Point)
  BY <1>1, <1>2, <1>6
<1>9. EdgesInv'
  BY <1>5, <1>7, <1>8 DEF EdgesInv
<1>10. QED
  BY <1>2, <1>6, <1>9

LEMMA PopKeepsEdges ==
    ASSUME EdgesInv, pc # "edges", PopEdge,
           UNCHANGED <<f, task, pc, canonize_tree, i>>,
           mst' = mst \/ (~canonize_tree /\ mst' = Append(mst, TopEdge))
    PROVE  EdgesInv'
<1>1. hqueue \in HQueues /\ cont \in Seq(GraphEdges) /\ ByWeight(cont) /\ ~NoEdge
  BY DEF EdgesInv, PopEdge
<1>2. /\ hqueue' \in HQueues /\ cont' \in Seq(GraphEdges) /\ ByWeight(cont')
      /\ EdgesLeft' \subseteq EdgesLeft
  BY <1>1, EdgesAreLeft
<1>3. mst' \in Seq(GraphEdges)
  <2>1. CASE mst' = mst
    BY <2>1 DEF EdgesInv
  <2>2. CASE ~canonize_tree /\ mst' = Append(mst, TopEdge)
    <3>1. ~HQ
      BY <2>2 DEF EdgesInv, ForHierarchy, HQ
    <3>2. TopEdge \in GraphEdges
      BY <1>1, <3>1, EdgeIsPopped
    <3>3. mst \in Seq(GraphEdges)
      BY DEF EdgesInv
    <3>4. QED
      BY <2>2, <3>2, <3>3
  <2>3. QED
    BY <2>1, <2>2
<1>4. /\ f' \in Images /\ task' \in AllTasks /\ pc' \in Pcs /\ canonize_tree' \in BOOLEAN
      /\ (~canonize_tree' \/ pc' = "reweight" => ForHierarchy') /\ i' \in 1 .. Len(Raster) + 1
      /\ pc' # "edges" /\ ForHierarchy' = ForHierarchy
  BY DEF EdgesInv, ForHierarchy
<1>5. ~ForHierarchy' => EdgesLeft' \subseteq EdgesFrom(f', Point)
  BY <1>2, <1>4 DEF EdgesInv
<1>6. QED
  BY <1>2, <1>3, <1>4, <1>5 DEF EdgesInv

LEMMA EdgesInvStays ==
    ASSUME EdgesInv, pc # "edges", pc' # "edges", pc' \in Pcs, canonize_tree' \in BOOLEAN,
           ~canonize_tree' \/ pc' = "reweight" => ~canonize_tree,
           UNCHANGED <<f, task, i, hqueue, cont, mst>>
    PROVE  EdgesInv'
<1>1. EdgesLeft' = EdgesLeft /\ ForHierarchy' = ForHierarchy
  BY DEF EdgesLeft, HQ, ForHierarchy
<1>2. QED
  BY <1>1 DEF EdgesInv

LEMMA EdgesAreReweighted == ASSUME EdgesInv, Reweight PROVE EdgesInv'
<1>1. /\ pc = "reweight" /\ pc' = "hierarchy" /\ canonize_tree' = TRUE
      /\ f' = f /\ task' = task /\ i' = i /\ mst' = mst /\ hqueue' = hqueue
  BY DEF Reweight, StartHierarchy
<1>2. PICK nb_leaves, attribute :
            cont' = SortedEdges([k \in DOMAIN mst |->
                        [mst[k] EXCEPT !.w = NewWeight(par, levels, nb_leaves, attribute, k - 1)]])
  BY DEF Reweight
<1> DEFINE weight(k) == NewWeight(par, levels, nb_leaves, attribute, k - 1)
           s == [k \in DOMAIN mst |-> [mst[k] EXCEPT !.w = weight(k)]]
           W == {weight(k) : k \in DOMAIN mst}
           S == [p : Point, q : Point, w : W]
<1>3. cont' = SortedEdges(s)
  BY <1>2
<1>4. s \in Seq(S)
  <2>1. Len(mst) \in Nat /\ DOMAIN mst = 1 .. Len(mst) /\ \A k \in DOMAIN mst : mst[k] \in GraphEdges
    BY DEF EdgesInv
  <2> HIDE DEF weight
  <2>2. ASSUME NEW k \in DOMAIN mst PROVE [mst[k] EXCEPT !.w = weight(k)] \in S
    BY <2>1 DEF GraphEdges
  <2>3. s \in [1 .. Len(mst) -> S]
    BY <2>1, <2>2
  <2> HIDE DEF s, S
  <2>4. QED
    BY <2>1, <2>3
<1>5. {e \in S : e.w \in Weight} \subseteq GraphEdges
  BY DEF GraphEdges
<1> HIDE DEF s, S
<1>6. SortedEdges(s) \in Seq({e \in S : e.w \in Weight}) /\ ByWeight(SortedEdges(s))
  BY <1>4, SortedEdgesAre
<1>7. cont' \in Seq(GraphEdges) /\ ByWeight(cont')
  <2> DEFINE t == SortedEdges(s)
             A == {e \in S : e.w \in Weight}
  <2>1. t \in Seq(A) /\ A \subseteq GraphEdges
    BY <1>5, <1>6
  <2> HIDE DEF t, A
  <2>2. t \in Seq(GraphEdges)
    BY <2>1
  <2>3. QED
    BY <1>3, <1>6, <2>2 DEF t
<1>8. ForHierarchy'
  BY <1>1 DEF EdgesInv, ForHierarchy, Reweight
<1>9. QED
  BY <1>1, <1>7, <1>8 DEF EdgesInv, Pcs

LEMMA EdgesInvNext == EdgesInv /\ [Next]_vars => EdgesInv'
<1> SUFFICES ASSUME EdgesInv, [Next]_vars PROVE EdgesInv'
  OBVIOUS
<1>1. CASE ComputeEdges
  BY <1>1, EdgesAreComputed
<1>2. CASE FinishInsert
  BY <1>2, EdgesAreSorted
<1>3. CASE MergeZones
  <2>1. /\ pc # "edges" /\ PopEdge /\ mst' = mst
        /\ UNCHANGED <<f, task, pc, canonize_tree, i>>
    BY <1>3 DEF MergeZones
  <2>2. QED
    BY <2>1, PopKeepsEdges
<1>4. CASE CreateNodemap
  <2>1. /\ pc = "flatzones" /\ pc' = "hierarchy" /\ canonize_tree' = canonize_tree
        /\ UNCHANGED <<f, task, i, hqueue, cont, mst>>
    BY <1>4 DEF CreateNodemap, StartHierarchy
  <2>2. QED
    BY <2>1, EdgesInvStays DEF EdgesInv, Pcs
<1>5. CASE Merging /\ (mst' = mst \/ (~canonize_tree /\ mst' = Append(mst, TopEdge)))
  <2>1. /\ pc # "edges" /\ PopEdge
        /\ UNCHANGED <<f, task, pc, canonize_tree, i>>
    BY <1>5 DEF Merging
  <2>2. QED
    BY <1>5, <2>1, PopKeepsEdges
<1>6. CASE SkipEdge
  BY <1>5, <1>6 DEF SkipEdge
<1>7. CASE ReuseNode
  BY <1>5, <1>7 DEF ReuseNode, MergeUnder
<1>8. CASE CreateNode
  BY <1>5, <1>8 DEF CreateNode, MergeUnder
<1>9. CASE ReturnCanonized
  <2>1. /\ pc = "hierarchy" /\ pc' = "end" /\ canonize_tree' = canonize_tree
        /\ UNCHANGED <<f, task, i, hqueue, cont, mst>>
    BY <1>9 DEF ReturnCanonized
  <2>2. QED
    BY <2>1, EdgesInvStays DEF EdgesInv, Pcs
<1>10. CASE ReturnBinary
  <2>1. /\ pc = "hierarchy" /\ pc' = "reweight" /\ canonize_tree' = canonize_tree /\ ~canonize_tree
        /\ UNCHANGED <<f, task, i, hqueue, cont, mst>>
    BY <1>10 DEF ReturnBinary
  <2>2. QED
    BY <2>1, EdgesInvStays DEF EdgesInv, Pcs
<1>11. CASE Reweight
  BY <1>11, EdgesAreReweighted
<1>12. CASE UNCHANGED vars
  <2>1. EdgesLeft' = EdgesLeft /\ ForHierarchy' = ForHierarchy
    BY <1>12 DEF vars, EdgesLeft, HQ, ForHierarchy
  <2>2. QED
    BY <1>12, <2>1 DEF vars, EdgesInv
<1>13. QED
  BY <1>1, <1>2, <1>3, <1>4, <1>6, <1>7, <1>8, <1>9, <1>10, <1>11, <1>12 DEF Next

(***************************************************************************)
(* The containers hold edges of the graph of the image: all those computed *)
(* so far, and, once sorted, those that are left, by increasing weight.    *)
(***************************************************************************)
THEOREM EdgesAreTyped == Spec => []EdgesInv
<1>1. Init => EdgesInv
  BY EdgesInvInit
<1>2. EdgesInv /\ [Next]_vars => EdgesInv'
  BY EdgesInvNext
<1>3. QED
  BY <1>1, <1>2, PTL DEF Spec

(***************************************************************************)
(* Kruskal's algorithm relies on it: the edge that comes next is one of the *)
(* lightest that are left, whatever holds them and whatever the cache of the *)
(* directional queue has followed.                                         *)
(***************************************************************************)
THEOREM LightestEdgeComesFirst == Spec => []LightestEdgeFirst
<1>1. EdgesInv => LightestEdgeFirst
  <2> SUFFICES ASSUME EdgesInv, pc \in {"flatzones", "hierarchy"}, ~NoEdge
               PROVE  TopEdge \in EdgesLeft /\ \A e \in EdgesLeft : TopEdge.w <= e.w
    BY DEF LightestEdgeFirst
  <2>1. hqueue \in HQueues /\ cont \in Seq(GraphEdges) /\ ByWeight(cont)
    BY DEF EdgesInv
  <2>2. QED
    BY <2>1, EdgeIsPopped
<1>2. QED
  BY <1>1, EdgesAreTyped, PTL

-----------------------------------------------------------------------------
(* A forest of the elements of S: to[x] is the root of the tree of x.  There *)
(* is no order of the elements that the merges keep, but there is a depth.   *)
IsForestBy(up, S, to, d) ==
    /\ up \in [S -> S] /\ to \in [S -> S] /\ d \in [S -> Nat]
    /\ \A x \in S : /\ to[up[x]] = to[x] /\ to[to[x]] = to[x]
                    /\ up[x] = x <=> to[x] = x
                    /\ to[x] # x => d[up[x]] < d[x] /\ d[to[x]] < d[x]

IsForest(up, S, to) == \E d : IsForestBy(up, S, to, d)

LEMMA WayIs ==
    ASSUME NEW S, IsFiniteSet(S), NEW up, NEW to, NEW d, IsForestBy(up, S, to, d), NEW x \in S
    PROVE  /\ \A y \in Way(up, x) : y \in S /\ to[y] = to[x]
           /\ to[x] \in Way(up, x)
<1> DEFINE n == Cardinality(DOMAIN up)
           Is(u) == u = [m \in 0 .. n |-> IF m = 0 THEN x ELSE up[u[m - 1]]]
           w == CHOOSE u : Is(u)
<1>1. Way(up, x) = {w[m] : m \in 0 .. n}
  BY DEF Way
<1>2. n \in Nat /\ n = Cardinality(S)
  BY FS_CardinalityType DEF IsForestBy
<1>3. \E u \in [0 .. n -> S] : Is(u)
  <2>1. IsClosed(up, S)
    BY DEF IsForestBy, IsClosed
  <2> HIDE DEF n
  <2>2. \E u \in [0 .. n -> S] : IsIterated(u, up, x, n)
    BY <1>2, <2>1, IteratesExist
  <2>3. QED
    BY <2>2 DEF IsIterated
<1> HIDE DEF n
<1>4. Is(w)
  <2> HIDE DEF Is
  <2>1. QED
    BY <1>3
<1> HIDE DEF w
<1>5. /\ w[0] = x
      /\ \A m \in Nat : m + 1 <= n => w[m + 1] = up[w[m]]
      /\ w = [m \in 0 .. n |-> w[m]]
  <2>1. \A m \in 0 .. n : w[m] = IF m = 0 THEN x ELSE up[w[m - 1]]
    BY <1>4
  <2>2. 0 \in 0 .. n
    BY <1>2
  <2>3. \A m \in Nat : m + 1 <= n => m + 1 \in 0 .. n /\ m + 1 # 0 /\ m + 1 - 1 = m
    BY <1>2
  <2>4. w = [m \in 0 .. n |-> w[m]]
    BY <1>4
  <2> HIDE DEF Is
  <2>5. QED
    BY <2>1, <2>2, <2>3, <2>4
<1> HIDE DEF Is
<1> DEFINE Good(m) == /\ w[m] \in S /\ to[w[m]] = to[x]
                      /\ w[m] = to[x] \/ \A k \in 0 .. m - 1 : w[k] \in S /\ d[w[m]] < d[w[k]]
           T == {m \in Nat : m <= n => Good(m)}
<1>6. 0 \in T
  BY <1>5
<1>7. ASSUME NEW m \in T PROVE m + 1 \in T
  <2>1. m \in Nat
    OBVIOUS
  <2> SUFFICES ASSUME m + 1 <= n PROVE Good(m + 1)
    BY <2>1
  <2>2. Good(m)
    BY <1>2, <2>1
  <2>3. w[m + 1] = up[w[m]]
    BY <1>5, <2>1
  <2>4. w[m + 1] \in S /\ to[w[m + 1]] = to[x]
    BY <2>2, <2>3 DEF IsForestBy
  <2>5. CASE w[m] = to[x]
    <3>1. to[to[x]] = to[x] /\ to[x] \in S
      BY DEF IsForestBy
    <3>2. up[w[m]] = w[m]
      BY <2>2, <2>5, <3>1 DEF IsForestBy
    <3>3. QED
      BY <2>3, <2>4, <2>5, <3>2
  <2>6. CASE w[m] # to[x]
    <3>1. d[w[m + 1]] < d[w[m]]
      BY <2>2, <2>3, <2>6 DEF IsForestBy
    <3>2. d[w[m]] \in Nat /\ d[w[m + 1]] \in Nat
      BY <2>2, <2>4 DEF IsForestBy
    <3>3. ASSUME NEW k \in 0 .. m PROVE w[k] \in S /\ d[w[m + 1]] < d[w[k]]
      <4>1. k = m \/ k \in 0 .. m - 1
        BY <2>1
      <4>2. w[k] \in S /\ (k = m \/ d[w[m]] < d[w[k]])
        BY <2>2, <2>6, <4>1
      <4>3. d[w[k]] \in Nat
        BY <4>2 DEF IsForestBy
      <4>4. QED
        BY <3>1, <3>2, <4>2, <4>3
    <3>4. \A k \in 0 .. (m + 1) - 1 : w[k] \in S /\ d[w[m + 1]] < d[w[k]]
      BY <2>1, <3>3
    <3>5. QED
      BY <2>4, <3>4
  <2>7. QED
    BY <2>5, <2>6
<1> HIDE DEF T, Good
<1>8. T = Nat
  BY <1>6, <1>7, SetOfAllNaturals DEF T
<1>9. \A m \in 0 .. n : Good(m)
  BY <1>2, <1>8 DEF T
<1>10. \E m \in 0 .. n : w[m] = to[x]
  <2> SUFFICES ASSUME \A m \in 0 .. n : w[m] # to[x] PROVE FALSE
    OBVIOUS
  <2>1. w \in [0 .. n -> S]
    BY <1>5, <1>9 DEF Good
  <2>2. IsFiniteSet(0 .. n) /\ Cardinality(0 .. n) = n + 1
    BY <1>2, FS_Interval
  <2>3. Cardinality(S) < Cardinality(0 .. n)
    BY <1>2, <2>2
  <2>4. PICK a \in 0 .. n, b \in 0 .. n : a # b /\ w[a] = w[b]
    BY <2>1, <2>2, <2>3, FS_PigeonHole
  <2>5. \A a2, b2 \in 0 .. n : a2 < b2 => d[w[b2]] < d[w[a2]]
    BY <1>2, <1>9 DEF Good
  <2>6. d[w[a]] \in Nat
    BY <2>1 DEF IsForestBy
  <2>7. a < b \/ b < a
    BY <1>2, <2>4
  <2>8. QED
    BY <2>4, <2>5, <2>6, <2>7
<1>11. QED
  BY <1>1, <1>9, <1>10 DEF Good

(* zfindroot finds the root, and the compression keeps the forest. *)
LEMMA RootIsFound ==
    ASSUME NEW S, IsFiniteSet(S), NEW up, NEW to, IsForest(up, S, to), NEW x \in S
    PROVE  /\ zfindroot(up, x) = to[x]
           /\ IsForest(Compressed(up, x), S, to)
<1>0. PICK d : IsForestBy(up, S, to, d)
  BY DEF IsForest
<1>1. /\ \A y \in Way(up, x) : y \in S /\ to[y] = to[x]
      /\ to[x] \in Way(up, x) /\ to[x] \in S /\ up[to[x]] = to[x]
  <2>1. /\ \A y \in Way(up, x) : y \in S /\ to[y] = to[x]
        /\ to[x] \in Way(up, x)
    BY <1>0, WayIs
  <2>2. to[x] \in S /\ to[to[x]] = to[x]
    BY <1>0 DEF IsForestBy
  <2>3. up[to[x]] = to[x]
    BY <1>0, <2>2 DEF IsForestBy
  <2>4. QED
    BY <2>1, <2>2, <2>3
<1>2. \A y \in Way(up, x) : up[y] = y => y = to[x]
  BY <1>0, <1>1 DEF IsForestBy
<1>3. zfindroot(up, x) = to[x]
  BY <1>1, <1>2 DEF zfindroot
<1> DEFINE c == Compressed(up, x)
<1>4. c = [y \in S |-> IF y \in Way(up, x) THEN to[x] ELSE up[y]]
  BY <1>0, <1>3 DEF Compressed, IsForestBy
<1> HIDE DEF c
<1>5. c \in [S -> S]
  BY <1>0, <1>1, <1>4 DEF IsForestBy
<1>6. ASSUME NEW y \in S
      PROVE  /\ to[c[y]] = to[y] /\ (c[y] = y <=> to[y] = y)
             /\ to[y] # y => d[c[y]] < d[y]
  <2>1. CASE y \in Way(up, x)
    <3>1. c[y] = to[x] /\ to[y] = to[x] /\ to[to[x]] = to[x]
      BY <1>0, <1>1, <1>4, <2>1 DEF IsForestBy
    <3>2. QED
      BY <1>0, <3>1 DEF IsForestBy
  <2>2. CASE y \notin Way(up, x)
    <3>1. c[y] = up[y]
      BY <1>4, <2>2
    <3>2. QED
      BY <1>0, <3>1 DEF IsForestBy
  <2>3. QED
    BY <2>1, <2>2
<1>7. IsForestBy(c, S, to, d)
  BY <1>0, <1>5, <1>6 DEF IsForestBy
<1>8. QED
  BY <1>3, <1>7 DEF IsForest, c

(* Both ends are compressed. *)
LEMMA RootsAreFound ==
    ASSUME NEW S, IsFiniteSet(S), NEW up, NEW to, IsForest(up, S, to), NEW x \in S, NEW y \in S
    PROVE  /\ zfindroot(up, x) = to[x] /\ zfindroot(up, y) = to[y]
           /\ IsForest(Compressed(Compressed(up, x), y), S, to)
BY RootIsFound

LEMMA ForestIs ==
    ASSUME NEW S, NEW up, NEW to, IsForest(up, S, to)
    PROVE  /\ up \in [S -> S] /\ to \in [S -> S]
           /\ \A x \in S : to[to[x]] = to[x]
BY DEF IsForest, IsForestBy

LEMMA ForestOfRoots == \A S : IsForest([x \in S |-> x], S, [x \in S |-> x])
<1> SUFFICES ASSUME NEW S PROVE IsForest([x \in S |-> x], S, [x \in S |-> x])
  OBVIOUS
<1>1. IsForestBy([x \in S |-> x], S, [x \in S |-> x], [x \in S |-> 0])
  BY DEF IsForestBy
<1>2. QED
  BY <1>1 DEF IsForest

(* The tree of the root rq goes under rp. *)
Joined(to, rp, rq) == [x \in DOMAIN to |-> IF to[x] = rq THEN rp ELSE to[x]]

LEMMA TreesAreMerged ==
    ASSUME NEW S, NEW up, NEW to, IsForest(up, S, to),
           NEW rp \in S, NEW rq \in S, to[rp] = rp, to[rq] = rq, rp # rq
    PROVE  IsForest([up EXCEPT ![rq] = rp], S, Joined(to, rp, rq))
<1>1. PICK d : IsForestBy(up, S, to, d)
  BY DEF IsForest
<1> DEFINE u == [up EXCEPT ![rq] = rp]
           t == Joined(to, rp, rq)
           e == [x \in S |-> IF to[x] = rq THEN d[x] + d[rp] + 1 ELSE d[x]]
<1>2. /\ u \in [S -> S] /\ \A x \in S : u[x] = IF x = rq THEN rp ELSE up[x]
      /\ t \in [S -> S] /\ \A x \in S : t[x] = IF to[x] = rq THEN rp ELSE to[x]
      /\ e \in [S -> Nat] /\ \A x \in S : e[x] = IF to[x] = rq THEN d[x] + d[rp] + 1 ELSE d[x]
  <2>1. up \in [S -> S] /\ to \in [S -> S] /\ d \in [S -> Nat]
    BY <1>1 DEF IsForestBy
  <2>2. \A x \in S : d[x] + d[rp] + 1 \in Nat
    BY <2>1
  <2>3. QED
    BY <2>1, <2>2 DEF Joined
<1> HIDE DEF u, t, e
<1>3. ASSUME NEW x \in S
      PROVE  /\ t[u[x]] = t[x] /\ t[t[x]] = t[x]
             /\ (u[x] = x <=> t[x] = x)
             /\ t[x] # x => e[u[x]] < e[x] /\ e[t[x]] < e[x]
  <2>0. /\ to[up[x]] = to[x] /\ to[to[x]] = to[x] /\ (up[x] = x <=> to[x] = x)
        /\ to[x] # x => d[up[x]] < d[x] /\ d[to[x]] < d[x]
        /\ up[x] \in S /\ to[x] \in S /\ d[x] \in Nat /\ d[rp] \in Nat /\ d[up[x]] \in Nat /\ d[to[x]] \in Nat
    BY <1>1 DEF IsForestBy
  <2>1. CASE x = rq
    BY <1>2, <2>0, <2>1
  <2>2. CASE x # rq /\ to[x] = rq
    <3>1. u[x] = up[x] /\ t[x] = rp /\ t[up[x]] = rp /\ t[rp] = rp
      BY <1>2, <2>0, <2>2
    <3>2. e[x] = d[x] + d[rp] + 1 /\ e[up[x]] = d[up[x]] + d[rp] + 1 /\ e[rp] = d[rp]
      BY <1>2, <2>0, <2>2
    <3>3. x # rp /\ up[x] # x
      BY <2>0, <2>2
    <3>4. e[up[x]] < e[x] /\ e[rp] < e[x]
      BY <2>0, <2>2, <3>2
    <3>5. QED
      BY <3>1, <3>3, <3>4
  <2>3. CASE to[x] # rq
    <3>1. x # rq /\ u[x] = up[x] /\ t[x] = to[x] /\ t[up[x]] = to[x] /\ t[to[x]] = to[x]
      BY <1>2, <2>0, <2>3
    <3>2. e[x] = d[x] /\ e[up[x]] = d[up[x]] /\ e[to[x]] = d[to[x]]
      BY <1>2, <2>0, <2>3
    <3>3. QED
      BY <2>0, <3>1, <3>2
  <2>4. QED
    BY <2>1, <2>2, <2>3
<1>4. IsForestBy(u, S, t, e)
  BY <1>2, <1>3 DEF IsForestBy
<1>5. QED
  BY <1>4 DEF IsForest, u, t

-----------------------------------------------------------------------------
(* Arrays and cuts. *)

Array(m, V) == [0 .. m - 1 -> V]

LEMMA SizeIs == ASSUME NEW m \in Nat, NEW V, NEW a \in Array(m, V) PROVE DOMAIN a = 0 .. m - 1 /\ Size(a) = m
<1>1. DOMAIN a = 0 .. m - 1
  BY DEF Array
<1>2. Cardinality(0 .. m - 1) = m
  BY FS_Interval
<1>3. QED
  BY <1>1, <1>2 DEF Size

LEMMA PushIs ==
    ASSUME NEW m \in Nat, NEW W, NEW a \in Array(m, W), NEW v \in W
    PROVE  /\ Push(a, v) \in Array(m + 1, W) /\ Push(a, v)[m] = v
           /\ \A j \in 0 .. m - 1 : Push(a, v)[j] = a[j]
<1>1. Push(a, v) = [j \in 0 .. m |-> IF j = m THEN v ELSE a[j]]
  BY SizeIs DEF Push
<1>2. \A j \in 0 .. m - 1 : a[j] \in W
  BY DEF Array
<1>3. (m + 1) - 1 = m /\ \A j \in 0 .. m : j = m \/ j \in 0 .. m - 1
  OBVIOUS
<1>4. QED
  BY <1>1, <1>2, <1>3 DEF Array

LEMMA IotaIs == \A n \in Nat : Iota(n) \in Array(n, 0 .. n - 1) /\ \A j \in 0 .. n - 1 : Iota(n)[j] = j
BY DEF Iota, Array

LEMMA ReversedAre ==
    ASSUME NEW m \in Nat, NEW ps \in Array(m, 0 .. m - 1), NEW V, NEW ls \in Array(m, V)
    PROVE  /\ ReversedParents(ps) \in Array(m, 0 .. m - 1) /\ ReversedLevels(ls) \in Array(m, V)
           /\ \A k \in 0 .. m - 1 : /\ m - 1 - k \in 0 .. m - 1 /\ m - 1 - (m - 1 - k) = k
                                    /\ ReversedParents(ps)[k] = m - 1 - ps[m - 1 - k]
                                    /\ ReversedLevels(ls)[k] = ls[m - 1 - k]
<1>1. DOMAIN ps = 0 .. m - 1 /\ Size(ps) = m /\ DOMAIN ls = 0 .. m - 1 /\ Size(ls) = m
  BY SizeIs
<1>2. \A k \in 0 .. m - 1 : m - 1 - k \in 0 .. m - 1 /\ m - 1 - (m - 1 - k) = k
  OBVIOUS
<1>3. \A k \in 0 .. m - 1 : ps[k] \in 0 .. m - 1 /\ ls[k] \in V
  BY DEF Array
<1>4. \A k \in 0 .. m - 1 : m - 1 - ps[m - 1 - k] \in 0 .. m - 1 /\ ls[m - 1 - k] \in V
  BY <1>2, <1>3
<1>5. ReversedParents(ps) = [k \in 0 .. m - 1 |-> m - 1 - ps[m - 1 - k]]
  BY <1>1 DEF ReversedParents
<1>6. ReversedLevels(ls) = [k \in 0 .. m - 1 |-> ls[m - 1 - k]]
  BY <1>1 DEF ReversedLevels
<1>7. QED
  BY <1>2, <1>4, <1>5, <1>6 DEF Array

(* Where the parents come first. *)
LEMMA CutNodeIs ==
    ASSUME NEW m \in Nat, NEW ps \in Array(m, 0 .. m - 1), NEW ls, NEW l
    PROVE  /\ CutNode(ps, ls, l) \in Array(m, 0 .. m - 1)
           /\ \A k \in 0 .. m - 1 :
                CutNode(ps, ls, l)[k] =
                    IF ps[k] >= k \/ ls[ps[k]] > l THEN k ELSE CutNode(ps, ls, l)[ps[k]]
<1> DEFINE A == 0 .. m - 1
           stays(k) == ps[k] >= k \/ ls[ps[k]] > l
           Is(u) == u = [k \in DOMAIN ps |-> IF stays(k) THEN k ELSE u[ps[k]]]
           h == [e \in A \X [A -> A] |-> IF stays(e[1]) THEN e[1] ELSE e[2][ps[e[1]]]]
           up == CHOOSE u : Is(u)
<1>1. CutNode(ps, ls, l) = up
  BY DEF CutNode
<1>2. DOMAIN ps = A /\ \A k \in A : ps[k] \in A
  BY DEF Array
<1>3. \A k \in A : ~stays(k) => ps[k] \in 0 .. k - 1
  BY <1>2
<1> HIDE DEF stays
<1>4. \A k \in A, u \in [A -> A] : /\ h[<<k, u>>] = (IF stays(k) THEN k ELSE u[ps[k]])
                                   /\ h[<<k, u>>] \in A
  BY <1>2
<1>5. \E u \in [A -> A] : Is(u)
  <2>1. CASE m = 0
    <3>1. A = {} /\ DOMAIN ps = {}
      BY <1>2, <2>1
    <3> DEFINE u == [k \in A |-> k]
    <3>2. u \in [A -> A] /\ Is(u)
      BY <3>1
    <3>3. QED
      BY <3>2
  <2>2. CASE m # 0
    <3>1. A # {}
      BY <2>2
    <3>2. \A k \in A, u, v \in [A -> A] : (\A j \in 0 .. k - 1 : u[j] = v[j]) => h[<<k, u>>] = h[<<k, v>>]
      BY <1>3, <1>4
    <3> DEFINE V == A
    <3> HIDE DEF h, V
    <3>3. V # {} /\ \A k \in 0 .. m - 1, u \in [0 .. m - 1 -> V] : h[<<k, u>>] \in V
      BY <1>4, <3>1 DEF V
    <3>4. \A k \in 0 .. m - 1, u, v \in [0 .. m - 1 -> V] :
              (\A j \in 0 .. k - 1 : u[j] = v[j]) => h[<<k, u>>] = h[<<k, v>>]
      BY <3>2 DEF V
    <3>5. \E u : Follows(u, h, m, V)
      <4>1. IsCourse(h, m, V) /\ V # {}
        BY <3>3, <3>4 DEF IsCourse
      <4>2. QED
        BY <4>1, CourseExists
    <3>6. PICK u \in [A -> A] : \A k \in A : u[k] = h[<<k, u>>]
      BY <3>5 DEF V, Follows
    <3>7. Is(u)
      BY <1>2, <1>4, <3>6
    <3>8. QED
      BY <3>7
  <2>3. QED
    BY <2>1, <2>2
<1>6. Is(up)
  <2> HIDE DEF Is
  <2>1. QED
    BY <1>5
<1> HIDE DEF up
<1>7. up = [k \in A |-> IF stays(k) THEN k ELSE up[ps[k]]]
  BY <1>2, <1>6
<1>8. \A k \in A : up[k] = IF stays(k) THEN k ELSE up[ps[k]]
  BY <1>7
<1> DEFINE P == {k \in A : up[k] \in A}
<1>9. \A k \in 0 .. m - 1 : (\A j \in 0 .. k - 1 : j \in P) => k \in P
  BY <1>3, <1>8
<1> HIDE DEF P
<1>10. \A k \in 0 .. m - 1 : k \in P
  BY <1>9, CourseInduction
<1>11. up \in [A -> A]
  <2>1. DOMAIN up = A /\ up = [k \in A |-> up[k]]
    BY <1>7
  <2>2. \A k \in A : up[k] \in A
    BY <1>10 DEF P
  <2>3. QED
    BY <2>1, <2>2
<1>12. QED
  BY <1>1, <1>8, <1>11 DEF Array, stays

(* While the sets merge, parents come last: the cut at l is the function c. *)
IsCut(c, ps, ls, l, m) ==
    /\ c \in Array(m, 0 .. m - 1)
    /\ \A j \in 0 .. m - 1 : c[j] = IF ps[j] = j \/ ls[ps[j]] > l THEN j ELSE c[ps[j]]

(* The arrays of m nodes, whose levels are in V. *)
Nodes(ps, ls, m, V) ==
    /\ m \in Nat /\ ps \in Array(m, 0 .. m - 1) /\ ls \in Array(m, V)
    /\ \A j \in 0 .. m - 1 : ps[j] >= j

LEMMA CutOfReversed ==
    ASSUME NEW ps, NEW ls, NEW m, NEW V, Nodes(ps, ls, m, V), NEW l,
           NEW c, c \in Array(m, 0 .. m - 1),
           \A k \in 0 .. m - 1 : c[k] = m - 1 - CutNode(ReversedParents(ps), ReversedLevels(ls), l)[m - 1 - k]
    PROVE  IsCut(c, ps, ls, l, m)
<1> DEFINE rp == ReversedParents(ps)
           rl == ReversedLevels(ls)
           u == CutNode(rp, rl, l)
<1>1. /\ m \in Nat /\ rp \in Array(m, 0 .. m - 1) /\ rl \in Array(m, V)
      /\ \A k \in 0 .. m - 1 : /\ m - 1 - k \in 0 .. m - 1 /\ m - 1 - (m - 1 - k) = k
                               /\ rp[k] = m - 1 - ps[m - 1 - k]
                               /\ rl[k] = ls[m - 1 - k]
  <2>1. m \in Nat /\ ps \in Array(m, 0 .. m - 1) /\ ls \in Array(m, V)
    BY DEF Nodes
  <2>2. QED
    BY <2>1, ReversedAre
<1> HIDE DEF rp, rl
<1>2. /\ u \in Array(m, 0 .. m - 1)
      /\ \A k \in 0 .. m - 1 : u[k] = IF rp[k] >= k \/ rl[rp[k]] > l THEN k ELSE u[rp[k]]
  BY <1>1, CutNodeIs
<1> HIDE DEF u
<1>3. \A k \in 0 .. m - 1 : c[k] = m - 1 - u[m - 1 - k]
  BY DEF u, rp, rl
<1>4. \A j \in 0 .. m - 1 : ps[j] \in 0 .. m - 1 /\ ps[j] >= j
  BY DEF Nodes, Array
<1>5. ASSUME NEW j \in 0 .. m - 1 PROVE c[j] = IF ps[j] = j \/ ls[ps[j]] > l THEN j ELSE c[ps[j]]
  <2> DEFINE k == m - 1 - j
  <2>1. k \in 0 .. m - 1 /\ m - 1 - k = j /\ c[j] = m - 1 - u[k]
    BY <1>1, <1>3
  <2>2. rp[k] = m - 1 - ps[j] /\ rp[k] \in 0 .. m - 1
    BY <1>1, <1>4, <2>1
  <2>3. rl[rp[k]] = ls[ps[j]]
    BY <1>1, <1>4, <2>2
  <2>4. u[k] = IF rp[k] >= k \/ rl[rp[k]] > l THEN k ELSE u[rp[k]]
    BY <1>2, <2>1
  <2>5. rp[k] >= k <=> ps[j] = j
    BY <1>1, <1>4, <2>1, <2>2
  <2>6. c[ps[j]] = m - 1 - u[rp[k]]
    BY <1>3, <1>4, <2>2
  <2> HIDE DEF k
  <2>7. QED
    BY <1>1, <2>1, <2>3, <2>4, <2>5, <2>6
<1>6. QED
  BY <1>5 DEF IsCut

LEMMA CutExists ==
    ASSUME NEW ps, NEW ls, NEW m, NEW V, Nodes(ps, ls, m, V), NEW l
    PROVE  \E c : /\ IsCut(c, ps, ls, l, m)
                  /\ \A k \in 0 .. m - 1 :
                       CutNode(ReversedParents(ps), ReversedLevels(ls), l)[m - 1 - k] = m - 1 - c[k]
<1> DEFINE u == CutNode(ReversedParents(ps), ReversedLevels(ls), l)
           c == [k \in 0 .. m - 1 |-> m - 1 - u[m - 1 - k]]
<1>1. m \in Nat /\ ReversedParents(ps) \in Array(m, 0 .. m - 1)
  <2>1. m \in Nat /\ ps \in Array(m, 0 .. m - 1) /\ ls \in Array(m, V)
    BY DEF Nodes
  <2>2. QED
    BY <2>1, ReversedAre
<1>2. u \in Array(m, 0 .. m - 1)
  BY <1>1, CutNodeIs
<1> HIDE DEF u
<1>3. \A k \in 0 .. m - 1 : u[m - 1 - k] \in 0 .. m - 1 /\ m - 1 - u[m - 1 - k] \in 0 .. m - 1
  <2>1. \A k \in 0 .. m - 1 : m - 1 - k \in 0 .. m - 1
    BY <1>1
  <2>2. \A k \in 0 .. m - 1 : u[k] \in 0 .. m - 1
    BY <1>2 DEF Array
  <2>3. QED
    BY <1>1, <2>1, <2>2
<1>4. c \in Array(m, 0 .. m - 1) /\ \A k \in 0 .. m - 1 : c[k] = m - 1 - u[m - 1 - k]
  BY <1>1, <1>3 DEF Array
<1> HIDE DEF c
<1>5. IsCut(c, ps, ls, l, m)
  BY <1>4, CutOfReversed DEF u
<1>6. \A k \in 0 .. m - 1 : u[m - 1 - k] = m - 1 - c[k]
  BY <1>1, <1>3, <1>4
<1>7. QED
  BY <1>5, <1>6 DEF u

LEMMA CutIsUnique ==
    ASSUME NEW ps, NEW ls, NEW m, NEW V, Nodes(ps, ls, m, V), NEW l,
           NEW a, IsCut(a, ps, ls, l, m), NEW b, IsCut(b, ps, ls, l, m)
    PROVE  a = b
<1> DEFINE P == {k \in 0 .. m - 1 : a[k] = b[k]}
<1>1. m \in Nat /\ \A j \in 0 .. m - 1 : ps[j] \in 0 .. m - 1 /\ ps[j] >= j
  BY DEF Nodes, Array
<1>2. ASSUME NEW k \in 0 .. m - 1, \A j \in k + 1 .. m - 1 : j \in P PROVE k \in P
  <2>1. a[k] = (IF ps[k] = k \/ ls[ps[k]] > l THEN k ELSE a[ps[k]])
    BY DEF IsCut
  <2>2. b[k] = (IF ps[k] = k \/ ls[ps[k]] > l THEN k ELSE b[ps[k]])
    BY DEF IsCut
  <2>3. ps[k] = k \/ ps[k] \in k + 1 .. m - 1
    BY <1>1
  <2>4. QED
    BY <1>2, <2>1, <2>2, <2>3
<1> HIDE DEF P
<1>3. \A k \in 0 .. m - 1 : k \in P
  BY <1>1, <1>2, DownwardInduction
<1>4. \A k \in 0 .. m - 1 : a[k] = b[k]
  BY <1>3 DEF P
<1>5. a = [k \in 0 .. m - 1 |-> a[k]] /\ b = [k \in 0 .. m - 1 |-> b[k]]
  BY DEF IsCut, Array
<1>6. [k \in 0 .. m - 1 |-> a[k]] = [k \in 0 .. m - 1 |-> b[k]]
  BY <1>4
<1>7. QED
  BY <1>5, <1>6

-----------------------------------------------------------------------------
(* The n leaves, the m nodes, the forest of the sets and the links. *)

Ordered(ls, m) == \A j, k \in 0 .. m - 1 : j <= k => ls[j] <= ls[k]

IsHierarchy(zp, lk, ps, ls, n, m, to) ==
    /\ n \in Nat /\ n <= m
    /\ Nodes(ps, ls, m, Weight) /\ Ordered(ls, m)
    /\ IsForest(zp, 0 .. n - 1, to)
    /\ lk \in Array(n, 0 .. m - 1)
    /\ \A r, s \in 0 .. n - 1 : to[r] = r /\ to[s] = s /\ lk[r] = lk[s] => r = s
    /\ \A r \in 0 .. n - 1 : to[r] = r => ps[lk[r]] = lk[r]
    /\ \A j \in 0 .. m - 1 : ps[j] = j => \E r \in 0 .. n - 1 : to[r] = r /\ lk[r] = j
    /\ \A c : IsCut(c, ps, ls, NLevels, m) => \A j \in 0 .. n - 1 : c[j] = lk[to[j]]

(* With the node nd, new or not, of the level w, above the nodes a and b. *)
Grown(ps, ls, m, p1, l1, m1, a, b, nd, w) ==
    /\ m1 \in Nat /\ m <= m1 /\ nd \in 0 .. m1 - 1
    /\ p1 \in Array(m1, 0 .. m1 - 1) /\ l1 \in Array(m1, Weight)
    /\ \A j \in 0 .. m - 1 : p1[j] = ps[j] /\ l1[j] = ls[j]
    /\ \A j \in 0 .. m1 - 1 : j < m \/ j = nd
    /\ \A j \in 0 .. m1 - 1 : l1[j] <= w
    /\ Ordered(l1, m1)
    /\ l1[nd] = w /\ p1[nd] = nd
    /\ a <= nd /\ b <= nd
    /\ nd < m => nd \in {a, b}

LEMMA NodeIsReused ==
    ASSUME NEW ps, NEW ls, NEW m, Nodes(ps, ls, m, Weight), Ordered(ls, m),
           NEW w \in Weight, \A j \in 0 .. m - 1 : ls[j] <= w,
           NEW a \in 0 .. m - 1, NEW b \in 0 .. m - 1, NEW nd \in {a, b},
           a <= nd, b <= nd, ls[nd] = w, ps[nd] = nd
    PROVE  Grown(ps, ls, m, ps, ls, m, a, b, nd, w)
<1>1. m \in Nat /\ ps \in Array(m, 0 .. m - 1) /\ ls \in Array(m, Weight)
  BY DEF Nodes
<1>2. \A j \in 0 .. m - 1 : j < m
  BY <1>1
<1>3. QED
  BY <1>1, <1>2 DEF Grown

LEMMA NodeIsCreated ==
    ASSUME NEW ps, NEW ls, NEW m, Nodes(ps, ls, m, Weight), Ordered(ls, m),
           NEW w \in Weight, \A j \in 0 .. m - 1 : ls[j] <= w,
           NEW a \in 0 .. m - 1, NEW b \in 0 .. m - 1
    PROVE  Grown(ps, ls, m, Push(ps, m), Push(ls, w), m + 1, a, b, m, w)
<1>1. m \in Nat /\ ps \in Array(m, 0 .. m - 1) /\ ls \in Array(m, Weight)
  BY DEF Nodes
<1> DEFINE p1 == Push(ps, m)
           l1 == Push(ls, w)
           m1 == m + 1
<1>2. m1 \in Nat /\ m <= m1 /\ m \in 0 .. m1 - 1 /\ 0 .. m - 1 \subseteq 0 .. m1 - 1
  BY <1>1
<1>3. /\ p1 \in Array(m1, 0 .. m1 - 1) /\ p1[m] = m /\ \A j \in 0 .. m - 1 : p1[j] = ps[j]
  <2> DEFINE W == 0 .. m1 - 1
  <2>1. m \in W /\ ps \in Array(m, W)
    BY <1>1, <1>2 DEF Array
  <2> HIDE DEF W
  <2>2. p1 \in Array(m + 1, W) /\ p1[m] = m /\ \A j \in 0 .. m - 1 : p1[j] = ps[j]
    BY <1>1, <2>1, PushIs
  <2>3. QED
    BY <2>2 DEF W
<1>4. /\ l1 \in Array(m1, Weight) /\ l1[m] = w /\ \A j \in 0 .. m - 1 : l1[j] = ls[j]
  BY <1>1, PushIs
<1>5. \A j \in 0 .. m1 - 1 : j \in 0 .. m - 1 \/ j = m
  BY <1>1
<1> HIDE DEF p1, l1
<1>6. \A j \in 0 .. m1 - 1 : l1[j] <= w
  <2>1. w <= w
    BY AlphaTreeAssumption DEF Weight
  <2>2. QED
    BY <1>4, <1>5, <2>1
<1>7. Ordered(l1, m1)
  <2> SUFFICES ASSUME NEW j \in 0 .. m1 - 1, NEW k \in 0 .. m1 - 1, j <= k PROVE l1[j] <= l1[k]
    BY DEF Ordered
  <2>1. CASE k = m
    BY <1>4, <1>6, <2>1
  <2>2. CASE k # m
    <3>1. k \in 0 .. m - 1 /\ j \in 0 .. m - 1
      BY <1>1, <1>5, <2>2
    <3>2. QED
      BY <1>4, <3>1 DEF Ordered
  <2>3. QED
    BY <2>1, <2>2
<1>8. a <= m /\ b <= m /\ ~(m < m) /\ \A j \in 0 .. m1 - 1 : j < m \/ j = m
  BY <1>1
<1>9. Grown(ps, ls, m, p1, l1, m1, a, b, m, w)
  BY <1>2, <1>3, <1>4, <1>6, <1>7, <1>8 DEF Grown
<1>10. QED
  BY <1>9 DEF p1, l1

Under(ps, a, b, nd) == [ps EXCEPT ![a] = nd, ![b] = nd]

(* Two trees go under nd: the cuts below w do not change. *)
MergedCut(c, l, w, a, b, nd, m, m1) ==
    [j \in 0 .. m1 - 1 |-> IF j \notin 0 .. m - 1 THEN nd
                           ELSE IF l < w THEN c[j]
                           ELSE IF c[j] \in {a, b} THEN nd ELSE c[j]]

LEMMA CutsMerge ==
    ASSUME NEW ps, NEW ls, NEW m, Nodes(ps, ls, m, Weight),
           NEW p1, NEW l1, NEW m1, NEW w \in Weight, NEW nd,
           NEW a \in 0 .. m - 1, NEW b \in 0 .. m - 1, ps[a] = a, ps[b] = b,
           Grown(ps, ls, m, p1, l1, m1, a, b, nd, w),
           NEW l \in 0 .. NLevels, NEW c, IsCut(c, ps, ls, l, m)
    PROVE  /\ Nodes(Under(p1, a, b, nd), l1, m1, Weight)
           /\ IsCut(MergedCut(c, l, w, a, b, nd, m, m1), Under(p1, a, b, nd), l1, l, m1)
<1> DEFINE p2 == Under(p1, a, b, nd)
           c2 == MergedCut(c, l, w, a, b, nd, m, m1)
<1>1. /\ m \in Nat /\ m1 \in Nat /\ m <= m1 /\ nd \in 0 .. m1 - 1
      /\ \A j \in 0 .. m - 1 : ps[j] \in 0 .. m - 1 /\ ps[j] >= j /\ ls[j] \in Weight /\ c[j] \in 0 .. m - 1
      /\ \A j \in 0 .. m - 1 : j \in 0 .. m1 - 1 /\ p1[j] = ps[j] /\ l1[j] = ls[j]
      /\ \A j \in 0 .. m1 - 1 : j \in 0 .. m - 1 \/ j = nd
      /\ \A j \in 0 .. m1 - 1 : l1[j] <= w /\ l1[j] \in Weight /\ p1[j] \in 0 .. m1 - 1
      /\ l1[nd] = w /\ p1[nd] = nd /\ a <= nd /\ b <= nd /\ (nd \in 0 .. m - 1 => nd \in {a, b})
      /\ p1 \in Array(m1, 0 .. m1 - 1) /\ l1 \in Array(m1, Weight)
  <2>1. /\ m \in Nat /\ ps \in [0 .. m - 1 -> 0 .. m - 1] /\ ls \in [0 .. m - 1 -> Weight]
        /\ \A j \in 0 .. m - 1 : ps[j] >= j
    BY DEF Nodes, Array
  <2>2. c \in [0 .. m - 1 -> 0 .. m - 1]
    BY DEF IsCut, Array
  <2>3. /\ m1 \in Nat /\ m <= m1 /\ nd \in 0 .. m1 - 1
        /\ p1 \in Array(m1, 0 .. m1 - 1) /\ l1 \in Array(m1, Weight)
        /\ \A j \in 0 .. m - 1 : p1[j] = ps[j] /\ l1[j] = ls[j]
        /\ \A j \in 0 .. m1 - 1 : j < m \/ j = nd
        /\ \A j \in 0 .. m1 - 1 : l1[j] <= w
        /\ l1[nd] = w /\ p1[nd] = nd /\ a <= nd /\ b <= nd /\ (nd < m => nd \in {a, b})
    BY DEF Grown
  <2>4. \A j \in 0 .. m1 - 1 : l1[j] \in Weight /\ p1[j] \in 0 .. m1 - 1
    BY <2>3 DEF Array
  <2>5. \A j \in 0 .. m - 1 : j \in 0 .. m1 - 1
    BY <2>1, <2>3
  <2>6. (\A j \in 0 .. m1 - 1 : j \in 0 .. m - 1 \/ j = nd) /\ (nd \in 0 .. m - 1 => nd \in {a, b})
    <3>1. m \in Nat /\ m1 \in Nat /\ (nd \in 0 .. m - 1 => nd < m)
      BY <2>1, <2>3
    <3>2. \A j \in 0 .. m1 - 1 : j < m => j \in 0 .. m - 1
      BY <3>1
    <3>3. QED
      BY <2>3, <3>1, <3>2
  <2>7. QED
    BY <2>1, <2>2, <2>3, <2>4, <2>5, <2>6
<1>2. /\ p2 \in Array(m1, 0 .. m1 - 1)
      /\ \A j \in 0 .. m1 - 1 : p2[j] = IF j \in {a, b} THEN nd ELSE p1[j]
  BY <1>1 DEF Under, Array
<1>3. \A j \in 0 .. m1 - 1 : c2[j] = IF j \notin 0 .. m - 1 THEN nd
                                     ELSE IF l < w THEN c[j]
                                     ELSE IF c[j] \in {a, b} THEN nd ELSE c[j]
  BY DEF MergedCut
<1>4. c2 \in Array(m1, 0 .. m1 - 1)
  <2>1. \A j \in 0 .. m - 1 : c[j] \in 0 .. m1 - 1
    BY <1>1
  <2>2. QED
    BY <1>1, <2>1 DEF MergedCut, Array
<1> HIDE DEF p2, c2
<1>5. \A j \in 0 .. m1 - 1 : p2[j] >= j
  <2> SUFFICES ASSUME NEW j \in 0 .. m1 - 1 PROVE p2[j] >= j
    OBVIOUS
  <2>1. CASE j \in {a, b}
    BY <1>1, <1>2, <2>1
  <2>2. CASE j = nd
    BY <1>1, <1>2, <2>2
  <2>3. CASE j \notin {a, b} /\ j # nd
    BY <1>1, <1>2, <2>3
  <2>4. QED
    BY <2>1, <2>2, <2>3
<1>6. \A j \in 0 .. m - 1 : c[j] = IF ps[j] = j \/ ls[ps[j]] > l THEN j ELSE c[ps[j]]
  BY DEF IsCut
<1>7. w \in Nat /\ l \in Nat /\ \A j \in 0 .. m1 - 1 : l1[j] \in Nat
  BY <1>1, AlphaTreeAssumption DEF Weight
<1>8. c[a] = a /\ c[b] = b
  BY <1>6
<1>9. c2[nd] = nd
  BY <1>1, <1>3, <1>8
<1>10. ASSUME NEW j \in 0 .. m1 - 1 PROVE c2[j] = IF p2[j] = j \/ l1[p2[j]] > l THEN j ELSE c2[p2[j]]
  <2>1. CASE j = nd
    <3>1. p2[j] = j
      BY <1>1, <1>2, <2>1
    <3>2. QED
      BY <1>9, <2>1, <3>1
  <2>2. CASE j # nd /\ j \in {a, b}
    <3>1. p2[j] = nd /\ l1[p2[j]] = w /\ j \in 0 .. m - 1 /\ c[j] = j
      BY <1>1, <1>2, <1>8, <2>2
    <3>2. l < w => c2[j] = j
      BY <1>3, <3>1
    <3>3. ~(l < w) => c2[j] = nd
      BY <1>3, <2>2, <3>1
    <3>4. w > l <=> l < w
      BY <1>7
    <3>5. QED
      BY <1>9, <2>2, <3>1, <3>2, <3>3, <3>4
  <2>3. CASE j # nd /\ j \notin {a, b}
    <3>1. j \in 0 .. m - 1 /\ p2[j] = ps[j]
      BY <1>1, <1>2, <2>3
    <3>2. ps[j] \in 0 .. m - 1 /\ ps[j] \in 0 .. m1 - 1 /\ l1[ps[j]] = ls[ps[j]]
      BY <1>1, <3>1
    <3>3. CASE ps[j] = j \/ ls[ps[j]] > l
      <4>1. c[j] = j
        BY <1>6, <3>1, <3>3
      <4>2. c2[j] = j
        BY <1>3, <2>3, <3>1, <4>1
      <4>3. QED
        BY <3>1, <3>2, <3>3, <4>2
    <3>4. CASE ~(ps[j] = j \/ ls[ps[j]] > l)
      <4>1. c[j] = c[ps[j]]
        BY <1>6, <3>1, <3>4
      <4>2. c2[j] = c2[ps[j]]
        BY <1>3, <3>1, <3>2, <4>1
      <4>3. QED
        BY <3>1, <3>2, <3>4, <4>2
    <3>5. QED
      BY <3>3, <3>4
  <2>4. QED
    BY <2>1, <2>2, <2>3
<1>11. Nodes(p2, l1, m1, Weight)
  BY <1>1, <1>2, <1>5 DEF Nodes
<1>12. IsCut(c2, p2, l1, l, m1)
  BY <1>4, <1>10 DEF IsCut
<1>13. QED
  BY <1>11, <1>12 DEF p2, c2

LEMMA SetsMerge ==
    ASSUME NEW zp, NEW lk, NEW ps, NEW ls, NEW n, NEW m, NEW to, IsHierarchy(zp, lk, ps, ls, n, m, to),
           NEW rp \in 0 .. n - 1, NEW rq \in 0 .. n - 1, to[rp] = rp, to[rq] = rq, rp # rq,
           NEW p1, NEW l1, NEW m1, NEW w \in Weight, NEW nd,
           Grown(ps, ls, m, p1, l1, m1, lk[rp], lk[rq], nd, w),
           NEW z2, IsForest(z2, 0 .. n - 1, Joined(to, rp, rq))
    PROVE  IsHierarchy(z2, [lk EXCEPT ![rp] = nd], Under(p1, lk[rp], lk[rq], nd), l1, n, m1, Joined(to, rp, rq))
<1> DEFINE a == lk[rp]
           b == lk[rq]
           p2 == Under(p1, a, b, nd)
           k2 == [lk EXCEPT ![rp] = nd]
           t2 == Joined(to, rp, rq)
           S == 0 .. n - 1
<1>1. /\ n \in Nat /\ n <= m /\ Nodes(ps, ls, m, Weight)
      /\ to \in [S -> S] /\ \A x \in S : to[to[x]] = to[x]
      /\ \A r \in S : lk[r] \in 0 .. m - 1
      /\ \A r, s \in S : to[r] = r /\ to[s] = s /\ lk[r] = lk[s] => r = s
      /\ \A r \in S : to[r] = r => ps[lk[r]] = lk[r]
      /\ \A j \in 0 .. m - 1 : ps[j] = j => \E r \in S : to[r] = r /\ lk[r] = j
      /\ lk \in [S -> 0 .. m - 1]
  <2>1. IsForest(zp, S, to) /\ lk \in [S -> 0 .. m - 1]
    BY DEF IsHierarchy, Array
  <2> HIDE DEF S
  <2>2. to \in [S -> S] /\ \A x \in S : to[to[x]] = to[x]
    BY <2>1, ForestIs
  <2>3. QED
    BY <2>1, <2>2 DEF IsHierarchy, S
<1>2. a \in 0 .. m - 1 /\ b \in 0 .. m - 1 /\ ps[a] = a /\ ps[b] = b
  BY <1>1
<1>3. /\ m \in Nat /\ m1 \in Nat /\ m <= m1 /\ nd \in 0 .. m1 - 1
      /\ \A j \in 0 .. m - 1 : p1[j] = ps[j] /\ j \in 0 .. m1 - 1
      /\ \A j \in 0 .. m1 - 1 : j \in 0 .. m - 1 \/ j = nd
      /\ p1[nd] = nd /\ (nd \in 0 .. m - 1 => nd \in {a, b})
      /\ p1 \in Array(m1, 0 .. m1 - 1) /\ Ordered(l1, m1)
  <2>1. m \in Nat
    BY <1>1 DEF Nodes
  <2>2. /\ m1 \in Nat /\ m <= m1 /\ nd \in 0 .. m1 - 1
        /\ p1 \in Array(m1, 0 .. m1 - 1) /\ Ordered(l1, m1)
        /\ \A j \in 0 .. m - 1 : p1[j] = ps[j]
        /\ \A j \in 0 .. m1 - 1 : j < m \/ j = nd
        /\ p1[nd] = nd /\ (nd < m => nd \in {a, b})
    BY DEF Grown
  <2>3. \A j \in 0 .. m - 1 : j \in 0 .. m1 - 1
    BY <2>1, <2>2
  <2>4. (\A j \in 0 .. m1 - 1 : j \in 0 .. m - 1 \/ j = nd) /\ (nd \in 0 .. m - 1 => nd \in {a, b})
    <3>1. m \in Nat /\ m1 \in Nat /\ (nd \in 0 .. m - 1 => nd < m)
      BY <2>1, <2>2
    <3>2. \A j \in 0 .. m1 - 1 : j < m => j \in 0 .. m - 1
      BY <3>1
    <3>3. QED
      BY <2>2, <3>1, <3>2
  <2>5. QED
    BY <2>1, <2>2, <2>3, <2>4
<1>4. \A j \in 0 .. m1 - 1 : p2[j] = IF j \in {a, b} THEN nd ELSE p1[j]
  BY <1>2, <1>3 DEF Under, Array
<1>5. /\ t2 \in [S -> S]
      /\ \A x \in S : t2[x] = IF to[x] = rq THEN rp ELSE to[x]
  BY <1>1 DEF Joined
<1>6. k2 \in Array(n, 0 .. m1 - 1) /\ \A r \in S : k2[r] = IF r = rp THEN nd ELSE lk[r]
  <2>1. \A r \in S : lk[r] \in 0 .. m1 - 1
    BY <1>1, <1>3
  <2>2. QED
    BY <1>1, <1>3, <2>1 DEF Array
<1> HIDE DEF a, b, p2, k2, t2
<1>7. a # b /\ \A r \in S : to[r] = r /\ r # rp /\ r # rq => lk[r] # a /\ lk[r] # b /\ lk[r] # nd
  BY <1>1, <1>3 DEF a, b
<1>8. \A r \in S : t2[r] = r <=> to[r] = r /\ r # rq
  BY <1>1, <1>5
<1>9. ASSUME NEW r \in S, NEW s \in S, t2[r] = r, t2[s] = s, k2[r] = k2[s] PROVE r = s
  <2>1. to[r] = r /\ r # rq /\ to[s] = s /\ s # rq
    BY <1>8, <1>9
  <2>2. CASE r = rp \/ s = rp
    BY <1>6, <1>7, <1>9, <2>1, <2>2
  <2>3. CASE r # rp /\ s # rp
    <3>1. lk[r] = lk[s]
      BY <1>6, <1>9, <2>3
    <3>2. QED
      BY <1>1, <2>1, <3>1
  <2>4. QED
    BY <2>2, <2>3
<1>10. ASSUME NEW r \in S, t2[r] = r PROVE p2[k2[r]] = k2[r]
  <2>1. CASE r = rp
    BY <1>3, <1>4, <1>6, <2>1
  <2>2. CASE r # rp
    <3>1. k2[r] = lk[r] /\ lk[r] \notin {a, b} /\ ps[lk[r]] = lk[r] /\ lk[r] \in 0 .. m - 1
      BY <1>1, <1>6, <1>7, <1>8, <1>10, <2>2
    <3>2. QED
      BY <1>3, <1>4, <3>1
  <2>3. QED
    BY <2>1, <2>2
<1>11. ASSUME NEW j \in 0 .. m1 - 1, p2[j] = j PROVE \E r \in S : t2[r] = r /\ k2[r] = j
  <2>1. t2[rp] = rp /\ k2[rp] = nd
    BY <1>6, <1>8
  <2>2. CASE j = nd
    BY <2>1, <2>2
  <2>3. CASE j # nd
    <3>1. j \in 0 .. m - 1 /\ j \notin {a, b} /\ ps[j] = j
      BY <1>3, <1>4, <1>11, <2>3
    <3>2. PICK r \in S : to[r] = r /\ lk[r] = j
      BY <1>1, <3>1
    <3>3. r # rp /\ r # rq
      BY <3>1, <3>2 DEF a, b
    <3>4. t2[r] = r /\ k2[r] = j
      BY <1>6, <1>8, <3>2, <3>3
    <3>5. QED
      BY <3>4
  <2>4. QED
    BY <2>2, <2>3
<1>12. ASSUME NEW c2, IsCut(c2, p2, l1, NLevels, m1) PROVE \A j \in S : c2[j] = k2[t2[j]]
  <2>1. NLevels \in 0 .. NLevels /\ w < NLevels /\ w \in Nat
    BY AlphaTreeAssumption DEF Weight
  <2>2. PICK c : IsCut(c, ps, ls, NLevels, m)
    BY <1>1, CutExists
  <2>3. \A j \in S : c[j] = lk[to[j]]
    BY <2>2 DEF IsHierarchy
  <2> DEFINE d == MergedCut(c, NLevels, w, a, b, nd, m, m1)
  <2>4. Nodes(p2, l1, m1, Weight) /\ IsCut(d, p2, l1, NLevels, m1)
    BY <1>1, <1>2, <2>1, <2>2, CutsMerge DEF p2, a, b
  <2>5. c2 = d
    BY <1>12, <2>4, CutIsUnique
  <2>6. \A j \in 0 .. m - 1 : d[j] = IF c[j] \in {a, b} THEN nd ELSE c[j]
    BY <1>3, <2>1 DEF MergedCut
  <2> HIDE DEF d
  <2>7. ASSUME NEW j \in S PROVE c2[j] = k2[t2[j]]
    <3>1. j \in 0 .. m - 1 /\ to[j] \in S /\ to[to[j]] = to[j]
      BY <1>1, <1>3
    <3>2. c2[j] = IF lk[to[j]] \in {a, b} THEN nd ELSE lk[to[j]]
      BY <2>3, <2>5, <2>6, <3>1
    <3>3. lk[to[j]] \in {a, b} <=> to[j] \in {rp, rq}
      BY <1>7, <3>1 DEF a, b
    <3>4. to[j] \in {rp, rq} => t2[j] = rp
      BY <1>5
    <3>5. to[j] \notin {rp, rq} => t2[j] = to[j] /\ k2[to[j]] = lk[to[j]]
      BY <1>5, <1>6, <3>1
    <3>6. k2[rp] = nd
      BY <1>6
    <3>7. QED
      BY <3>2, <3>3, <3>4, <3>5, <3>6
  <2>8. QED
    BY <2>7
<1>13. Nodes(p2, l1, m1, Weight)
  <2>1. PICK c : IsCut(c, ps, ls, NLevels, m)
    BY <1>1, CutExists
  <2>2. NLevels \in 0 .. NLevels
    BY AlphaTreeAssumption
  <2>3. QED
    BY <1>1, <1>2, <2>1, <2>2, CutsMerge DEF p2, a, b
<1>14. n <= m1
  BY <1>1, <1>3
<1>15. IsHierarchy(z2, k2, p2, l1, n, m1, t2)
  BY <1>1, <1>3, <1>6, <1>9, <1>10, <1>11, <1>12, <1>13, <1>14 DEF IsHierarchy, t2
<1>16. QED
  BY <1>15 DEF p2, k2, t2, a, b

-----------------------------------------------------------------------------
(* What the regions of a tree are to a graph: reg separates the points as   *)
(* little as the edges of G ask, and as much as those of H allow.  Where    *)
(* they are the same edges, the regions are the components.                 *)

Closed(T, H) == \A e \in H : e.p \in T <=> e.q \in T

Separates(reg, G, H) ==
    /\ \A e \in G : reg[e.p] = reg[e.q]
    /\ \A T \in SUBSET Point : Closed(T, H) =>
           \A x, y \in Point : reg[x] = reg[y] /\ x \in T => y \in T

Light(G, l) == {e \in G : e.w <= l}

LEMMA SeparatesAtFirst ==
    ASSUME NEW reg, \A x, y \in Point : reg[x] = reg[y] => x = y, NEW H
    PROVE  Separates(reg, {}, H)
BY DEF Separates

LEMMA SeparatesStill ==
    ASSUME NEW reg, NEW G, NEW H, G \subseteq GraphEdges, Separates(reg, G, H),
           NEW reg2, \A x, y \in Point : reg2[x] = reg2[y] <=> reg[x] = reg[y],
           NEW G2, G2 \subseteq G, NEW H2, H \subseteq H2
    PROVE  Separates(reg2, G2, H2)
<1>1. \A e \in G2 : e \in G /\ e.p \in Point /\ e.q \in Point
  BY DEF GraphEdges
<1>2. \A T : Closed(T, H2) => Closed(T, H)
  BY DEF Closed
<1>3. QED
  BY <1>1, <1>2 DEF Separates

(* The regions of the ends of an edge become the region nd. *)
ZonesMeet(reg, e, nd, reg2) ==
    \A x \in Point : IF reg[x] \in {reg[e.p], reg[e.q]} THEN reg2[x] = nd
                     ELSE reg2[x] = reg[x] /\ reg[x] # nd

LEMMA ZoneGrows ==
    ASSUME NEW reg, NEW G, NEW H, G \subseteq GraphEdges, Separates(reg, G, H),
           NEW e \in H, e.p \in Point, e.q \in Point,
           NEW reg2, NEW nd, ZonesMeet(reg, e, nd, reg2),
           NEW G2, G2 \subseteq G \cup {e}
    PROVE  Separates(reg2, G2, H)
<1>0. \A x \in Point : IF reg[x] \in {reg[e.p], reg[e.q]} THEN reg2[x] = nd
                      ELSE reg2[x] = reg[x] /\ reg[x] # nd
  BY DEF ZonesMeet
<1>1. \A g \in G2 : reg2[g.p] = reg2[g.q]
  <2> SUFFICES ASSUME NEW g \in G2 PROVE reg2[g.p] = reg2[g.q]
    OBVIOUS
  <2>1. CASE g = e
    BY <1>0, <2>1
  <2>2. CASE g # e
    <3>1. g \in G /\ g.p \in Point /\ g.q \in Point
      BY <2>2 DEF GraphEdges
    <3>2. reg[g.p] = reg[g.q]
      BY <3>1 DEF Separates
    <3>3. QED
      BY <1>0, <3>1, <3>2
  <2>3. QED
    BY <2>1, <2>2
<1>2. ASSUME NEW T \in SUBSET Point, Closed(T, H), NEW x \in Point, NEW y \in Point,
             reg2[x] = reg2[y], x \in T
      PROVE  y \in T
  <2>1. \A a, b \in Point : reg[a] = reg[b] /\ a \in T => b \in T
    BY <1>2 DEF Separates
  <2>2. e.p \in T <=> e.q \in T
    BY <1>2 DEF Closed
  <2>3. CASE reg[x] = reg[y]
    BY <1>2, <2>1, <2>3
  <2>4. CASE reg[x] # reg[y]
    <3>1. reg[x] \in {reg[e.p], reg[e.q]} /\ reg[y] \in {reg[e.p], reg[e.q]}
      BY <1>0, <1>2, <2>4
    <3>2. e.p \in T
      BY <1>2, <2>1, <2>2, <3>1
    <3>3. QED
      BY <2>1, <2>2, <3>1, <3>2
  <2>5. QED
    BY <2>3, <2>4
<1>3. QED
  BY <1>1, <1>2 DEF Separates

-----------------------------------------------------------------------------
(* The flat zones are numbered in the order in which the scan meets them.   *)

Firsts(root) == {r \in DOMAIN Raster : \A s \in 1 .. r - 1 : root[Raster[s]] # root[Raster[r]]}

Numbered(root) ==
    [x \in Point |->
        LET first == CHOOSE r \in Firsts(root) : root[Raster[r]] = root[x]
        IN  Cardinality({r \in Firsts(root) : r < first})]

LEMMA ZonesAreNumbered ==
    ASSUME NEW root, NEW n, n = Cardinality(Firsts(root))
    PROVE  /\ n \in Nat
           /\ Numbered(root) \in [Point -> 0 .. n - 1]
           /\ \A x, y \in Point : Numbered(root)[x] = Numbered(root)[y] <=> root[x] = root[y]
           /\ \A k \in 0 .. n - 1 : \E x \in Point : Numbered(root)[x] = k
           /\ (\A x, y \in Point : root[x] = root[y] => x = y) => n = Cardinality(Point)
<1> DEFINE F == Firsts(root)
           first == [x \in Point |-> CHOOSE r \in F : root[Raster[r]] = root[x]]
           num == Numbered(root)
<1>1. /\ Len(Raster) \in Nat /\ DOMAIN Raster = 1 .. Len(Raster)
      /\ \A a \in 1 .. Len(Raster) : Raster[a] \in Point
      /\ \A x \in Point : \E a \in 1 .. Len(Raster) : Raster[a] = x
  <2>1. Raster \in Seq(Point) /\ Met(Len(Raster)) = Point
    BY AlphaTreeAssumption, RasterIs
  <2>2. QED
    BY <2>1 DEF Met
<1>2. F \in SUBSET Nat /\ IsFiniteSet(F) /\ F \subseteq 1 .. Len(Raster)
  <2>1. F \subseteq 1 .. Len(Raster)
    BY <1>1 DEF Firsts
  <2>2. IsFiniteSet(1 .. Len(Raster))
    BY <1>1, FS_Interval
  <2> HIDE DEF F
  <2>3. IsFiniteSet(F)
    BY <2>1, <2>2, FS_Subset
  <2>4. QED
    BY <1>1, <2>1, <2>3
<1>3. \A x \in Point : \E r \in F : root[Raster[r]] = root[x]
  <2> SUFFICES ASSUME NEW x \in Point PROVE \E r \in F : root[Raster[r]] = root[x]
    OBVIOUS
  <2> DEFINE A == {a \in 1 .. Len(Raster) : root[Raster[a]] = root[x]}
  <2>1. A \in SUBSET Nat /\ A # {}
    BY <1>1
  <2>2. PICK a \in A : \A b \in A : a <= b
    BY <2>1, LeastElement
  <2>3. \A s \in 1 .. a - 1 : root[Raster[s]] # root[Raster[a]]
    <3> SUFFICES ASSUME NEW s \in 1 .. a - 1, root[Raster[s]] = root[Raster[a]] PROVE FALSE
      OBVIOUS
    <3>1. s \in 1 .. Len(Raster)
      BY <1>1
    <3>2. s \in A
      BY <3>1
    <3>3. QED
      BY <2>2, <3>2
  <2>4. a \in F
    BY <1>1, <2>3 DEF Firsts
  <2>5. QED
    BY <2>4
<1>4. \A r, s \in F : root[Raster[r]] = root[Raster[s]] => r = s
  <2> SUFFICES ASSUME NEW r \in F, NEW s \in F, root[Raster[r]] = root[Raster[s]], r # s PROVE FALSE
    OBVIOUS
  <2>1. r \in 1 .. s - 1 \/ s \in 1 .. r - 1
    BY <1>1, <1>2
  <2>2. QED
    BY <2>1 DEF Firsts
<1>5. \A x \in Point : first[x] \in F /\ root[Raster[first[x]]] = root[x]
  BY <1>3
<1>6. \A x \in Point : num[x] = RankIn(F, first[x])
  BY DEF Numbered, RankIn
<1>7. num = [x \in Point |-> num[x]]
  BY DEF Numbered
<1> HIDE DEF F, first, num
<1>8. /\ n = Cardinality(F) /\ n \in Nat
      /\ \A r \in F : RankIn(F, r) \in 0 .. n - 1
      /\ \A r, s \in F : RankIn(F, r) = RankIn(F, s) => r = s
      /\ \A k \in 0 .. n - 1 : \E r \in F : RankIn(F, r) = k
  BY <1>2, RanksIn DEF F
<1>9. num \in [Point -> 0 .. n - 1]
  <2>1. \A x \in Point : num[x] \in 0 .. n - 1
    BY <1>5, <1>6, <1>8
  <2>2. QED
    BY <1>7, <2>1
<1>10. \A x, y \in Point : num[x] = num[y] <=> root[x] = root[y]
  BY <1>4, <1>5, <1>6, <1>8
<1>11. ASSUME NEW k \in 0 .. n - 1 PROVE \E x \in Point : num[x] = k
  <2>1. PICK r \in F : RankIn(F, r) = k
    BY <1>8
  <2>2. Raster[r] \in Point /\ first[Raster[r]] = r
    BY <1>1, <1>2, <1>4, <1>5
  <2>3. QED
    BY <1>6, <2>1, <2>2
<1>12. ASSUME \A x, y \in Point : root[x] = root[y] => x = y PROVE n = Cardinality(Point)
  <2> DEFINE g == [r \in F |-> Raster[r]]
  <2>1. g \in [F -> Point] /\ \A r, s \in F : g[r] = g[s] => r = s
    BY <1>1, <1>2, <1>4
  <2>2. \A y \in Point : \E r \in F : g[r] = y
    <3> SUFFICES ASSUME NEW y \in Point PROVE \E r \in F : g[r] = y
      OBVIOUS
    <3>1. first[y] \in F /\ Raster[first[y]] \in Point /\ root[Raster[first[y]]] = root[y]
      BY <1>1, <1>2, <1>5
    <3>2. Raster[first[y]] = y
      BY <1>12, <3>1
    <3>3. QED
      BY <3>1, <3>2
  <2> HIDE DEF g
  <2>3. g \in Bijection(F, Point)
    BY <2>1, <2>2 DEF Bijection, Injection, IsInjective, Surjection
  <2>4. ExistsBijection(F, Point)
    BY <2>3 DEF ExistsBijection
  <2>5. QED
    BY <1>2, <1>8, <2>4, FS_Bijection
<1>13. QED
  BY <1>8, <1>9, <1>10, <1>11, <1>12 DEF num

-----------------------------------------------------------------------------
(* The flat zones and the sets of leaves.                                    *)

All == EdgesFrom(f, Point)

ZonesAre(to) ==
    /\ IsForest(zones, Point, to)
    /\ ForHierarchy \/ pc = "edges" => \A x, y \in Point : to[x] = to[y] => x = y
    /\ pc = "flatzones" /\ ~ForHierarchy => Separates(to, All \ EdgesLeft, Light(All, 0))

(* The regions of the cut at l, for each l. *)
RegionsAre(m) ==
    \A l \in Weight : \A c : IsCut(c, par, levels, l, m) =>
        Separates([x \in Point |-> c[node_map[x]]], Light(All \ EdgesLeft, l), Light(All, l))

(* The n leaves, the m nodes and the sets. *)
TreeIs(n, m, to) ==
    /\ IsHierarchy(zpar, links, par, levels, n, m, to)
    /\ node_map \in [Point -> 0 .. n - 1]
    /\ \A e \in EdgesLeft, j \in 0 .. m - 1 : levels[j] <= e.w
    /\ \A j \in 0 .. n - 1 : levels[j] = 0
    /\ ForHierarchy => n = Cardinality(Point)
    /\ ~ForHierarchy => /\ \A k \in 0 .. n - 1 : \E x \in Point : node_map[x] = k
                        /\ RegionsAre(m)

MergeInv ==
    /\ EdgesInv
    /\ pc \in {"edges", "flatzones"} => \E to : ZonesAre(to)
    /\ pc = "hierarchy" => \E n, m, to : TreeIs(n, m, to)
    /\ pc = "reweight" => /\ Size(par) \in Nat
                          /\ \A x \in Point : Size(par) - 1 - node_map[x] \in 0 .. Cardinality(Point) - 1

LEMMA EdgesAreOfGraph == EdgesInv => EdgesLeft \subseteq GraphEdges /\ All \subseteq GraphEdges
<1> SUFFICES ASSUME EdgesInv PROVE EdgesLeft \subseteq GraphEdges /\ All \subseteq GraphEdges
  OBVIOUS
<1>1. All \subseteq GraphEdges
  BY EdgesFromAre DEF EdgesInv, All
<1>2. CASE ForHierarchy
  <2>1. ~HQ /\ cont \in Seq(GraphEdges)
    BY <1>2 DEF EdgesInv, ForHierarchy, HQ
  <2>2. EdgesLeft = Range(cont)
    BY <2>1 DEF EdgesLeft
  <2>3. Range(cont) \subseteq GraphEdges
    BY <2>1 DEF Range
  <2>4. QED
    BY <1>1, <2>2, <2>3
<1>3. CASE ~ForHierarchy
  <2>1. EdgesLeft \subseteq All
    BY <1>3 DEF EdgesInv, All
  <2>2. QED
    BY <1>1, <2>1
<1>4. QED
  BY <1>2, <1>3

LEMMA TopEdgeIs ==
    ASSUME EdgesInv, pc # "edges", PopEdge, UNCHANGED <<f, task>>
    PROVE  /\ TopEdge \in GraphEdges /\ TopEdge.p \in Point /\ TopEdge.q \in Point /\ TopEdge.w \in Weight
           /\ ~ForHierarchy => TopEdge \in All
           /\ \A e \in EdgesLeft : TopEdge.w <= e.w
           /\ All' = All /\ ForHierarchy' = ForHierarchy
           /\ EdgesLeft' \subseteq EdgesLeft
           /\ All \ EdgesLeft' \subseteq (All \ EdgesLeft) \cup {TopEdge}
<1>1. hqueue \in HQueues /\ cont \in Seq(GraphEdges) /\ ByWeight(cont) /\ ~NoEdge
  BY DEF EdgesInv, PopEdge
<1>2. TopEdge \in EdgesLeft /\ \A e \in EdgesLeft : TopEdge.w <= e.w
  BY <1>1, EdgeIsPopped
<1>3. EdgesLeft' \subseteq EdgesLeft /\ EdgesLeft \subseteq EdgesLeft' \cup {TopEdge}
  BY <1>1, EdgesAreLeft
<1>4. EdgesLeft \subseteq GraphEdges /\ (~ForHierarchy => EdgesLeft \subseteq All)
  BY EdgesAreOfGraph DEF EdgesInv, All
<1>5. All' = All /\ ForHierarchy' = ForHierarchy
  BY DEF All, ForHierarchy, EdgesFrom, EdgesOf
<1>6. TopEdge \in GraphEdges /\ TopEdge.p \in Point /\ TopEdge.q \in Point /\ TopEdge.w \in Weight
  BY <1>2, <1>4 DEF GraphEdges
<1>7. All \ EdgesLeft' \subseteq (All \ EdgesLeft) \cup {TopEdge}
  BY <1>3
<1>8. QED
  BY <1>2, <1>3, <1>4, <1>5, <1>6, <1>7

-----------------------------------------------------------------------------
(* The flat zones. *)

LEMMA ZonesAtFirst == Init => MergeInv
<1> SUFFICES ASSUME Init PROVE MergeInv
  OBVIOUS
<1>1. EdgesInv /\ pc = "edges" /\ zones = [x \in Point |-> x]
  BY EdgesInvInit DEF Init
<1>2. IsForest(zones, Point, [x \in Point |-> x])
  BY <1>1, ForestOfRoots
<1>3. ZonesAre([x \in Point |-> x])
  BY <1>1, <1>2 DEF ZonesAre
<1>4. QED
  BY <1>1, <1>3 DEF MergeInv

LEMMA ZonesAreKept ==
    ASSUME MergeInv, pc = "edges", pc' = "edges", UNCHANGED <<task, zones>>, EdgesInv'
    PROVE  MergeInv'
<1>1. PICK to : ZonesAre(to)
  BY DEF MergeInv
<1>2. ZonesAre(to)'
  BY <1>1 DEF ZonesAre, ForHierarchy
<1>3. QED
  BY <1>2 DEF MergeInv

LEMMA ZonesAreStarted ==
    ASSUME MergeInv, FinishInsert
    PROVE  MergeInv'
<1>1. /\ pc = "edges" /\ pc' = "flatzones" /\ f' = f /\ task' = task /\ zones' = zones
  BY DEF FinishInsert
<1>2. EdgesInv' /\ EdgesLeft' = EdgesFrom(f, Point)
  BY EdgesAreSorted DEF MergeInv
<1>3. All' = EdgesFrom(f, Point)
  BY <1>1 DEF All, EdgesFrom, EdgesOf
<1>4. PICK to : ZonesAre(to)
  BY <1>1 DEF MergeInv
<1>5. \A x, y \in Point : to[x] = to[y] => x = y
  BY <1>1, <1>4 DEF ZonesAre
<1>6. Separates(to, All' \ EdgesLeft', Light(All', 0))
  <2>1. All' \ EdgesLeft' = {}
    BY <1>2, <1>3
  <2>2. QED
    BY <1>5, <2>1, SeparatesAtFirst
<1>7. ZonesAre(to)'
  <2>1. IsForest(zones', Point, to)
    BY <1>1, <1>4 DEF ZonesAre
  <2>2. Separates(to, All \ EdgesLeft, Light(All, 0))'
    BY <1>6 DEF Separates, Light, Closed
  <2>3. QED
    BY <1>5, <2>1, <2>2 DEF ZonesAre
<1>8. QED
  BY <1>1, <1>2, <1>7 DEF MergeInv

LEMMA ZonesAreMerged ==
    ASSUME MergeInv, MergeZones, EdgesInv'
    PROVE  MergeInv'
<1> DEFINE p == TopEdge.p
           q == TopEdge.q
           rp == zfindroot(zones, p)
           rq == zfindroot(zones, q)
           compressed == Compressed(Compressed(zones, p), q)
<1>1. /\ pc = "flatzones" /\ ~ForHierarchy /\ TopEdge.w = 0 /\ PopEdge
      /\ zones' = (IF rp = rq THEN compressed ELSE [compressed EXCEPT ![rq] = rp])
      /\ f' = f /\ task' = task /\ pc' = pc
  BY DEF MergeZones, ZonesRemain
<1>2. /\ p \in Point /\ q \in Point /\ TopEdge \in All
      /\ All' = All /\ ForHierarchy' = ForHierarchy
      /\ All \ EdgesLeft' \subseteq (All \ EdgesLeft) \cup {TopEdge}
      /\ All \subseteq GraphEdges
  BY <1>1, TopEdgeIs, EdgesAreOfGraph DEF MergeInv
<1>3. PICK to : ZonesAre(to)
  BY <1>1 DEF MergeInv
<1>4. IsForest(zones, Point, to) /\ Separates(to, All \ EdgesLeft, Light(All, 0))
  BY <1>1, <1>3 DEF ZonesAre
<1>5. rp = to[p] /\ rq = to[q] /\ IsForest(compressed, Point, to) /\ rp \in Point /\ rq \in Point
      /\ to[rp] = rp /\ to[rq] = rq
  <2>1. IsFiniteSet(Point)
    BY AlphaTreeAssumption
  <2>2. rp = to[p] /\ rq = to[q] /\ IsForest(compressed, Point, to)
    BY <1>2, <1>4, <2>1, RootsAreFound
  <2>3. to \in [Point -> Point] /\ \A x \in Point : to[to[x]] = to[x]
    BY <1>4, ForestIs
  <2>4. QED
    BY <1>2, <2>2, <2>3
<1> HIDE DEF p, q, rp, rq, compressed
<1>a. PICK t2 : t2 = IF rp = rq THEN to ELSE Joined(to, rp, rq)
  OBVIOUS
<1>6. IsForest(zones', Point, t2)
  BY <1>1, <1>4, <1>5, <1>a, TreesAreMerged
<1>7. \A x \in Point : IF to[x] \in {to[p], to[q]} THEN t2[x] = rp ELSE t2[x] = to[x] /\ to[x] # rp
  <2>1. DOMAIN to = Point
    BY <1>4, ForestIs
  <2>2. QED
    BY <1>5, <1>a, <2>1 DEF Joined
<1>8. Separates(t2, All \ EdgesLeft', Light(All, 0))
  <2> DEFINE e == TopEdge
             G == All \ EdgesLeft
             H == Light(All, 0)
             G2 == All \ EdgesLeft'
  <2>1. e \in H /\ e.p = p /\ e.q = q
    BY <1>1, <1>2 DEF Light, p, q
  <2>2. G \subseteq GraphEdges /\ G2 \subseteq G \cup {e} /\ Separates(to, G, H)
    BY <1>2, <1>4
  <2> HIDE DEF e, G, H, G2
  <2>3. Separates(t2, G2, H)
    <3>1. e.p \in Point /\ e.q \in Point
      BY <1>2, <2>1
    <3>2. \A x \in Point : IF to[x] \in {to[e.p], to[e.q]} THEN t2[x] = rp ELSE t2[x] = to[x] /\ to[x] # rp
      BY <1>7, <2>1
    <3>3. ZonesMeet(to, e, rp, t2)
      BY <3>2 DEF ZonesMeet
    <3>4. QED
      BY <2>1, <2>2, <3>1, <3>3, ZoneGrows
  <2>4. QED
    BY <2>3 DEF H, G2
<1>9. ZonesAre(t2)'
  <2>1. Separates(t2, All' \ EdgesLeft', Light(All', 0))
    BY <1>2, <1>8
  <2>2. Separates(t2, All \ EdgesLeft, Light(All, 0))'
    BY <2>1 DEF Separates, Light, Closed
  <2>3. ~(ForHierarchy' \/ pc' = "edges")
    BY <1>1, <1>2
  <2>4. QED
    BY <1>6, <2>2, <2>3 DEF ZonesAre
<1>10. QED
  BY <1>1, <1>9 DEF MergeInv

(* A cut above all the levels is the one at the top. *)
LEMMA TopCut ==
    ASSUME NEW ps, NEW ls, NEW m, Nodes(ps, ls, m, Weight),
           NEW w \in Weight, \A j \in 0 .. m - 1 : ls[j] <= w,
           NEW l \in Weight, w <= l, NEW c, IsCut(c, ps, ls, l, m)
    PROVE  IsCut(c, ps, ls, NLevels, m)
<1>1. /\ w \in Nat /\ l \in Nat /\ NLevels \in Nat /\ l < NLevels
  BY AlphaTreeAssumption DEF Weight
<1>2. \A j \in 0 .. m - 1 : ps[j] \in 0 .. m - 1 /\ ls[ps[j]] \in Nat /\ ls[ps[j]] <= w
  BY DEF Nodes, Array, Weight
<1>3. \A j \in 0 .. m - 1 : ~(ls[ps[j]] > l) /\ ~(ls[ps[j]] > NLevels)
  BY <1>1, <1>2
<1>4. QED
  BY <1>3 DEF IsCut

-----------------------------------------------------------------------------
(* The n leaves the merges start from. *)
LEMMA LeavesAre ==
    ASSUME NEW n \in Nat
    PROVE  /\ IsHierarchy(Iota(n), Iota(n), Iota(n), [j \in 0 .. n - 1 |-> 0], n, n, [j \in 0 .. n - 1 |-> j])
           /\ \A c, l : IsCut(c, Iota(n), [j \in 0 .. n - 1 |-> 0], l, n) => \A j \in 0 .. n - 1 : c[j] = j
<1> DEFINE S == 0 .. n - 1
           a == Iota(n)
           ls == [j \in S |-> 0]
           to == [j \in S |-> j]
<1>1. a \in Array(n, S) /\ \A j \in S : a[j] = j
  BY IotaIs
<1>2. ls \in Array(n, Weight) /\ \A j \in S : ls[j] = 0
  BY AlphaTreeAssumption DEF Array, Weight
<1>3. \A j \in S : to[j] = j
  OBVIOUS
<1>4. IsForest(a, S, to)
  <2>1. a = [j \in S |-> j]
    BY DEF Iota
  <2>2. QED
    BY <2>1, ForestOfRoots
<1>5. n <= n /\ \A j \in S : a[j] >= j
  BY <1>1
<1> HIDE DEF a, ls, to
<1>6. Nodes(a, ls, n, Weight) /\ Ordered(ls, n)
  BY <1>1, <1>2, <1>5 DEF Nodes, Ordered
<1>7. \A c, l : IsCut(c, a, ls, l, n) => \A j \in S : c[j] = j
  BY <1>1 DEF IsCut
<1>8. IsHierarchy(a, a, a, ls, n, n, to)
  <2>1. \A r, s \in S : to[r] = r /\ to[s] = s /\ a[r] = a[s] => r = s
    BY <1>1
  <2>2. \A r \in S : to[r] = r => a[a[r]] = a[r]
    BY <1>1
  <2>3. \A j \in S : a[j] = j => \E r \in S : to[r] = r /\ a[r] = j
    BY <1>1, <1>3
  <2>4. \A c : IsCut(c, a, ls, NLevels, n) => \A j \in S : c[j] = a[to[j]]
    BY <1>1, <1>3, <1>7
  <2>5. QED
    BY <1>1, <1>4, <1>5, <1>6, <2>1, <2>2, <2>3, <2>4 DEF IsHierarchy
<1>9. QED
  BY <1>7, <1>8 DEF a, ls, to

LEMMA TreeIsStarted ==
    ASSUME NEW n \in Nat, StartHierarchy(n), EdgesInv',
           node_map' \in [Point -> 0 .. n - 1],
           ForHierarchy' => n = Cardinality(Point),
           ~ForHierarchy' =>
               /\ \A k \in 0 .. n - 1 : \E x \in Point : node_map'[x] = k
               /\ \A l \in Weight :
                    Separates(node_map', Light(All' \ EdgesLeft', l), Light(All', l))
    PROVE  MergeInv'
<1> DEFINE to == [j \in 0 .. n - 1 |-> j]
<1>1. /\ zpar' = Iota(n) /\ links' = Iota(n) /\ par' = Iota(n) /\ levels' = [j \in 0 .. n - 1 |-> 0]
      /\ pc' = "hierarchy"
  BY DEF StartHierarchy
<1>2. IsHierarchy(zpar', links', par', levels', n, n, to)
  BY <1>1, LeavesAre
<1>3. \A c, l : IsCut(c, par', levels', l, n) => \A j \in 0 .. n - 1 : c[j] = j
  BY <1>1, LeavesAre
<1> HIDE DEF to
<1>4. \A e \in EdgesLeft' : e.w \in Weight
  <2>1. (EdgesInv => EdgesLeft \subseteq GraphEdges)'
    BY EdgesAreOfGraph, PTL
  <2>2. QED
    BY <2>1 DEF GraphEdges
<1>5. \A e \in EdgesLeft', j \in 0 .. n - 1 : levels'[j] <= e.w
  BY <1>1, <1>4 DEF Weight
<1>6. ASSUME ~ForHierarchy' PROVE RegionsAre(n)'
  <2> SUFFICES ASSUME NEW l \in Weight, NEW c, IsCut(c, par', levels', l, n)
               PROVE  Separates([x \in Point |-> c[node_map'[x]]], Light(All' \ EdgesLeft', l), Light(All', l))
    BY DEF RegionsAre, IsCut, Separates, Light, Closed, Weight
  <2>1. \A j \in 0 .. n - 1 : c[j] = j
    BY <1>3
  <2>2. [x \in Point |-> c[node_map'[x]]] = node_map'
    BY <2>1
  <2>3. Separates(node_map', Light(All' \ EdgesLeft', l), Light(All', l))
    BY <1>6
  <2>4. QED
    BY <2>2, <2>3
<1>7. TreeIs(n, n, to)'
  BY <1>1, <1>2, <1>5, <1>6 DEF TreeIs
<1>8. QED
  BY <1>1, <1>7 DEF MergeInv

LEMMA NodemapIsCreated ==
    ASSUME MergeInv, CreateNodemap, EdgesInv'
    PROVE  MergeInv'
<1> DEFINE root == [x \in Point |-> zfindroot(zones, x)]
<1>1. /\ pc = "flatzones" /\ f' = f /\ task' = task /\ hqueue' = hqueue /\ cont' = cont
      /\ node_map' = Numbered(root) /\ StartHierarchy(Cardinality(Firsts(root)))
  <2>1. PICK firsts : /\ firsts = {r \in DOMAIN Raster : \A s \in 1 .. r - 1 : root[Raster[s]] # root[Raster[r]]}
                      /\ node_map' = [x \in Point |->
                            LET first == CHOOSE r \in firsts : root[Raster[r]] = root[x]
                            IN  Cardinality({r \in firsts : r < first})]
                      /\ StartHierarchy(Cardinality(firsts))
    BY DEF CreateNodemap
  <2> HIDE DEF root
  <2>2. firsts = Firsts(root)
    BY <2>1 DEF Firsts
  <2>3. node_map' = Numbered(root) /\ StartHierarchy(Cardinality(Firsts(root)))
    BY <2>1, <2>2 DEF Numbered
  <2>4. /\ pc = "flatzones" /\ f' = f /\ task' = task /\ hqueue' = hqueue /\ cont' = cont
    BY DEF CreateNodemap
  <2>5. QED
    BY <2>3, <2>4
<1>2. PICK to : ZonesAre(to)
  BY <1>1 DEF MergeInv
<1>3. root = to
  <2>1. IsFiniteSet(Point) /\ IsForest(zones, Point, to)
    BY <1>2, AlphaTreeAssumption DEF ZonesAre
  <2>2. \A x \in Point : zfindroot(zones, x) = to[x]
    BY <2>1, RootIsFound
  <2>3. to = [x \in Point |-> to[x]]
    BY <2>1, ForestIs
  <2>4. QED
    BY <2>2, <2>3
<1> HIDE DEF root
<1>4. PICK n : n = Cardinality(Firsts(to))
  OBVIOUS
<1>5. /\ n \in Nat
      /\ node_map' \in [Point -> 0 .. n - 1]
      /\ \A x, y \in Point : node_map'[x] = node_map'[y] <=> to[x] = to[y]
      /\ \A k \in 0 .. n - 1 : \E x \in Point : node_map'[x] = k
      /\ (\A x, y \in Point : to[x] = to[y] => x = y) => n = Cardinality(Point)
  BY <1>1, <1>3, <1>4, ZonesAreNumbered
<1>6. All' = All /\ ForHierarchy' = ForHierarchy /\ EdgesLeft' = EdgesLeft /\ All \subseteq GraphEdges
  BY <1>1, EdgesAreOfGraph DEF MergeInv, All, ForHierarchy, EdgesLeft, HQ, EdgesFrom, EdgesOf
<1>7. ForHierarchy' => n = Cardinality(Point)
  BY <1>2, <1>5, <1>6 DEF ZonesAre
<1>8. ASSUME ~ForHierarchy', NEW l \in Weight
      PROVE  Separates(node_map', Light(All' \ EdgesLeft', l), Light(All', l))
  <2> DEFINE G == All \ EdgesLeft
             H == Light(All, 0)
             G2 == Light(All' \ EdgesLeft', l)
             H2 == Light(All', l)
             reg2 == node_map'
  <2>1. Separates(to, G, H)
    BY <1>1, <1>2, <1>6, <1>8 DEF ZonesAre
  <2>2. G \subseteq GraphEdges /\ G2 \subseteq G
    BY <1>6 DEF Light
  <2>3. H \subseteq H2
    <3>1. \A e \in All : e.w \in Nat
      BY <1>6, AlphaTreeAssumption DEF GraphEdges, Weight
    <3>2. l \in Nat
      BY AlphaTreeAssumption DEF Weight
    <3>3. \A e \in All : e.w <= 0 => e.w <= l
      BY <3>1, <3>2
    <3>4. QED
      BY <1>6, <3>3 DEF Light
  <2>4. \A x, y \in Point : reg2[x] = reg2[y] <=> to[x] = to[y]
    BY <1>5
  <2> HIDE DEF G, H, G2, H2, reg2
  <2>5. Separates(reg2, G2, H2)
    BY <2>1, <2>2, <2>3, <2>4, SeparatesStill
  <2>6. QED
    BY <2>5 DEF G2, H2, reg2
<1>9. StartHierarchy(n)
  BY <1>1, <1>3, <1>4
<1>10. QED
  BY <1>5, <1>7, <1>8, <1>9, TreeIsStarted

-----------------------------------------------------------------------------
(* The merges. *)

LEMMA EndsAre ==
    ASSUME MergeInv, Merging, NEW n, NEW m, NEW to, TreeIs(n, m, to)
    PROVE  /\ n \in Nat /\ m \in Nat
           /\ node_map[TopEdge.p] \in 0 .. n - 1 /\ node_map[TopEdge.q] \in 0 .. n - 1
           /\ RootOf(TopEdge.p) = to[node_map[TopEdge.p]] /\ RootOf(TopEdge.q) = to[node_map[TopEdge.q]]
           /\ RootOf(TopEdge.p) \in 0 .. n - 1 /\ to[RootOf(TopEdge.p)] = RootOf(TopEdge.p)
           /\ RootOf(TopEdge.q) \in 0 .. n - 1 /\ to[RootOf(TopEdge.q)] = RootOf(TopEdge.q)
           /\ IsForest(CompressedForEnds, 0 .. n - 1, to)
           /\ TopEdge \in GraphEdges /\ TopEdge.p \in Point /\ TopEdge.q \in Point /\ TopEdge.w \in Weight
           /\ ~ForHierarchy => TopEdge \in All
           /\ \A e \in EdgesLeft' : TopEdge.w <= e.w
           /\ All' = All /\ ForHierarchy' = ForHierarchy /\ EdgesLeft' \subseteq EdgesLeft
           /\ All \ EdgesLeft' \subseteq (All \ EdgesLeft) \cup {TopEdge}
           /\ All \subseteq GraphEdges
           /\ \A j \in 0 .. m - 1 : levels[j] <= TopEdge.w
<1>1. EdgesInv /\ pc # "edges" /\ PopEdge /\ UNCHANGED <<f, task>>
  BY DEF Merging, MergeInv
<1>2. /\ TopEdge \in GraphEdges /\ TopEdge.p \in Point /\ TopEdge.q \in Point /\ TopEdge.w \in Weight
      /\ ~ForHierarchy => TopEdge \in All
      /\ \A e \in EdgesLeft : TopEdge.w <= e.w
      /\ All' = All /\ ForHierarchy' = ForHierarchy
      /\ EdgesLeft' \subseteq EdgesLeft
      /\ All \ EdgesLeft' \subseteq (All \ EdgesLeft) \cup {TopEdge}
  BY <1>1, TopEdgeIs
<1>3. TopEdge \in EdgesLeft /\ All \subseteq GraphEdges
  BY <1>1, EdgeIsPopped, EdgesAreOfGraph DEF EdgesInv, PopEdge
<1>4. \A j \in 0 .. m - 1 : levels[j] <= TopEdge.w
  BY <1>3 DEF TreeIs
<1>5. IsHierarchy(zpar, links, par, levels, n, m, to) /\ node_map \in [Point -> 0 .. n - 1]
  BY DEF TreeIs
<1>6. n \in Nat /\ m \in Nat /\ IsForest(zpar, 0 .. n - 1, to)
  BY <1>5 DEF IsHierarchy, Nodes
<1> DEFINE S == 0 .. n - 1
           a == node_map[TopEdge.p]
           b == node_map[TopEdge.q]
<1>7. a \in S /\ b \in S
  BY <1>2, <1>5
<1>8. IsFiniteSet(S) /\ IsForest(zpar, S, to)
  BY <1>6, FS_Interval
<1> HIDE DEF S, a, b
<1>9. /\ zfindroot(zpar, a) = to[a] /\ zfindroot(zpar, b) = to[b]
      /\ IsForest(Compressed(Compressed(zpar, a), b), S, to)
  BY <1>7, <1>8, RootsAreFound
<1>10. to \in [S -> S] /\ \A x \in S : to[to[x]] = to[x]
  BY <1>8, ForestIs
<1>11. /\ RootOf(TopEdge.p) = to[a] /\ RootOf(TopEdge.q) = to[b]
       /\ CompressedForEnds = Compressed(Compressed(zpar, a), b)
  BY <1>9 DEF RootOf, CompressedForEnds, a, b
<1>12. /\ RootOf(TopEdge.p) \in S /\ to[RootOf(TopEdge.p)] = RootOf(TopEdge.p)
       /\ RootOf(TopEdge.q) \in S /\ to[RootOf(TopEdge.q)] = RootOf(TopEdge.q)
  BY <1>7, <1>10, <1>11
<1>13. QED
  BY <1>2, <1>3, <1>4, <1>6, <1>7, <1>9, <1>11, <1>12 DEF S, a, b

LEMMA EdgeIsSkipped ==
    ASSUME MergeInv, SkipEdge, EdgesInv'
    PROVE  MergeInv'
<1>1. /\ Merging /\ pc = "hierarchy" /\ pc' = pc /\ node_map' = node_map
      /\ RootOf(TopEdge.p) = RootOf(TopEdge.q)
      /\ zpar' = CompressedForEnds /\ links' = links /\ par' = par /\ levels' = levels
  BY DEF SkipEdge, Merging
<1>2. PICK n, m, to : TreeIs(n, m, to)
  BY <1>1 DEF MergeInv
<1>3. /\ to[node_map[TopEdge.p]] = to[node_map[TopEdge.q]]
      /\ node_map[TopEdge.p] \in 0 .. n - 1 /\ node_map[TopEdge.q] \in 0 .. n - 1
      /\ IsForest(CompressedForEnds, 0 .. n - 1, to)
      /\ TopEdge \in GraphEdges /\ TopEdge.p \in Point /\ TopEdge.q \in Point /\ TopEdge.w \in Weight
      /\ All' = All /\ ForHierarchy' = ForHierarchy /\ EdgesLeft' \subseteq EdgesLeft
      /\ All \ EdgesLeft' \subseteq (All \ EdgesLeft) \cup {TopEdge}
      /\ All \subseteq GraphEdges
      /\ \A j \in 0 .. m - 1 : levels[j] <= TopEdge.w
  BY <1>1, <1>2, EndsAre
<1>4. IsHierarchy(zpar', links', par', levels', n, m, to)
  BY <1>1, <1>2, <1>3 DEF TreeIs, IsHierarchy
<1>5. ASSUME ~ForHierarchy' PROVE RegionsAre(m)'
  <2> SUFFICES ASSUME NEW l \in Weight, NEW c, IsCut(c, par, levels, l, m)
               PROVE  Separates([x \in Point |-> c[node_map[x]]], Light(All \ EdgesLeft', l), Light(All, l))
    BY <1>1, <1>3 DEF RegionsAre, IsCut, Separates, Light, Closed, Weight
  <2> DEFINE reg == [x \in Point |-> c[node_map[x]]]
             G == Light(All \ EdgesLeft, l)
             H == Light(All, l)
             G2 == Light(All \ EdgesLeft', l)
  <2>1. Separates(reg, G, H)
    BY <1>2, <1>3, <1>5 DEF TreeIs, RegionsAre
  <2>2. \A e \in G2 : e \in G \/ (e = TopEdge /\ TopEdge.w <= l)
    BY <1>3 DEF Light
  <2>3. TopEdge.w <= l => reg[TopEdge.p] = reg[TopEdge.q]
    <3> SUFFICES ASSUME TopEdge.w <= l PROVE c[node_map[TopEdge.p]] = c[node_map[TopEdge.q]]
      BY <1>3
    <3>1. IsHierarchy(zpar, links, par, levels, n, m, to)
      BY <1>2 DEF TreeIs
    <3>2. IsCut(c, par, levels, NLevels, m)
      BY <1>3, <3>1, TopCut DEF IsHierarchy
    <3>3. QED
      BY <1>3, <3>1, <3>2 DEF IsHierarchy
  <2>4. Separates(reg, G2, H)
    BY <2>1, <2>2, <2>3 DEF Separates
  <2>5. QED
    BY <2>4
<1>6. TreeIs(n, m, to)'
  <2>1. node_map' \in [Point -> 0 .. n - 1]
    BY <1>1, <1>2 DEF TreeIs
  <2>2. \A e \in EdgesLeft', j \in 0 .. m - 1 : levels'[j] <= e.w
    BY <1>1, <1>2, <1>3 DEF TreeIs
  <2>3. ForHierarchy' => n = Cardinality(Point)
    BY <1>2, <1>3 DEF TreeIs
  <2>4. ~ForHierarchy' => \A k \in 0 .. n - 1 : \E x \in Point : node_map'[x] = k
    BY <1>1, <1>2, <1>3 DEF TreeIs
  <2>5. \A j \in 0 .. n - 1 : levels'[j] = 0
    BY <1>1, <1>2 DEF TreeIs
  <2>6. QED
    BY <1>4, <1>5, <2>1, <2>2, <2>3, <2>4, <2>5 DEF TreeIs
<1>7. QED
  BY <1>1, <1>6 DEF MergeInv

(* Two sets merge under nd, among the m1 nodes whose arrays are p1 and l1.   *)
LEMMA SetsAreMerged ==
    ASSUME MergeInv, Merging, EdgesInv', RootOf(TopEdge.p) # RootOf(TopEdge.q),
           NEW n, NEW m, NEW to, TreeIs(n, m, to),
           NEW nd, NEW p1, NEW l1, NEW m1, MergeUnder(nd, p1, l1),
           Grown(par, levels, m, p1, l1, m1,
                 links[RootOf(TopEdge.p)], links[RootOf(TopEdge.q)], nd, TopEdge.w)
    PROVE  MergeInv'
<1>1. PICK e, rp, rq, a, b :
        /\ e = TopEdge /\ rp = RootOf(TopEdge.p) /\ rq = RootOf(TopEdge.q)
        /\ a = links[rp] /\ b = links[rq]
  OBVIOUS
<1>2. /\ pc = "hierarchy" /\ pc' = pc /\ node_map' = node_map
      /\ rp # rq
      /\ zpar' = [CompressedForEnds EXCEPT ![rq] = rp]
      /\ par' = Under(p1, a, b, nd) /\ levels' = l1
      /\ links' = [links EXCEPT ![rp] = nd]
  BY <1>1 DEF Merging, MergeUnder, Under
<1>3. /\ n \in Nat /\ m \in Nat
      /\ node_map[e.p] \in 0 .. n - 1 /\ node_map[e.q] \in 0 .. n - 1
      /\ rp = to[node_map[e.p]] /\ rq = to[node_map[e.q]]
      /\ rp \in 0 .. n - 1 /\ rq \in 0 .. n - 1 /\ to[rp] = rp /\ to[rq] = rq
      /\ IsForest(CompressedForEnds, 0 .. n - 1, to)
      /\ e \in GraphEdges /\ e.p \in Point /\ e.q \in Point /\ e.w \in Weight
      /\ ~ForHierarchy => e \in All
      /\ \A g \in EdgesLeft' : e.w <= g.w
      /\ All' = All /\ ForHierarchy' = ForHierarchy
      /\ All \ EdgesLeft' \subseteq (All \ EdgesLeft) \cup {e}
      /\ All \subseteq GraphEdges
      /\ \A j \in 0 .. m - 1 : levels[j] <= e.w
  BY <1>1, EndsAre
<1>4. PICK t2 : t2 = Joined(to, rp, rq)
  OBVIOUS
<1>5. IsHierarchy(zpar, links, par, levels, n, m, to)
  BY DEF TreeIs
<1>6. Grown(par, levels, m, p1, l1, m1, a, b, nd, e.w)
  BY <1>1
<1>7. IsForest(zpar', 0 .. n - 1, t2)
  <2> DEFINE S == 0 .. n - 1
             up == CompressedForEnds
  <2>1. IsForest(up, S, to) /\ rp \in S /\ rq \in S /\ to[rp] = rp /\ to[rq] = rq /\ rp # rq
    BY <1>2, <1>3
  <2> HIDE DEF S, up
  <2>2. IsForest([up EXCEPT ![rq] = rp], S, Joined(to, rp, rq))
    BY <2>1, TreesAreMerged
  <2>3. QED
    BY <1>2, <1>4, <2>2 DEF S, up
<1>8. IsHierarchy(zpar', links', par', levels', n, m1, t2)
  <2> DEFINE z2 == zpar'
             w == e.w
  <2>1. IsForest(z2, 0 .. n - 1, Joined(to, rp, rq)) /\ w \in Weight
        /\ Grown(par, levels, m, p1, l1, m1, links[rp], links[rq], nd, w)
        /\ rp \in 0 .. n - 1 /\ rq \in 0 .. n - 1 /\ to[rp] = rp /\ to[rq] = rq /\ rp # rq
    BY <1>1, <1>2, <1>3, <1>4, <1>6, <1>7
  <2> HIDE DEF z2, w
  <2>2. IsHierarchy(z2, [links EXCEPT ![rp] = nd], Under(p1, links[rp], links[rq], nd), l1, n, m1, Joined(to, rp, rq))
    BY <1>5, <2>1, SetsMerge
  <2>3. QED
    BY <1>1, <1>2, <1>4, <2>2 DEF z2
<1>9. /\ a \in 0 .. m - 1 /\ b \in 0 .. m - 1 /\ par[a] = a /\ par[b] = b
      /\ Nodes(par, levels, m, Weight)
  <2>1. links \in [0 .. n - 1 -> 0 .. m - 1] /\ Nodes(par, levels, m, Weight)
        /\ \A r \in 0 .. n - 1 : to[r] = r => par[links[r]] = links[r]
    BY <1>5 DEF IsHierarchy, Array
  <2>2. QED
    BY <1>1, <1>3, <2>1
<1>10. ASSUME ~ForHierarchy', NEW l \in Weight, NEW c2, IsCut(c2, par', levels', l, m1)
       PROVE  Separates([x \in Point |-> c2[node_map[x]]], Light(All \ EdgesLeft', l), Light(All, l))
  <2>1. PICK c : IsCut(c, par, levels, l, m)
    BY <1>9, CutExists
  <2> DEFINE w == e.w
             d == MergedCut(c, l, w, a, b, nd, m, m1)
             p2 == Under(p1, a, b, nd)
             reg == [x \in Point |-> c[node_map[x]]]
             reg2 == [x \in Point |-> c2[node_map[x]]]
             G == Light(All \ EdgesLeft, l)
             H == Light(All, l)
             G2 == Light(All \ EdgesLeft', l)
  <2>2. l \in 0 .. NLevels /\ l \in Nat /\ w \in Weight /\ w \in Nat
    BY <1>3, AlphaTreeAssumption DEF Weight
  <2>3. c2 = d
    <3>1. IsCut(c2, p2, l1, l, m1)
      BY <1>2, <1>10
    <3>2. Grown(par, levels, m, p1, l1, m1, a, b, nd, w)
      BY <1>6
    <3> HIDE DEF p2, d, w
    <3>3. Nodes(p2, l1, m1, Weight) /\ IsCut(d, p2, l1, l, m1)
      BY <1>9, <2>1, <2>2, <3>2, CutsMerge DEF p2, d
    <3>4. QED
      BY <3>1, <3>3, CutIsUnique
  <2>4. m <= m1 /\ m1 \in Nat /\ (nd \in 0 .. m - 1 => nd \in {a, b})
    <3>1. m1 \in Nat /\ m <= m1 /\ (nd < m => nd \in {a, b})
      BY <1>6 DEF Grown
    <3>2. nd \in 0 .. m - 1 => nd < m
      BY <1>3
    <3>3. QED
      BY <3>1, <3>2
  <2>5. \A x \in Point : node_map[x] \in 0 .. n - 1
    BY DEF TreeIs
  <2>6. n <= m /\ c \in [0 .. m - 1 -> 0 .. m - 1]
    BY <1>5, <2>1 DEF IsHierarchy, IsCut, Array
  <2>7. \A x \in Point : /\ node_map[x] \in 0 .. m - 1 /\ node_map[x] \in 0 .. m1 - 1
                         /\ c[node_map[x]] \in 0 .. m - 1
    BY <1>3, <2>4, <2>5, <2>6
  <2>8. \A x \in Point : reg2[x] = IF l < w THEN reg[x] ELSE IF reg[x] \in {a, b} THEN nd ELSE reg[x]
    BY <2>3, <2>7 DEF MergedCut
  <2>9. Separates(reg, G, H) /\ G \subseteq GraphEdges
    <3>1. RegionsAre(m)
      BY <1>3, <1>10 DEF TreeIs
    <3>2. QED
      BY <1>3, <2>1, <3>1 DEF RegionsAre, Light
  <2>10. \A g \in G2 : g \in G \/ (g = e /\ w <= l)
    BY <1>3 DEF Light
  <2> HIDE DEF d, w, G, H, G2, reg2
  <2>11. CASE l < w
    <3>1. G2 \subseteq G
      BY <2>2, <2>10, <2>11
    <3>2. \A x, y \in Point : reg2[x] = reg2[y] <=> reg[x] = reg[y]
      BY <2>8, <2>11
    <3> HIDE DEF reg
    <3>3. Separates(reg2, G2, H)
      BY <2>9, <3>1, <3>2, SeparatesStill
    <3>4. QED
      BY <3>3 DEF reg2, G2, H
  <2>12. CASE ~(l < w)
    <3>1. w <= l
      BY <2>2, <2>12
    <3>2. IsCut(c, par, levels, NLevels, m)
      <4>1. \A j \in 0 .. m - 1 : levels[j] <= w
        BY <1>3 DEF w
      <4>2. QED
        BY <1>9, <2>1, <2>2, <3>1, <4>1, TopCut
    <3>3. reg[e.p] = a /\ reg[e.q] = b
      <4>1. \A j \in 0 .. n - 1 : c[j] = links[to[j]]
        BY <1>5, <3>2 DEF IsHierarchy
      <4>2. QED
        BY <1>1, <1>3, <4>1
    <3>4. \A x \in Point : reg[x] \in 0 .. m - 1
      BY <2>7
    <3>5. e \in H
      BY <1>3, <1>10, <3>1 DEF H, Light, w
    <3> HIDE DEF reg
    <3>6. ZonesMeet(reg, e, nd, reg2)
      <4>1. \A x \in Point : reg2[x] = IF reg[x] \in {a, b} THEN nd ELSE reg[x]
        BY <2>8, <2>12
      <4>2. QED
        BY <2>4, <3>3, <3>4, <4>1 DEF ZonesMeet
    <3>7. G2 \subseteq G \cup {e}
      BY <2>10
    <3>8. Separates(reg2, G2, H)
      BY <1>3, <2>9, <3>5, <3>6, <3>7, ZoneGrows
    <3>9. QED
      BY <3>8 DEF reg2, G2, H
  <2>13. QED
    BY <2>11, <2>12
<1>11. ASSUME ~ForHierarchy' PROVE RegionsAre(m1)'
  <2>1. ASSUME NEW l \in Weight, NEW c2, IsCut(c2, par', levels', l, m1)
        PROVE  Separates([x \in Point |-> c2[node_map'[x]]], Light(All' \ EdgesLeft', l), Light(All', l))
    BY <1>2, <1>3, <1>10, <1>11, <2>1
  <2>2. QED
    BY <2>1 DEF RegionsAre, IsCut, Separates, Light, Closed, Weight
<1>12. \A g \in EdgesLeft', j \in 0 .. m1 - 1 : levels'[j] <= g.w
  <2>1. \A j \in 0 .. m1 - 1 : l1[j] <= e.w /\ l1[j] \in Weight
    BY <1>6 DEF Grown, Array
  <2>2. EdgesLeft' \subseteq GraphEdges
    <3>1. (EdgesInv => EdgesLeft \subseteq GraphEdges)'
      BY EdgesAreOfGraph, PTL
    <3>2. QED
      BY <3>1
  <2>3. \A g \in EdgesLeft' : g.w \in Nat /\ e.w <= g.w
    BY <1>3, <2>2, AlphaTreeAssumption DEF GraphEdges, Weight
  <2>4. e.w \in Nat /\ \A j \in 0 .. m1 - 1 : l1[j] \in Nat
    BY <1>3, <2>1, AlphaTreeAssumption DEF Weight
  <2>5. QED
    BY <1>2, <2>1, <2>3, <2>4
<1>13. TreeIs(n, m1, t2)'
  <2>1. node_map' \in [Point -> 0 .. n - 1]
    BY <1>2 DEF TreeIs
  <2>2. ForHierarchy' => n = Cardinality(Point)
    BY <1>3 DEF TreeIs
  <2>3. ~ForHierarchy' => \A k \in 0 .. n - 1 : \E x \in Point : node_map'[x] = k
    BY <1>2, <1>3 DEF TreeIs
  <2>4. \A j \in 0 .. n - 1 : levels'[j] = 0
    <3>1. n <= m /\ m \in Nat /\ n \in Nat
      BY <1>3, <1>5 DEF IsHierarchy
    <3>2. \A j \in 0 .. m - 1 : l1[j] = levels[j]
      BY <1>6 DEF Grown
    <3>3. \A j \in 0 .. n - 1 : j \in 0 .. m - 1 /\ levels[j] = 0
      BY <3>1 DEF TreeIs
    <3>4. QED
      BY <1>2, <3>2, <3>3
  <2>5. QED
    BY <1>8, <1>11, <1>12, <2>1, <2>2, <2>3, <2>4 DEF TreeIs
<1>14. QED
  BY <1>2, <1>13 DEF MergeInv

LEMMA RootsAreNodes ==
    ASSUME MergeInv, Merging, RootOf(TopEdge.p) # RootOf(TopEdge.q),
           NEW n, NEW m, NEW to, TreeIs(n, m, to),
           NEW a, NEW b, a = links[RootOf(TopEdge.p)], b = links[RootOf(TopEdge.q)]
    PROVE  /\ m \in Nat /\ Nodes(par, levels, m, Weight) /\ Ordered(levels, m)
           /\ TopEdge.w \in Weight /\ \A j \in 0 .. m - 1 : levels[j] <= TopEdge.w
           /\ a \in 0 .. m - 1 /\ b \in 0 .. m - 1 /\ par[a] = a /\ par[b] = b
           /\ LastRoot \in {a, b} /\ FirstRoot \in {a, b}
           /\ a <= LastRoot /\ b <= LastRoot /\ FirstRoot <= LastRoot
           /\ Size(par) = m
<1>1. IsHierarchy(zpar, links, par, levels, n, m, to)
  BY DEF TreeIs
<1>2. /\ m \in Nat /\ TopEdge.w \in Weight /\ \A j \in 0 .. m - 1 : levels[j] <= TopEdge.w
      /\ RootOf(TopEdge.p) \in 0 .. n - 1 /\ RootOf(TopEdge.q) \in 0 .. n - 1
      /\ to[RootOf(TopEdge.p)] = RootOf(TopEdge.p) /\ to[RootOf(TopEdge.q)] = RootOf(TopEdge.q)
  BY EndsAre
<1>3. /\ Nodes(par, levels, m, Weight) /\ Ordered(levels, m)
      /\ links \in [0 .. n - 1 -> 0 .. m - 1]
      /\ \A r \in 0 .. n - 1 : to[r] = r => par[links[r]] = links[r]
  BY <1>1 DEF IsHierarchy, Array
<1>4. a \in 0 .. m - 1 /\ b \in 0 .. m - 1 /\ par[a] = a /\ par[b] = b
  BY <1>2, <1>3
<1>5. a \in Int /\ b \in Int
  BY <1>4
<1>6. LastRoot = (IF a >= b THEN a ELSE b) /\ FirstRoot = (IF a <= b THEN a ELSE b)
  BY <1>5, MaxOfTwo, MinOfTwo DEF LastRoot, FirstRoot
<1>7. Size(par) = m
  BY <1>2, <1>3, SizeIs DEF Nodes
<1>8. QED
  BY <1>2, <1>3, <1>4, <1>5, <1>6, <1>7

LEMMA NodeIsReusedNext ==
    ASSUME MergeInv, ReuseNode, EdgesInv'
    PROVE  MergeInv'
<1>1. /\ Merging /\ pc = "hierarchy" /\ RootOf(TopEdge.p) # RootOf(TopEdge.q)
      /\ HasLevel(LastRoot) \/ HasLevel(FirstRoot)
      /\ MergeUnder(IF HasLevel(LastRoot) THEN LastRoot ELSE FirstRoot, par, levels)
  BY DEF ReuseNode, Merging
<1>2. PICK n, m, to : TreeIs(n, m, to)
  BY <1>1 DEF MergeInv
<1>3. PICK a, b, w, last, first :
        /\ a = links[RootOf(TopEdge.p)] /\ b = links[RootOf(TopEdge.q)] /\ w = TopEdge.w
        /\ last = LastRoot /\ first = FirstRoot
  OBVIOUS
<1>4. /\ m \in Nat /\ Nodes(par, levels, m, Weight) /\ Ordered(levels, m)
      /\ w \in Weight /\ \A j \in 0 .. m - 1 : levels[j] <= w
      /\ a \in 0 .. m - 1 /\ b \in 0 .. m - 1 /\ par[a] = a /\ par[b] = b
      /\ last \in {a, b} /\ first \in {a, b}
      /\ a <= last /\ b <= last /\ first <= last
  BY <1>1, <1>2, <1>3, RootsAreNodes
<1>5. HasLevel(last) /\ levels[last] = w
  <2>1. \A j \in 0 .. m - 1 : levels[j] \in Nat
    <3>1. levels \in [0 .. m - 1 -> Weight]
      BY <1>4 DEF Nodes, Array
    <3>2. Weight \subseteq Nat
      BY AlphaTreeAssumption DEF Weight
    <3>3. QED
      BY <3>1, <3>2
  <2>2. w \in Nat
    BY <1>4, AlphaTreeAssumption DEF Weight
  <2>3. first \in 0 .. m - 1 /\ last \in 0 .. m - 1
    BY <1>4
  <2>4. levels[first] <= levels[last] /\ levels[last] <= w
    BY <1>4, <2>3 DEF Ordered
  <2>5. levels[first] = w => levels[last] = w
    BY <2>1, <2>2, <2>3, <2>4
  <2>6. QED
    BY <1>1, <1>3, <2>5 DEF HasLevel
<1>6. MergeUnder(last, par, levels)
  BY <1>1, <1>3, <1>5
<1>7. par[last] = last
  BY <1>4
<1>8. PICK p1, l1 : p1 = par /\ l1 = levels
  OBVIOUS
<1>9. Grown(par, levels, m, p1, l1, m, a, b, last, w)
  BY <1>4, <1>5, <1>7, <1>8, NodeIsReused
<1>10. MergeUnder(last, p1, l1)
  BY <1>6, <1>8
<1>11. QED
  BY <1>1, <1>2, <1>3, <1>9, <1>10, SetsAreMerged

LEMMA NodeIsCreatedNext ==
    ASSUME MergeInv, CreateNode, EdgesInv'
    PROVE  MergeInv'
<1>1. /\ Merging /\ pc = "hierarchy" /\ RootOf(TopEdge.p) # RootOf(TopEdge.q)
      /\ MergeUnder(Size(par), Push(par, Size(par)), Push(levels, TopEdge.w))
  BY DEF CreateNode, Merging
<1>2. PICK n, m, to : TreeIs(n, m, to)
  BY <1>1 DEF MergeInv
<1>3. PICK a, b, w, p1, l1 :
        /\ a = links[RootOf(TopEdge.p)] /\ b = links[RootOf(TopEdge.q)] /\ w = TopEdge.w
        /\ p1 = Push(par, m) /\ l1 = Push(levels, w)
  OBVIOUS
<1>4. /\ m \in Nat /\ Nodes(par, levels, m, Weight) /\ Ordered(levels, m)
      /\ w \in Weight /\ \A j \in 0 .. m - 1 : levels[j] <= w
      /\ a \in 0 .. m - 1 /\ b \in 0 .. m - 1 /\ Size(par) = m
  BY <1>1, <1>2, <1>3, RootsAreNodes
<1>5. Grown(par, levels, m, p1, l1, m + 1, a, b, m, w)
  BY <1>3, <1>4, NodeIsCreated
<1>6. MergeUnder(m, p1, l1)
  BY <1>1, <1>3, <1>4
<1>7. QED
  BY <1>1, <1>2, <1>3, <1>5, <1>6, SetsAreMerged

LEMMA BinaryIsReturned ==
    ASSUME MergeInv, ReturnBinary, EdgesInv'
    PROVE  MergeInv'
<1>1. /\ pc = "hierarchy" /\ ~canonize_tree /\ pc' = "reweight"
      /\ par' = ReversedParents(par) /\ node_map' = [x \in Point |-> Size(par) - 1 - node_map[x]]
  BY DEF ReturnBinary
<1>2. PICK n, m, to : TreeIs(n, m, to)
  BY <1>1 DEF MergeInv
<1>3. ForHierarchy
  BY <1>1 DEF MergeInv, EdgesInv
<1>4. /\ n = Cardinality(Point) /\ node_map \in [Point -> 0 .. n - 1]
      /\ n \in Nat /\ m \in Nat /\ par \in Array(m, 0 .. m - 1) /\ levels \in Array(m, Weight)
  BY <1>2, <1>3 DEF TreeIs, IsHierarchy, Nodes
<1>5. Size(par) = m /\ Size(par') = m
  <2>1. ReversedParents(par) \in Array(m, 0 .. m - 1)
    BY <1>4, ReversedAre
  <2>2. QED
    BY <1>1, <1>4, <2>1, SizeIs
<1>6. \A x \in Point : Size(par') - 1 - node_map'[x] \in 0 .. Cardinality(Point) - 1
  <2> SUFFICES ASSUME NEW x \in Point PROVE Size(par') - 1 - node_map'[x] \in 0 .. Cardinality(Point) - 1
    OBVIOUS
  <2>1. node_map'[x] = m - 1 - node_map[x] /\ node_map[x] \in 0 .. n - 1
    BY <1>1, <1>4, <1>5
  <2>2. m - 1 - (m - 1 - node_map[x]) = node_map[x]
    BY <1>4, <2>1
  <2>3. QED
    BY <1>4, <1>5, <2>1, <2>2
<1>7. QED
  BY <1>1, <1>4, <1>5, <1>6 DEF MergeInv

LEMMA SecondTreeIsStarted ==
    ASSUME MergeInv, Reweight, EdgesInv'
    PROVE  MergeInv'
<1>1. PICK n : n = Cardinality(Point)
  OBVIOUS
<1>2. /\ pc = "reweight" /\ StartHierarchy(n) /\ task' = task
      /\ node_map' = [x \in Point |-> Size(par) - 1 - node_map[x]]
  BY <1>1 DEF Reweight
<1>3. n \in Nat
  BY <1>1, AlphaTreeAssumption, FS_CardinalityType
<1>4. node_map' \in [Point -> 0 .. n - 1]
  BY <1>1, <1>2 DEF MergeInv
<1>5. ForHierarchy'
  BY <1>2 DEF MergeInv, EdgesInv, ForHierarchy
<1>6. QED
  BY <1>1, <1>2, <1>3, <1>4, <1>5, TreeIsStarted

LEMMA MergeInvNext == MergeInv /\ [Next]_vars => MergeInv'
<1> SUFFICES ASSUME MergeInv, [Next]_vars PROVE MergeInv'
  OBVIOUS
<1>0. EdgesInv'
  BY EdgesInvNext DEF MergeInv
<1>1. CASE ComputeEdges
  <2>1. pc = "edges" /\ pc' = "edges" /\ UNCHANGED <<task, zones>>
    BY <1>1 DEF ComputeEdges
  <2>2. QED
    BY <1>0, <2>1, ZonesAreKept
<1>2. CASE FinishInsert
  BY <1>2, ZonesAreStarted
<1>3. CASE MergeZones
  BY <1>0, <1>3, ZonesAreMerged
<1>4. CASE CreateNodemap
  BY <1>0, <1>4, NodemapIsCreated
<1>5. CASE SkipEdge
  BY <1>0, <1>5, EdgeIsSkipped
<1>6. CASE ReuseNode
  BY <1>0, <1>6, NodeIsReusedNext
<1>7. CASE CreateNode
  BY <1>0, <1>7, NodeIsCreatedNext
<1>8. CASE ReturnCanonized
  <2>1. pc' = "end"
    BY <1>8 DEF ReturnCanonized
  <2>2. QED
    BY <1>0, <2>1 DEF MergeInv
<1>9. CASE ReturnBinary
  BY <1>0, <1>9, BinaryIsReturned
<1>10. CASE Reweight
  BY <1>0, <1>10, SecondTreeIsStarted
<1>11. CASE UNCHANGED vars
  <2>1. /\ pc' = pc /\ zones' = zones /\ zpar' = zpar /\ links' = links /\ par' = par /\ levels' = levels
        /\ node_map' = node_map /\ All' = All /\ EdgesLeft' = EdgesLeft /\ ForHierarchy' = ForHierarchy
    BY <1>11 DEF vars, All, EdgesLeft, HQ, ForHierarchy, EdgesFrom, EdgesOf
  <2>2. ASSUME NEW to, ZonesAre(to) PROVE ZonesAre(to)'
    <3>1. ForHierarchy' \/ pc' = "edges" => \A x, y \in Point : to[x] = to[y] => x = y
      BY <2>1, <2>2 DEF ZonesAre
    <3>2. pc' = "flatzones" /\ ~ForHierarchy' => Separates(to, All' \ EdgesLeft', Light(All', 0))
      BY <2>1, <2>2 DEF ZonesAre
    <3>3. (pc = "flatzones" /\ ~ForHierarchy => Separates(to, All \ EdgesLeft, Light(All, 0)))'
      BY <3>2 DEF Separates, Light, Closed
    <3>4. IsForest(zones', Point, to)
      BY <2>1, <2>2 DEF ZonesAre
    <3>5. QED
      BY <3>1, <3>3, <3>4 DEF ZonesAre
  <2>3. ASSUME NEW n, NEW m, NEW to, TreeIs(n, m, to) PROVE TreeIs(n, m, to)'
    <3>1. ~ForHierarchy' => RegionsAre(m)'
      <4>1. ASSUME ~ForHierarchy', NEW l \in Weight, NEW c, IsCut(c, par', levels', l, m)
            PROVE  Separates([x \in Point |-> c[node_map'[x]]], Light(All' \ EdgesLeft', l), Light(All', l))
        BY <2>1, <2>3, <4>1 DEF TreeIs, RegionsAre
      <4>2. QED
        BY <4>1 DEF RegionsAre, IsCut, Separates, Light, Closed, Weight
    <3>2. QED
      BY <2>1, <2>3, <3>1 DEF TreeIs
  <2>4. QED
    BY <1>0, <2>1, <2>2, <2>3 DEF MergeInv
<1>12. QED
  BY <1>1, <1>2, <1>3, <1>4, <1>5, <1>6, <1>7, <1>8, <1>9, <1>10, <1>11 DEF Next

(***************************************************************************)
(* The forest of the zones and the sets of leaves are what the edges met   *)
(* so far make of them: the flat zones are numbered without a gap, the     *)
(* links are the roots of the nodes, and every cut of the tree separates   *)
(* the points as the lighter edges that were popped do.                    *)
(***************************************************************************)
THEOREM SetsAreSound == Spec => []MergeInv
<1>1. Init => MergeInv
  BY ZonesAtFirst
<1>2. MergeInv /\ [Next]_vars => MergeInv'
  BY MergeInvNext
<1>3. QED
  BY <1>1, <1>2, PTL DEF Spec

(***************************************************************************)
(* While alphatree_compute_hierarchy merges the sets, a node comes before  *)
(* its parent and is not above it, and links gives for a set the node that *)
(* is above all its leaves, though a merge may reuse either node.          *)
(***************************************************************************)
THEOREM NodesAlwaysMirrorSets == Spec => []NodesMirrorSets
<1>1. MergeInv => NodesMirrorSets
  <2> SUFFICES ASSUME MergeInv, pc = "hierarchy" PROVE NodesMirrorSets
    BY DEF NodesMirrorSets
  <2>1. PICK n, m, to : TreeIs(n, m, to)
    BY DEF MergeInv
  <2>2. IsHierarchy(zpar, links, par, levels, n, m, to)
    BY <2>1 DEF TreeIs
  <2>3. /\ n \in Nat /\ n <= m /\ Nodes(par, levels, m, Weight) /\ Ordered(levels, m)
        /\ IsForest(zpar, 0 .. n - 1, to)
        /\ m \in Nat /\ par \in Array(m, 0 .. m - 1) /\ levels \in Array(m, Weight)
        /\ \A j \in 0 .. m - 1 : par[j] >= j
    BY <2>2 DEF IsHierarchy, Nodes
  <2>4. DOMAIN par = 0 .. m - 1 /\ Size(par) = m /\ DOMAIN zpar = 0 .. n - 1
    BY <2>3, SizeIs, ForestIs
  <2>5. \A j \in DOMAIN par : par[j] >= j /\ levels[par[j]] >= levels[j]
    <3> SUFFICES ASSUME NEW j \in 0 .. m - 1 PROVE par[j] >= j /\ levels[par[j]] >= levels[j]
      BY <2>4
    <3>1. par[j] \in 0 .. m - 1 /\ par[j] >= j
      BY <2>3 DEF Array
    <3>2. j <= par[j]
      BY <3>1
    <3>3. levels[j] <= levels[par[j]]
      BY <2>3, <3>1, <3>2 DEF Ordered
    <3>4. levels[j] \in Nat /\ levels[par[j]] \in Nat
      BY <2>3, <3>1, AlphaTreeAssumption DEF Array, Weight
    <3>5. QED
      BY <3>1, <3>3, <3>4
  <2>6. PICK reversed, top : reversed = ReversedParents(par) /\ top = CutNode(reversed, ReversedLevels(levels), NLevels)
    OBVIOUS
  <2>7. PICK c : /\ IsCut(c, par, levels, NLevels, m)
                 /\ \A k \in 0 .. m - 1 : top[m - 1 - k] = m - 1 - c[k]
    BY <2>3, <2>6, CutExists
  <2>8. \A j \in 0 .. n - 1 : c[j] = links[to[j]]
    BY <2>2, <2>7 DEF IsHierarchy
  <2>9. \A j \in DOMAIN zpar : Size(par) - 1 - top[Size(par) - 1 - j] = links[zfindroot(zpar, j)]
    <3> SUFFICES ASSUME NEW j \in 0 .. n - 1 PROVE m - 1 - top[m - 1 - j] = links[zfindroot(zpar, j)]
      BY <2>4
    <3>1. j \in 0 .. m - 1
      BY <2>3
    <3>2. c[j] \in 0 .. m - 1
      BY <2>7, <3>1 DEF IsCut, Array
    <3>3. m - 1 - top[m - 1 - j] = c[j]
      BY <2>3, <2>7, <3>1, <3>2
    <3>4. zfindroot(zpar, j) = to[j]
      <4>1. IsFiniteSet(0 .. n - 1)
        BY <2>3, FS_Interval
      <4>2. QED
        BY <2>3, <4>1, RootIsFound
    <3>5. QED
      BY <2>8, <3>3, <3>4
  <2>10. QED
    BY <2>5, <2>6, <2>9 DEF NodesMirrorSets
<1>2. QED
  BY <1>1, SetsAreSound, PTL

-----------------------------------------------------------------------------
(* The canonisation of a tree of m nodes, whose parents come first and are  *)
(* not below: the nodes of K are kept, and to gives where each one goes.    *)

IsOrdered(ps, ls, m) ==
    /\ m \in Nat \ {0} /\ ps \in Array(m, 0 .. m - 1) /\ ls \in Array(m, Weight)
    /\ ps[0] = 0
    /\ \A k \in 1 .. m - 1 : ps[k] < k
    /\ \A k \in 0 .. m - 1 : ls[k] <= ls[ps[k]]

IsTranslation(to, ps, ls, m, K, N) ==
    /\ K \subseteq 0 .. m - 1 /\ 0 \in K
    /\ \A k \in 1 .. m - 1 : k \in K <=> ls[k] # ls[ps[k]]
    /\ N \in Nat \ {0}
    /\ to \in Array(m, 0 .. N - 1)
    /\ to[0] = 0
    /\ \A k \in 0 .. m - 1 : k \notin K => to[k] = to[ps[k]]
    /\ \A j, k \in K : j < k => to[j] < to[k]
    /\ \A j, k \in K : to[j] = to[k] => j = k
    /\ \A r \in 0 .. N - 1 : \E k \in K : to[k] = r

LEMMA KeptAre ==
    ASSUME NEW ps, NEW ls, NEW m, IsOrdered(ps, ls, m), NEW K, K = Kept(ps, ls)
    PROVE  /\ DOMAIN ps = 0 .. m - 1 /\ m \in Nat /\ 0 \in 0 .. m - 1
           /\ K \in SUBSET (0 .. m - 1) /\ IsFiniteSet(K)
           /\ 0 \in K /\ \A k \in 1 .. m - 1 : k \in K <=> ls[k] # ls[ps[k]]
           /\ RankIn(K, 0) = 0
<1>1. DOMAIN ps = 0 .. m - 1 /\ m \in Nat /\ 0 \in 0 .. m - 1
  BY DEF IsOrdered, Array
<1>2. K = {k \in 0 .. m - 1 : k = 0 \/ ls[k] # ls[ps[k]]}
  BY <1>1 DEF Kept
<1>3. IsFiniteSet(0 .. m - 1)
  BY <1>1, FS_Interval
<1> DEFINE S == 0 .. m - 1
<1>4. K \in SUBSET S /\ IsFiniteSet(S)
  BY <1>2, <1>3
<1> HIDE DEF S
<1>5. IsFiniteSet(K)
  BY <1>4, FS_Subset
<1>6. \A k \in 1 .. m - 1 : k \in 0 .. m - 1 /\ k # 0
  BY <1>1
<1>7. {s \in K : s < 0} = {}
  BY <1>2
<1>8. RankIn(K, 0) = 0
  BY <1>7, FS_EmptySet DEF RankIn
<1>9. QED
  BY <1>1, <1>2, <1>4, <1>5, <1>6, <1>8 DEF S

LEMMA TranslationIs ==
    ASSUME NEW ps, NEW ls, NEW m, IsOrdered(ps, ls, m),
           NEW K, K = Kept(ps, ls), NEW N, N = Cardinality(K),
           NEW to, to = Translation(ps, ls)
    PROVE  IsTranslation(to, ps, ls, m, K, N) /\ \A k \in K : to[k] = RankIn(K, k)
<1> DEFINE A == 0 .. m - 1
           R == 0 .. N - 1
           at(u, k) == IF k \in K THEN RankIn(K, k) ELSE IF ps[k] < k THEN u[ps[k]] ELSE 0
           Is(u) == u = [k \in A |-> at(u, k)]
           h == [e \in A \X [A -> R] |-> at(e[2], e[1])]
<1>1. /\ DOMAIN ps = A /\ m \in Nat /\ 0 \in A
      /\ K \in SUBSET A /\ IsFiniteSet(K)
      /\ 0 \in K /\ \A k \in 1 .. m - 1 : k \in K <=> ls[k] # ls[ps[k]]
      /\ RankIn(K, 0) = 0
  BY KeptAre
<1>2. to = CHOOSE u : Is(u)
  <2>1. Translation(ps, ls) = CHOOSE u : Is(u)
    BY <1>1 DEF Translation, RankIn
  <2>2. QED
    BY <2>1
<1>3. /\ N \in Nat
      /\ \A r \in K : RankIn(K, r) \in R
      /\ \A r, s \in K : r < s => RankIn(K, r) < RankIn(K, s)
      /\ \A r, s \in K : RankIn(K, r) = RankIn(K, s) => r = s
      /\ \A k \in R : \E r \in K : RankIn(K, r) = k
  <2>1. K \in SUBSET Nat
    BY <1>1
  <2>2. QED
    BY <1>1, <2>1, RanksIn
<1>4. 0 \in R /\ N # 0
  BY <1>1, <1>3
<1>5. \A k \in A : k \notin K => k \in 1 .. m - 1 /\ ps[k] < k /\ ps[k] \in 0 .. k - 1 /\ ps[k] \in A
  <2> SUFFICES ASSUME NEW k \in A, k \notin K PROVE k \in 1 .. m - 1 /\ ps[k] < k /\ ps[k] \in 0 .. k - 1 /\ ps[k] \in A
    OBVIOUS
  <2>1. k # 0
    BY <1>1
  <2>2. k \in 1 .. m - 1 /\ ps \in [A -> A]
    BY <1>1, <2>1 DEF IsOrdered, Array
  <2>3. ps[k] < k /\ ps[k] \in A
    BY <2>2 DEF IsOrdered
  <2>4. QED
    BY <2>2, <2>3
<1>6. \A k \in A, u \in [A -> R] : at(u, k) \in R
  BY <1>3, <1>4, <1>5
<1>7. \A k \in A, u, v \in [A -> R] : (\A j \in 0 .. k - 1 : u[j] = v[j]) => at(u, k) = at(v, k)
  BY <1>5
<1>8. \E u \in [A -> R] : Is(u)
  <2>1. \A k \in A, u \in [A -> R] : h[<<k, u>>] = at(u, k)
    OBVIOUS
  <2>a. \A k \in A, u, v \in [A -> R] : (\A j \in 0 .. k - 1 : u[j] = v[j]) => h[<<k, u>>] = h[<<k, v>>]
    <3> SUFFICES ASSUME NEW k \in A, NEW u \in [A -> R], NEW v \in [A -> R],
                        \A j \in 0 .. k - 1 : u[j] = v[j]
                 PROVE  h[<<k, u>>] = h[<<k, v>>]
      OBVIOUS
    <3> HIDE DEF h, at, A, R
    <3>1. h[<<k, u>>] = at(u, k) /\ h[<<k, v>>] = at(v, k)
      BY <2>1
    <3>2. at(u, k) = at(v, k)
      BY <1>7
    <3>3. QED
      BY <3>1, <3>2
  <2> DEFINE V == R
  <2> HIDE DEF h, V, at
  <2>2. \A k \in 0 .. m - 1, u \in [0 .. m - 1 -> V] : h[<<k, u>>] \in V
    BY <1>6, <2>1 DEF V
  <2>3. \A k \in 0 .. m - 1, u, v \in [0 .. m - 1 -> V] :
            (\A j \in 0 .. k - 1 : u[j] = v[j]) => h[<<k, u>>] = h[<<k, v>>]
    BY <2>a DEF V
  <2>4. V # {}
    BY <1>4 DEF V
  <2>5. IsCourse(h, m, V)
    BY <2>2, <2>3 DEF IsCourse
  <2>6. PICK u : Follows(u, h, m, V)
    BY <1>1, <2>4, <2>5, CourseExists
  <2>7. u \in [A -> R] /\ \A k \in A : u[k] = at(u, k)
    BY <2>1, <2>6 DEF Follows, V
  <2>8. u = [k \in A |-> u[k]]
    BY <2>7
  <2>9. Is(u)
    BY <2>7, <2>8
  <2>10. QED
    BY <2>7, <2>9
<1>9. Is(to)
  <2> HIDE DEF Is
  <2>1. QED
    BY <1>2, <1>8
<1>10. \A k \in A : to[k] = at(to, k)
  BY <1>9
<1>11. /\ \A k \in K : to[k] = RankIn(K, k)
       /\ \A k \in A : k \notin K => to[k] = to[ps[k]]
  BY <1>1, <1>5, <1>10
<1> DEFINE Q == {k \in A : to[k] \in R}
<1>12. \A k \in 0 .. m - 1 : (\A j \in 0 .. k - 1 : j \in Q) => k \in Q
  BY <1>3, <1>5, <1>11
<1> HIDE DEF Q
<1>13. \A k \in 0 .. m - 1 : k \in Q
  BY <1>1, <1>12, CourseInduction
<1>14. to \in Array(m, R)
  <2>1. to = [k \in A |-> to[k]]
    BY <1>9
  <2>2. \A k \in A : to[k] \in R
    BY <1>13 DEF Q
  <2>3. QED
    BY <2>1, <2>2 DEF Array
<1>15. \A r \in R : \E k \in K : to[k] = r
  BY <1>3, <1>11
<1>16. /\ \A j, k \in K : j < k => to[j] < to[k]
       /\ \A j, k \in K : to[j] = to[k] => j = k
  BY <1>3, <1>11
<1>17. to[0] = 0
  BY <1>1, <1>11
<1>18. IsTranslation(to, ps, ls, m, K, N)
  BY <1>1, <1>3, <1>4, <1>11, <1>14, <1>15, <1>16, <1>17 DEF IsTranslation
<1>19. QED
  BY <1>11, <1>18

(* The arrays of the nodes that are kept: p2 and l2. *)
IsCanonized(p2, l2, to, ps, ls, K, N) ==
    /\ p2 \in Array(N, 0 .. N - 1) /\ l2 \in Array(N, Weight)
    /\ p2[0] = 0
    /\ \A k \in K : l2[to[k]] = ls[k] /\ (k # 0 => p2[to[k]] = to[ps[k]])

LEMMA CanonizedAre ==
    ASSUME NEW ps, NEW ls, NEW m, IsOrdered(ps, ls, m),
           NEW K, K = Kept(ps, ls), NEW N, N = Cardinality(K),
           NEW to, to = Translation(ps, ls)
    PROVE  IsCanonized(CanonizedParents(ps, ls), CanonizedLevels(ps, ls), to, ps, ls, K, N)
<1> DEFINE node(r) == CHOOSE k \in K : RankIn(K, k) = r
           R == 0 .. N - 1
           p2 == CanonizedParents(ps, ls)
           l2 == CanonizedLevels(ps, ls)
<1>1. IsTranslation(to, ps, ls, m, K, N) /\ \A k \in K : to[k] = RankIn(K, k)
  BY TranslationIs
<1>2. /\ K \subseteq 0 .. m - 1 /\ 0 \in K /\ N \in Nat \ {0} /\ to \in [0 .. m - 1 -> R] /\ to[0] = 0
      /\ \A j, k \in K : to[j] = to[k] => j = k
      /\ \A r \in R : \E k \in K : to[k] = r
  BY <1>1 DEF IsTranslation, Array
<1>3. /\ m \in Nat \ {0} /\ ps \in [0 .. m - 1 -> 0 .. m - 1] /\ ls \in [0 .. m - 1 -> Weight]
      /\ \A k \in 1 .. m - 1 : ps[k] < k
  BY DEF IsOrdered, Array
<1>4. \A r \in R : node(r) \in K /\ to[node(r)] = r
  BY <1>1, <1>2
<1>5. \A k \in K : node(to[k]) = k
  BY <1>2, <1>4
<1>6. l2 = [r \in R |-> ls[node(r)]]
  BY DEF CanonizedLevels, RankIn
<1>7. p2 = [r \in R |-> IF r = 0 \/ ps[node(r)] >= node(r) THEN 0 ELSE to[ps[node(r)]]]
  BY DEF CanonizedParents, RankIn
<1> HIDE DEF node, p2, l2
<1>8. l2 \in Array(N, Weight)
  BY <1>2, <1>3, <1>4, <1>6 DEF Array
<1>9. 0 \in R
  BY <1>2
<1>10. p2 \in Array(N, R)
  <2>1. \A r \in R : ps[node(r)] \in 0 .. m - 1 /\ to[ps[node(r)]] \in R
    BY <1>2, <1>3, <1>4
  <2>2. QED
    BY <1>7, <1>9, <2>1 DEF Array
<1>11. p2[0] = 0
  BY <1>7, <1>9
<1>12. ASSUME NEW k \in K PROVE l2[to[k]] = ls[k] /\ (k # 0 => p2[to[k]] = to[ps[k]])
  <2>1. to[k] \in R /\ node(to[k]) = k
    BY <1>2, <1>5
  <2>2. l2[to[k]] = ls[k]
    BY <1>6, <2>1
  <2>3. k # 0 => to[k] # 0
    BY <1>2
  <2>4. k # 0 => ~(ps[k] >= k)
    BY <1>2, <1>3
  <2>5. QED
    BY <1>7, <2>1, <2>2, <2>3, <2>4
<1>13. QED
  BY <1>8, <1>10, <1>11, <1>12 DEF IsCanonized, p2, l2

(* A node that is removed goes with one of its level that is kept. *)
LEMMA KeptWith ==
    ASSUME NEW ps, NEW ls, NEW m, IsOrdered(ps, ls, m),
           NEW K, NEW N, NEW to, IsTranslation(to, ps, ls, m, K, N)
    PROVE  \A k \in 0 .. m - 1 : \E r \in K : r <= k /\ to[r] = to[k] /\ ls[r] = ls[k]
<1> DEFINE Q == {k \in 0 .. m - 1 : \E r \in K : r <= k /\ to[r] = to[k] /\ ls[r] = ls[k]}
<1>1. /\ m \in Nat /\ K \subseteq 0 .. m - 1 /\ 0 \in K
      /\ \A k \in 1 .. m - 1 : k \in K <=> ls[k] # ls[ps[k]]
      /\ \A k \in 0 .. m - 1 : k \notin K => to[k] = to[ps[k]]
  BY DEF IsOrdered, IsTranslation
<1>2. \A k \in 1 .. m - 1 : ps[k] \in 0 .. m - 1 /\ ps[k] < k
  <2>1. ps \in [0 .. m - 1 -> 0 .. m - 1] /\ \A k \in 1 .. m - 1 : ps[k] < k
    BY DEF IsOrdered, Array
  <2>2. \A k \in 1 .. m - 1 : k \in 0 .. m - 1
    OBVIOUS
  <2>3. QED
    BY <2>1, <2>2
<1>3. ASSUME NEW k \in 0 .. m - 1, \A j \in 0 .. k - 1 : j \in Q PROVE k \in Q
  <2>1. CASE k \in K
    <3>1. k <= k
      BY <1>1
    <3>2. QED
      BY <2>1, <3>1
  <2>2. CASE k \notin K
    <3>1. k \in 1 .. m - 1
      BY <1>1, <2>2
    <3>2. /\ ps[k] \in 0 .. k - 1 /\ ls[ps[k]] = ls[k] /\ to[k] = to[ps[k]]
      BY <1>1, <1>2, <2>2, <3>1
    <3>3. PICK r \in K : r <= ps[k] /\ to[r] = to[ps[k]] /\ ls[r] = ls[ps[k]]
      BY <1>3, <3>2
    <3>4. r <= k
      BY <1>1, <3>2, <3>3
    <3>5. QED
      BY <3>2, <3>3, <3>4
  <2>3. QED
    BY <2>1, <2>2
<1> HIDE DEF Q
<1>4. \A k \in 0 .. m - 1 : k \in Q
  BY <1>1, <1>3, CourseInduction
<1>5. QED
  BY <1>4 DEF Q

LEMMA CanonizedIsOrdered ==
    ASSUME NEW ps, NEW ls, NEW m, IsOrdered(ps, ls, m),
           NEW K, NEW N, NEW to, IsTranslation(to, ps, ls, m, K, N),
           NEW p2, NEW l2, IsCanonized(p2, l2, to, ps, ls, K, N)
    PROVE  /\ \A k \in 0 .. m - 1 : l2[to[k]] = ls[k]
           /\ \A r \in 1 .. N - 1 : p2[r] < r /\ l2[p2[r]] > l2[r]
<1>1. \A k \in 0 .. m - 1 : \E r \in K : r <= k /\ to[r] = to[k] /\ ls[r] = ls[k]
  BY KeptWith
<1>2. /\ m \in Nat /\ K \subseteq 0 .. m - 1 /\ 0 \in K /\ N \in Nat
      /\ \A k \in 1 .. m - 1 : k \in K <=> ls[k] # ls[ps[k]]
      /\ to[0] = 0 /\ to \in [0 .. m - 1 -> 0 .. N - 1]
      /\ \A j, k \in K : j < k => to[j] < to[k]
      /\ \A r \in 0 .. N - 1 : \E k \in K : to[k] = r
  BY DEF IsOrdered, IsTranslation, Array
<1>3. \A k \in K : l2[to[k]] = ls[k] /\ (k # 0 => p2[to[k]] = to[ps[k]])
  BY DEF IsCanonized
<1>4. \A k \in 0 .. m - 1 : l2[to[k]] = ls[k]
  BY <1>1, <1>3
<1>5. /\ ps \in [0 .. m - 1 -> 0 .. m - 1] /\ ls \in [0 .. m - 1 -> Weight]
      /\ \A k \in 1 .. m - 1 : ps[k] < k
      /\ \A k \in 0 .. m - 1 : ls[k] <= ls[ps[k]]
  BY DEF IsOrdered, Array
<1>6. ASSUME NEW r \in 1 .. N - 1 PROVE p2[r] < r /\ l2[p2[r]] > l2[r]
  <2>1. r \in 0 .. N - 1 /\ r # 0
    OBVIOUS
  <2>2. PICK k \in K : to[k] = r
    BY <1>2, <2>1
  <2>3. k \in 1 .. m - 1 /\ k # 0 /\ k \in 0 .. m - 1
    BY <1>2, <2>1, <2>2
  <2>4. ps[k] \in 0 .. m - 1 /\ ps[k] < k /\ ls[k] # ls[ps[k]] /\ ls[k] <= ls[ps[k]]
    BY <1>2, <1>5, <2>3
  <2>5. PICK q \in K : q <= ps[k] /\ to[q] = to[ps[k]] /\ ls[q] = ls[ps[k]]
    BY <1>1, <2>4
  <2>6. q < k
    BY <1>2, <2>4, <2>5
  <2>7. to[q] < to[k]
    BY <1>2, <2>6
  <2>8. p2[r] = to[q] /\ l2[r] = ls[k] /\ l2[to[q]] = ls[ps[k]]
    BY <1>3, <2>2, <2>3, <2>5
  <2>9. ls[k] \in Nat /\ ls[ps[k]] \in Nat
    BY <1>5, <2>3, <2>4, AlphaTreeAssumption DEF Weight
  <2>10. QED
    BY <2>2, <2>4, <2>7, <2>8, <2>9
<1>7. QED
  BY <1>4, <1>6

(* The regions of the cuts are the same, for what is not above the cut. *)
LEMMA CutsAreKept ==
    ASSUME NEW ps, NEW ls, NEW m, IsOrdered(ps, ls, m),
           NEW K, NEW N, NEW to, IsTranslation(to, ps, ls, m, K, N),
           NEW p2, NEW l2, IsCanonized(p2, l2, to, ps, ls, K, N),
           NEW l \in Weight,
           NEW c, c = CutNode(ps, ls, l), NEW c2, c2 = CutNode(p2, l2, l),
           NEW j \in 0 .. m - 1, ls[j] <= l, NEW k \in 0 .. m - 1, ls[k] <= l
    PROVE  c2[to[j]] = c2[to[k]] <=> c[j] = c[k]
<1>1. /\ m \in Nat /\ N \in Nat /\ K \subseteq 0 .. m - 1 /\ 0 \in K
      /\ \A i1 \in 1 .. m - 1 : i1 \in K <=> ls[i1] # ls[ps[i1]]
      /\ to[0] = 0 /\ to \in [0 .. m - 1 -> 0 .. N - 1]
      /\ \A a, b \in K : to[a] = to[b] => a = b
      /\ \A a \in 0 .. m - 1 : a \notin K => to[a] = to[ps[a]]
  BY DEF IsOrdered, IsTranslation, Array
<1>2. /\ ps \in Array(m, 0 .. m - 1) /\ ls \in [0 .. m - 1 -> Weight]
      /\ ps[0] = 0 /\ \A a \in 1 .. m - 1 : ps[a] < a
  BY DEF IsOrdered, Array
<1>3. /\ p2 \in Array(N, 0 .. N - 1) /\ p2[0] = 0
      /\ \A a \in K : l2[to[a]] = ls[a] /\ (a # 0 => p2[to[a]] = to[ps[a]])
  BY DEF IsCanonized
<1>4. /\ \A a \in 0 .. m - 1 : l2[to[a]] = ls[a]
      /\ \A r \in 1 .. N - 1 : p2[r] < r /\ l2[p2[r]] > l2[r]
  BY CanonizedIsOrdered
<1>5. \A a \in 0 .. m - 1 : c[a] = IF ps[a] >= a \/ ls[ps[a]] > l THEN a ELSE c[ps[a]]
  <2>1. m \in Nat /\ ps \in Array(m, 0 .. m - 1)
    BY <1>1, <1>2
  <2>2. \A a \in 0 .. m - 1 :
            CutNode(ps, ls, l)[a] = IF ps[a] >= a \/ ls[ps[a]] > l THEN a ELSE CutNode(ps, ls, l)[ps[a]]
    BY <2>1, CutNodeIs
  <2>3. QED
    BY <2>2
<1>6. \A r \in 0 .. N - 1 : c2[r] = IF p2[r] >= r \/ l2[p2[r]] > l THEN r ELSE c2[p2[r]]
  BY <1>1, <1>3, CutNodeIs
<1>7. \A a \in 0 .. m - 1 : ps[a] \in 0 .. m - 1 /\ ls[a] \in Nat
  BY <1>2, AlphaTreeAssumption DEF Array, Weight
<1>8. l \in Nat
  BY AlphaTreeAssumption DEF Weight
<1> DEFINE Q == {a \in 0 .. m - 1 : ls[a] <= l => c[a] \in K /\ c2[to[a]] = to[c[a]]}
<1>9. ASSUME NEW a \in 0 .. m - 1, \A b \in 0 .. a - 1 : b \in Q PROVE a \in Q
  <2> SUFFICES ASSUME ls[a] <= l PROVE c[a] \in K /\ c2[to[a]] = to[c[a]]
    OBVIOUS
  <2>1. CASE a = 0
    <3>1. c[0] = 0
      BY <1>2, <1>5, <1>7, <2>1
    <3>2. 0 \in 0 .. N - 1
      BY <1>1, <2>1
    <3>3. c2[0] = 0
      BY <1>3, <1>6, <3>2
    <3>4. QED
      BY <1>1, <2>1, <3>1, <3>3
  <2>2. CASE a # 0 /\ a \notin K
    <3>1. a \in 1 .. m - 1 /\ ps[a] < a /\ ps[a] \in 0 .. a - 1 /\ ls[ps[a]] = ls[a] /\ to[a] = to[ps[a]]
      BY <1>1, <1>2, <1>7, <2>2
    <3>2. ls[ps[a]] <= l /\ ~(ls[ps[a]] > l) /\ ~(ps[a] >= a)
      BY <1>7, <1>8, <3>1
    <3>3. c[a] = c[ps[a]]
      BY <1>5, <3>2
    <3>4. c[ps[a]] \in K /\ c2[to[ps[a]]] = to[c[ps[a]]]
      BY <1>9, <3>1, <3>2
    <3>5. QED
      BY <3>1, <3>3, <3>4
  <2>3. CASE a # 0 /\ a \in K
    <3>1. a \in 1 .. m - 1 /\ ps[a] < a /\ ps[a] \in 0 .. a - 1 /\ ps[a] \in 0 .. m - 1
      <4>1. a \in 1 .. m - 1 /\ a \in 0 .. m - 1
        BY <2>3
      <4>2. ps[a] < a /\ ps[a] \in 0 .. m - 1
        BY <1>2, <1>7, <4>1
      <4>3. QED
        BY <4>1, <4>2
    <3>2. to[a] \in 0 .. N - 1 /\ to[a] # 0
      BY <1>1, <2>3
    <3>3. to[a] \in 1 .. N - 1
      BY <1>1, <3>2
    <3>4. p2[to[a]] = to[ps[a]] /\ ~(p2[to[a]] >= to[a]) /\ l2[p2[to[a]]] = ls[ps[a]]
      <4>1. p2[to[a]] = to[ps[a]] /\ p2[to[a]] < to[a]
        BY <1>3, <1>4, <2>3, <3>3
      <4>2. to[ps[a]] \in Int /\ to[a] \in Int
        BY <1>1, <3>1, <3>2
      <4>3. QED
        BY <1>4, <3>1, <4>1, <4>2
    <3>5. CASE ls[ps[a]] > l
      <4>1. c[a] = a
        BY <1>5, <3>5
      <4>2. c2[to[a]] = to[a]
        BY <1>6, <3>2, <3>4, <3>5
      <4>3. QED
        BY <2>3, <4>1, <4>2
    <3>6. CASE ~(ls[ps[a]] > l)
      <4>1. ls[ps[a]] <= l /\ ~(ps[a] >= a)
        BY <1>7, <1>8, <3>1, <3>6
      <4>2. c[a] = c[ps[a]]
        BY <1>5, <3>6, <4>1
      <4>3. c2[to[a]] = c2[to[ps[a]]]
        BY <1>6, <3>2, <3>4, <3>6
      <4>4. c[ps[a]] \in K /\ c2[to[ps[a]]] = to[c[ps[a]]]
        BY <1>9, <3>1, <4>1
      <4>5. QED
        BY <4>2, <4>3, <4>4
    <3>7. QED
      BY <3>5, <3>6
  <2>4. QED
    BY <2>1, <2>2, <2>3
<1> HIDE DEF Q
<1>10. \A a \in 0 .. m - 1 : a \in Q
  BY <1>1, <1>9, CourseInduction
<1>11. c[j] \in K /\ c2[to[j]] = to[c[j]] /\ c[k] \in K /\ c2[to[k]] = to[c[k]]
  BY <1>10 DEF Q
<1>12. c2[to[j]] = c2[to[k]] <=> to[c[j]] = to[c[k]]
  BY <1>11
<1>13. to[c[j]] = to[c[k]] <=> c[j] = c[k]
  BY <1>1, <1>11
<1>14. QED
  BY <1>12, <1>13

-----------------------------------------------------------------------------
(* The tree that alphatree_from_graph returns, once there is no edge left.   *)

LEMMA NoneLeft == EdgesInv /\ NoEdge => EdgesLeft = {}
<1> SUFFICES ASSUME EdgesInv, NoEdge PROVE EdgesLeft = {}
  OBVIOUS
<1>0. Range(<<>>) = {}
  BY DEF Range
<1>1. CASE HQ
  <2>1. QueueOK(hqueue) /\ hqueue.size = 0
    BY <1>1 DEF EdgesInv, HQueues, NoEdge
  <2>2. \A d \in Direction, l \in Weight : hqueue.cells[d][l] = <<>>
    BY <2>1, SizeIsRight
  <2>3. EdgesLeft = EdgesIn(hqueue.cells)
    BY <1>1 DEF EdgesLeft, EdgesIn, Weight, Direction
  <2>4. QED
    BY <1>0, <2>2, <2>3, EdgesInAre
<1>2. CASE ~HQ
  BY <1>0, <1>2 DEF EdgesLeft, NoEdge
<1>3. QED
  BY <1>1, <1>2

LEMMA AllAre ==
    \A e : e \in All <=> \E x \in Point : \E d \in 1 .. NDir :
                            After[x][d] \in Point /\ e = Edge(x, After[x][d], Dist(x, After[x][d]))
<1> SUFFICES ASSUME NEW e
             PROVE  e \in All <=> \E x \in Point : \E d \in 1 .. NDir :
                            After[x][d] \in Point /\ e = Edge(x, After[x][d], Dist(x, After[x][d]))
  OBVIOUS
<1>1. e \in All <=> \E x \in Point : e \in EdgesOf(f, x, NDir)
  BY DEF All, EdgesFrom
<1>2. \A x : e \in EdgesOf(f, x, NDir) <=>
            \E d \in 1 .. NDir : After[x][d] \in Point /\ e = Edge(x, After[x][d], Dist(x, After[x][d]))
  BY DEF EdgesOf, Dist
<1>3. QED
  BY <1>1, <1>2

LEMMA LinkedAre ==
    ASSUME f \in Images, NEW l, NEW a \in Point, NEW b \in Point
    PROVE  /\ <<a, b>> \in Linked(l) <=> (Edge(a, b, Dist(a, b)) \in Light(All, l) \/ Edge(b, a, Dist(b, a)) \in Light(All, l))
           /\ Dist(a, b) = Dist(b, a)
<1>1. Dist(a, b) = Dist(b, a)
  BY AlphaTreeAssumption DEF Dist
<1>2. <<a, b>> \in Linked(l) <=> (\E d \in 1 .. NDir : After[a][d] = b \/ After[b][d] = a) /\ Dist(a, b) <= l
  BY DEF Linked
<1>3. \A x, y \in Point : Edge(x, y, Dist(x, y)) \in All <=> \E d \in 1 .. NDir : After[x][d] = y
  <2> SUFFICES ASSUME NEW x \in Point, NEW y \in Point
               PROVE  Edge(x, y, Dist(x, y)) \in All <=> \E d \in 1 .. NDir : After[x][d] = y
    OBVIOUS
  <2>1. ASSUME Edge(x, y, Dist(x, y)) \in All PROVE \E d \in 1 .. NDir : After[x][d] = y
    <3>1. PICK z \in Point, d \in 1 .. NDir : Edge(x, y, Dist(x, y)) = Edge(z, After[z][d], Dist(z, After[z][d]))
      BY <2>1, AllAre
    <3>2. x = z /\ y = After[z][d]
      BY <3>1, EdgeIs
    <3>3. QED
      BY <3>2
  <2>2. ASSUME NEW d \in 1 .. NDir, After[x][d] = y PROVE Edge(x, y, Dist(x, y)) \in All
    BY <2>2, AllAre
  <2>3. QED
    BY <2>1, <2>2
<1>4. \A x, y \in Point : Edge(x, y, Dist(x, y)).w = Dist(x, y)
  BY EdgeIs
<1>5. \A x, y \in Point : Edge(x, y, Dist(x, y)) \in Light(All, l) <=>
                            (\E d \in 1 .. NDir : After[x][d] = y) /\ Dist(x, y) <= l
  BY <1>3, <1>4 DEF Light
<1>6. QED
  BY <1>1, <1>2, <1>5

(* The points that the edges not heavier than l do not separate are the     *)
(* components of these edges.                                               *)
LEMMA RegionsAreComponents ==
    ASSUME f \in Images, NEW l, NEW reg, Separates(reg, Light(All, l), Light(All, l)),
           NEW x \in Point, NEW y \in Point
    PROVE  reg[x] = reg[y] <=> y \in Component(Point, x, Linked(l))
<1> DEFINE C == Component(Point, x, Linked(l))
           T == {z \in Point : reg[z] = reg[x]}
           H == Light(All, l)
<1>1. IsComponent(C, Point, x, Linked(l))
  BY AlphaTreeAssumption, ComponentIs
<1> HIDE DEF C
<1>2. C \subseteq Point /\ x \in C
  BY <1>1 DEF IsComponent
<1>3. \A a \in C, b \in Point : <<a, b>> \in Linked(l) => b \in C
  BY <1>1 DEF IsComponent, NoPairLeaves
<1>4. Closed(C, H)
  <2> SUFFICES ASSUME NEW e \in H PROVE e.p \in C <=> e.q \in C
    BY DEF Closed
  <2>1. e \in All
    BY DEF Light
  <2>2. PICK a \in Point, d \in 1 .. NDir : After[a][d] \in Point /\ e = Edge(a, After[a][d], Dist(a, After[a][d]))
    BY <2>1, AllAre
  <2>3. PICK b \in Point : b = After[a][d]
    BY <2>2
  <2>4. e = Edge(a, b, Dist(a, b)) /\ e.p = a /\ e.q = b
    BY <2>2, <2>3, EdgeIs
  <2>5. <<a, b>> \in Linked(l) /\ <<b, a>> \in Linked(l)
    BY <2>4, LinkedAre
  <2>6. QED
    BY <1>2, <1>3, <2>4, <2>5
<1>5. reg[x] = reg[y] => y \in C
  BY <1>2, <1>4 DEF Separates
<1>6. NoPairLeaves(T, Point, Linked(l))
  <2> SUFFICES ASSUME NEW a \in T, NEW b \in Point, <<a, b>> \in Linked(l) PROVE b \in T
    BY DEF NoPairLeaves
  <2>1. a \in Point /\ reg[a] = reg[x]
    OBVIOUS
  <2>2. Edge(a, b, Dist(a, b)) \in H \/ Edge(b, a, Dist(b, a)) \in H
    BY <2>1, LinkedAre
  <2>3. \A e \in H : reg[e.p] = reg[e.q]
    BY DEF Separates
  <2>4. reg[a] = reg[b]
    <3>1. CASE Edge(a, b, Dist(a, b)) \in H
      <4>1. reg[Edge(a, b, Dist(a, b)).p] = reg[Edge(a, b, Dist(a, b)).q]
        BY <2>3, <3>1
      <4>2. QED
        BY <4>1, EdgeIs
    <3>2. CASE Edge(b, a, Dist(b, a)) \in H
      <4>1. reg[Edge(b, a, Dist(b, a)).p] = reg[Edge(b, a, Dist(b, a)).q]
        BY <2>3, <3>2
      <4>2. QED
        BY <4>1, EdgeIs
    <3>3. QED
      BY <2>2, <3>1, <3>2
  <2>5. QED
    BY <2>1, <2>4
<1>7. C \subseteq T
  <2>1. x \in T
    OBVIOUS
  <2> HIDE DEF T
  <2>2. QED
    BY <1>1, <1>6, <2>1 DEF IsComponent
<1>8. QED
  BY <1>5, <1>7 DEF C

(* The domain being in one piece, one set is left, and one root. *)
LEMMA OneRoot ==
    ASSUME EdgesInv, NoEdge, ~ForHierarchy, NEW n, NEW m, NEW to, TreeIs(n, m, to)
    PROVE  m \in Nat \ {0} /\ par[m - 1] = m - 1 /\ \A j \in 0 .. m - 1 : par[j] = j => j = m - 1
<1> DEFINE S == 0 .. n - 1
           l == NLevels - 1
<1>1. /\ IsHierarchy(zpar, links, par, levels, n, m, to)
      /\ node_map \in [Point -> S]
      /\ \A k \in S : \E x \in Point : node_map[x] = k
      /\ RegionsAre(m)
  BY DEF TreeIs
<1>2. /\ n \in Nat /\ m \in Nat /\ n <= m /\ Nodes(par, levels, m, Weight)
      /\ IsForest(zpar, S, to)
      /\ \A r, s \in S : to[r] = r /\ to[s] = s /\ links[r] = links[s] => r = s
      /\ \A j \in 0 .. m - 1 : par[j] = j => \E r \in S : to[r] = r /\ links[r] = j
      /\ \A j \in 0 .. m - 1 : par[j] \in 0 .. m - 1 /\ par[j] >= j /\ levels[j] \in Weight
  BY <1>1 DEF IsHierarchy, Nodes, Array
<1>3. to \in [S -> S] /\ \A x \in S : to[to[x]] = to[x]
  <2> HIDE DEF S
  <2>1. QED
    BY <1>2, ForestIs
<1>4. m \in Nat \ {0}
  <2>1. PICK x \in Point : TRUE
    BY ConnectedAssumption
  <2>2. node_map[x] \in S
    BY <1>1
  <2>3. QED
    BY <1>2, <2>2
<1>5. par[m - 1] = m - 1
  <2>1. m - 1 \in 0 .. m - 1
    BY <1>4
  <2>2. par[m - 1] \in 0 .. m - 1 /\ par[m - 1] >= m - 1
    BY <1>2, <2>1
  <2>3. QED
    BY <1>4, <2>2
<1>6. l \in Weight /\ l <= l /\ \A w \in Weight : w <= l
  BY AlphaTreeAssumption DEF Weight
<1>7. \A e \in All : to[node_map[e.p]] = to[node_map[e.q]]
  <2> SUFFICES ASSUME NEW e \in All PROVE to[node_map[e.p]] = to[node_map[e.q]]
    OBVIOUS
  <2>1. PICK c : IsCut(c, par, levels, l, m)
    BY <1>2, CutExists
  <2>2. IsCut(c, par, levels, NLevels, m)
    <3>1. \A j \in 0 .. m - 1 : levels[j] <= l
      BY <1>2, <1>6
    <3> HIDE DEF l
    <3>2. QED
      BY <1>2, <1>6, <2>1, <3>1, TopCut
  <2>3. \A j \in S : c[j] = links[to[j]]
    BY <1>1, <2>2 DEF IsHierarchy
  <2>4. e \in GraphEdges
    BY EdgesAreOfGraph
  <2>5. e.p \in Point /\ e.q \in Point /\ e.w \in Weight
    BY <2>4 DEF GraphEdges
  <2>6. e \in Light(All \ EdgesLeft, l)
    BY <1>6, <2>5, NoneLeft DEF Light
  <2>7. Separates([x \in Point |-> c[node_map[x]]], Light(All \ EdgesLeft, l), Light(All, l))
    BY <1>1, <1>6, <2>1 DEF RegionsAre
  <2>8. c[node_map[e.p]] = c[node_map[e.q]]
    BY <2>5, <2>6, <2>7 DEF Separates
  <2>9. node_map[e.p] \in S /\ node_map[e.q] \in S
    BY <1>1, <2>5
  <2>10. links[to[node_map[e.p]]] = links[to[node_map[e.q]]]
    BY <2>3, <2>8, <2>9
  <2>11. QED
    BY <1>2, <1>3, <2>9, <2>10
<1>8. \A r, s \in S : to[r] = r /\ to[s] = s => r = s
  <2> SUFFICES ASSUME NEW r \in S, NEW s \in S, to[r] = r, to[s] = s PROVE r = s
    OBVIOUS
  <2> DEFINE T == {y \in Point : to[node_map[y]] = r}
  <2>1. PICK x \in Point : node_map[x] = r
    BY <1>1
  <2>2. PICK y \in Point : node_map[y] = s
    BY <1>1
  <2>3. IsUnionOfRegions(T)
    <3> SUFFICES ASSUME NEW a \in Point, NEW d \in 1 .. NDir, After[a][d] \in Point
                 PROVE  a \in T <=> After[a][d] \in T
      BY DEF IsUnionOfRegions
    <3>1. PICK e : e = Edge(a, After[a][d], Dist(a, After[a][d]))
      OBVIOUS
    <3>2. e \in All /\ e.p = a /\ e.q = After[a][d]
      BY <3>1, AllAre, EdgeIs
    <3>3. to[node_map[a]] = to[node_map[After[a][d]]]
      BY <1>7, <3>2
    <3>4. QED
      BY <3>3
  <2>4. T \in SUBSET Point /\ x \in T
    BY <2>1
  <2> HIDE DEF T
  <2>5. T = Point
    BY <2>3, <2>4, ConnectedAssumption
  <2>6. y \in T
    BY <2>5
  <2>7. QED
    BY <2>2, <2>6 DEF T
<1>9. ASSUME NEW j \in 0 .. m - 1, par[j] = j PROVE j = m - 1
  <2>1. m - 1 \in 0 .. m - 1
    BY <1>4
  <2>2. PICK r \in S : to[r] = r /\ links[r] = j
    BY <1>2, <1>9
  <2>3. PICK s \in S : to[s] = s /\ links[s] = m - 1
    BY <1>2, <1>5, <2>1
  <2>4. QED
    BY <1>8, <2>2, <2>3
<1>10. QED
  BY <1>4, <1>5, <1>9

LEMMA ReversedIsOrdered ==
    ASSUME NEW ps, NEW ls, NEW m, Nodes(ps, ls, m, Weight), Ordered(ls, m),
           m \in Nat \ {0}, ps[m - 1] = m - 1, \A j \in 0 .. m - 1 : ps[j] = j => j = m - 1
    PROVE  IsOrdered(ReversedParents(ps), ReversedLevels(ls), m)
<1> DEFINE P == ReversedParents(ps)
           V == ReversedLevels(ls)
<1>1. /\ m \in Nat /\ ps \in Array(m, 0 .. m - 1) /\ ls \in Array(m, Weight)
      /\ \A j \in 0 .. m - 1 : ps[j] \in 0 .. m - 1 /\ ps[j] >= j
  BY DEF Nodes, Array
<1>2. /\ P \in Array(m, 0 .. m - 1) /\ V \in Array(m, Weight)
      /\ \A k \in 0 .. m - 1 : /\ m - 1 - k \in 0 .. m - 1 /\ m - 1 - (m - 1 - k) = k
                               /\ P[k] = m - 1 - ps[m - 1 - k]
                               /\ V[k] = ls[m - 1 - k]
  BY <1>1, ReversedAre
<1> HIDE DEF P, V
<1>3. P[0] = 0
  <2>1. 0 \in 0 .. m - 1 /\ m - 1 - 0 = m - 1
    OBVIOUS
  <2>2. P[0] = m - 1 - ps[m - 1]
    BY <1>2, <2>1
  <2>3. QED
    BY <2>2
<1>4. ASSUME NEW k \in 1 .. m - 1 PROVE P[k] < k
  <2> DEFINE j == m - 1 - k
  <2>1. k \in 0 .. m - 1 /\ j \in 0 .. m - 1 /\ j # m - 1
    OBVIOUS
  <2>2. ps[j] \in 0 .. m - 1 /\ ps[j] >= j /\ ps[j] # j /\ P[k] = m - 1 - ps[j]
    BY <1>1, <1>2, <2>1
  <2>3. QED
    BY <2>2
<1>5. ASSUME NEW k \in 0 .. m - 1 PROVE V[k] <= V[P[k]]
  <2>1. PICK j \in 0 .. m - 1 : j = m - 1 - k
    BY <1>2
  <2>2. ps[j] \in 0 .. m - 1 /\ j <= ps[j]
    BY <1>1
  <2>3. P[k] \in 0 .. m - 1 /\ m - 1 - P[k] = ps[j]
    BY <1>2, <2>1, <2>2
  <2>4. V[k] = ls[j] /\ V[P[k]] = ls[ps[j]]
    BY <1>2, <2>1, <2>3
  <2>5. QED
    BY <2>2, <2>4 DEF Ordered
<1>6. QED
  BY <1>2, <1>3, <1>4, <1>5 DEF IsOrdered, P, V

LEMMA TreeIsReturned ==
    ASSUME MergeInv, ReturnCanonized
    PROVE  IsAlphaTree'
<1> SUFFICES ASSUME ~ForHierarchy' PROVE IsAlphaTree'
  BY DEF IsAlphaTree
<1>1. PICK P, V, T : P = ReversedParents(par) /\ V = ReversedLevels(levels) /\ T = Translation(P, V)
  OBVIOUS
<1>2. /\ pc = "hierarchy" /\ NoEdge /\ f' = f /\ task' = task
      /\ par' = CanonizedParents(P, V) /\ levels' = CanonizedLevels(P, V)
      /\ node_map' = [x \in Point |-> T[Size(par) - 1 - node_map[x]]]
  BY <1>1 DEF ReturnCanonized
<1>3. ~ForHierarchy /\ EdgesInv /\ f \in Images
  BY <1>2 DEF ForHierarchy, MergeInv, EdgesInv
<1>4. PICK n, m, to : TreeIs(n, m, to)
  BY <1>2 DEF MergeInv
<1>5. /\ n \in Nat /\ n <= m /\ Nodes(par, levels, m, Weight) /\ Ordered(levels, m)
      /\ m \in Nat /\ par \in Array(m, 0 .. m - 1) /\ levels \in Array(m, Weight)
      /\ \A x \in Point : node_map[x] \in 0 .. n - 1
      /\ \A j \in 0 .. n - 1 : levels[j] = 0
      /\ RegionsAre(m)
  BY <1>3, <1>4 DEF TreeIs, IsHierarchy, Nodes
<1>6. m \in Nat \ {0} /\ par[m - 1] = m - 1 /\ \A j \in 0 .. m - 1 : par[j] = j => j = m - 1
  BY <1>2, <1>3, <1>4, OneRoot
<1>7. IsOrdered(P, V, m)
  BY <1>1, <1>5, <1>6, ReversedIsOrdered
<1>8. PICK K, N : K = Kept(P, V) /\ N = Cardinality(K)
  OBVIOUS
<1>9. IsTranslation(T, P, V, m, K, N)
  BY <1>1, <1>7, <1>8, TranslationIs
<1>10. PICK p2, l2 : p2 = par' /\ l2 = levels'
  OBVIOUS
<1>11. IsCanonized(p2, l2, T, P, V, K, N)
  BY <1>1, <1>2, <1>7, <1>8, <1>10, CanonizedAre
<1>12. \A r \in 1 .. N - 1 : p2[r] < r /\ l2[p2[r]] > l2[r]
  BY <1>7, <1>9, <1>11, CanonizedIsOrdered
<1>13. ParentsFirst'
  <2>1. DOMAIN p2 = 0 .. N - 1 /\ p2[0] = 0 /\ N \in Nat \ {0}
    BY <1>9, <1>11 DEF IsCanonized, Array, IsTranslation
  <2>2. \A j \in (0 .. N - 1) \ {0} : j \in 1 .. N - 1
    BY <2>1
  <2>3. QED
    BY <1>10, <1>12, <2>1, <2>2 DEF ParentsFirst
<1>14. ASSUME NEW l \in 0 .. NLevels - 1, NEW x \in Point, NEW y \in Point
       PROVE  CutNode(p2, l2, l)[node_map'[x]] = CutNode(p2, l2, l)[node_map'[y]]
                  <=> y \in Component(Point, x, Linked(l))
  <2>1. l \in Weight /\ 0 <= l
    BY AlphaTreeAssumption DEF Weight
  <2>2. PICK c : /\ IsCut(c, par, levels, l, m)
                 /\ \A k \in 0 .. m - 1 : CutNode(P, V, l)[m - 1 - k] = m - 1 - c[k]
    <3>1. Nodes(par, levels, m, Weight)
      BY <1>5
    <3>2. \E c : /\ IsCut(c, par, levels, l, m)
                 /\ \A k \in 0 .. m - 1 :
                      CutNode(ReversedParents(par), ReversedLevels(levels), l)[m - 1 - k] = m - 1 - c[k]
      BY <3>1, CutExists
    <3>3. QED
      BY <1>1, <3>2
  <2>3. PICK reg : reg = [z \in Point |-> c[node_map[z]]]
    OBVIOUS
  <2>4. Separates(reg, Light(All, l), Light(All, l))
    <3>1. Separates(reg, Light(All \ EdgesLeft, l), Light(All, l))
      BY <1>5, <2>1, <2>2, <2>3 DEF RegionsAre
    <3>2. All \ EdgesLeft = All
      BY <1>2, <1>3, NoneLeft
    <3>3. QED
      BY <3>1, <3>2
  <2>5. reg[x] = reg[y] <=> y \in Component(Point, x, Linked(l))
    BY <1>3, <2>4, RegionsAreComponents
  <2>6. PICK j \in 0 .. m - 1, k \in 0 .. m - 1 : j = m - 1 - node_map[x] /\ k = m - 1 - node_map[y]
    <3>1. node_map[x] \in 0 .. m - 1 /\ node_map[y] \in 0 .. m - 1
      BY <1>5
    <3>2. m - 1 - node_map[x] \in 0 .. m - 1 /\ m - 1 - node_map[y] \in 0 .. m - 1
      BY <1>5, <3>1
    <3>3. QED
      BY <3>2
  <2>7. V[j] <= l /\ V[k] <= l
    <3>1. V[j] = levels[node_map[x]] /\ V[k] = levels[node_map[y]]
      <4>1. \A i1 \in 0 .. m - 1 : V[i1] = levels[m - 1 - i1]
        BY <1>1, <1>5, ReversedAre
      <4>2. node_map[x] \in 0 .. n - 1 /\ node_map[y] \in 0 .. n - 1
        BY <1>5
      <4>3. m - 1 - j = node_map[x] /\ m - 1 - k = node_map[y]
        BY <1>5, <2>6, <4>2
      <4>4. QED
        BY <4>1, <4>3
    <3>2. levels[node_map[x]] = 0 /\ levels[node_map[y]] = 0
      BY <1>5
    <3>3. QED
      BY <2>1, <3>1, <3>2
  <2>8. node_map'[x] = T[j] /\ node_map'[y] = T[k]
    <3>1. Size(par) = m
      BY <1>5, SizeIs
    <3>2. QED
      BY <1>2, <2>6, <3>1
  <2>9. CutNode(p2, l2, l)[T[j]] = CutNode(p2, l2, l)[T[k]] <=> CutNode(P, V, l)[j] = CutNode(P, V, l)[k]
    BY <1>7, <1>9, <1>11, <2>1, <2>7, CutsAreKept
  <2>10. CutNode(P, V, l)[j] = CutNode(P, V, l)[k] <=> reg[x] = reg[y]
    <3>1. node_map[x] \in 0 .. m - 1 /\ node_map[y] \in 0 .. m - 1
      BY <1>5
    <3>2. CutNode(P, V, l)[j] = m - 1 - reg[x] /\ CutNode(P, V, l)[k] = m - 1 - reg[y]
      BY <2>2, <2>3, <2>6, <3>1
    <3>3. reg[x] \in 0 .. m - 1 /\ reg[y] \in 0 .. m - 1
      BY <2>2, <2>3, <3>1 DEF IsCut, Array
    <3>4. QED
      BY <1>5, <3>2, <3>3
  <2>11. QED
    BY <2>5, <2>8, <2>9, <2>10
<1>15. \A l : Linked(l)' = Linked(l)
  BY <1>2 DEF Linked, Dist
<1>16. \A l \in 0 .. NLevels - 1 :
             \E cut \in {CutNode(p2, l2, l)}, adj \in {Linked(l)'} :
             \A x \in Point : \E zone \in {Component(Point, x, adj)} :
                \A y \in Point : cut[node_map'[x]] = cut[node_map'[y]] <=> y \in zone
  BY <1>14, <1>15
<1>17. QED
  BY <1>10, <1>13, <1>16 DEF IsAlphaTree, SameRegion

(***************************************************************************)
(* What alphatree returns is an alpha-tree: parents come first, each one   *)
(* strictly above, and the regions of its cuts are the quasi-flat zones,   *)
(* with either container of edges.                                         *)
(***************************************************************************)
THEOREM TreeIsAlways == Spec => []IsAlphaTree
<1>1. Init => IsAlphaTree
  BY DEF Init, IsAlphaTree
<1>2. MergeInv /\ IsAlphaTree /\ [Next]_vars => IsAlphaTree'
  <2> SUFFICES ASSUME MergeInv, IsAlphaTree, [Next]_vars PROVE IsAlphaTree'
    OBVIOUS
  <2>1. CASE ReturnCanonized
    BY <2>1, TreeIsReturned
  <2>2. CASE UNCHANGED vars
    <3>1. /\ pc' = pc /\ par' = par /\ levels' = levels /\ node_map' = node_map /\ f' = f
          /\ ForHierarchy' = ForHierarchy /\ \A l : Linked(l)' = Linked(l)
      BY <2>2 DEF vars, ForHierarchy, Linked, Dist
    <3>2. QED
      BY <3>1 DEF IsAlphaTree, ParentsFirst, SameRegion
  <2>3. CASE ComputeEdges \/ FinishInsert \/ MergeZones \/ CreateNodemap \/ SkipEdge \/ ReuseNode
             \/ CreateNode \/ ReturnBinary \/ Reweight
    <3>1. pc' # "end"
      BY <2>3 DEF ComputeEdges, FinishInsert, MergeZones, CreateNodemap, SkipEdge, ReuseNode,
                  CreateNode, Merging, ReturnBinary, Reweight, StartHierarchy
    <3>2. QED
      BY <3>1 DEF IsAlphaTree
  <2>4. QED
    BY <2>1, <2>2, <2>3 DEF Next
<1>3. QED
  BY <1>1, <1>2, SetsAreSound, PTL DEF Spec
=============================================================================
