---------------------------- MODULE MaxTreeProofs ----------------------------
(***************************************************************************)
(* Proofs about the depth-first canvas, for every image, neighbourhood and *)
(* visitor, then about the visitor that builds a max-tree, run by it.      *)
(***************************************************************************)
EXTENDS MaxTree, DataLemmas, SequenceTheorems


(* What the canvas knows of its queue: nothing waits above the current     *)
(* level, and a bucket is not popped beyond what was pushed.               *)
QueueOK ==
    /\ \A l \in Level : begin[l] <= Len(slots[l])
    /\ \A l \in Level : l > cur => IsEmpty(l)

CanvasInv == TypeOK /\ QueueOK /\ CurrentIsTop

(* The levels and the bounds of the buckets are numbers. *)
LEMMA LevelTyped ==
    ASSUME TypeOK
    PROVE  \A l \in Level : Len(slots[l]) \in Nat /\ begin[l] \in Nat /\ l \in Nat
<1>1. \A l \in Level : l \in Nat
  BY DepthFirstAssumption DEF Level
<1>2. \A l \in Level : slots[l] \in Seq(Point) /\ begin[l] \in Nat
  BY DEF TypeOK
<1>3. \A l \in Level : Len(slots[l]) \in Nat
  BY <1>2
<1>4. QED
  BY <1>1, <1>2, <1>3

(* A push writes the point behind those of its bucket and nothing else. *)
LEMMA PushWrites ==
    ASSUME TypeOK, NEW l \in Level, NEW q \in Point, Push(l, q)
    PROVE  /\ slots' \in [Level -> Seq(Point)]
           /\ begin' = begin
           /\ \A m \in Level : Len(slots'[m]) = IF m = l THEN Len(slots[m]) + 1 ELSE Len(slots[m])
           /\ \A m \in Level : \A i \in 1 .. Len(slots[m]) : slots'[m][i] = slots[m][i]
           /\ slots'[l][Len(slots[l]) + 1] = q
           /\ cur' \in Level
           /\ cur' = IF l > cur THEN l ELSE cur
<1>1. slots \in [Level -> Seq(Point)] /\ cur \in Level
  BY DEF TypeOK
<1>2. slots' = [slots EXCEPT ![l] = Append(slots[l], q)]
  BY DEF Push
<1>3. \A m \in Level : slots'[m] = IF m = l THEN Append(slots[l], q) ELSE slots[m]
  BY <1>1, <1>2
<1>4. QED
  BY <1>1, <1>2, <1>3 DEF Push

(* The bucket of the point that is taken is not empty. *)
LEMMA TopIsQueued ==
    ASSUME TypeOK, QueueOK, ~IsEmpty(cur)
    PROVE  /\ begin[cur] + 1 \in 1 .. Len(slots[cur])
           /\ TopPoint \in Point
<1>1. /\ begin[cur] \in Nat /\ begin[cur] <= Len(slots[cur]) /\ begin[cur] # Len(slots[cur])
      /\ slots[cur] \in Seq(Point)
  BY DEF TypeOK, QueueOK, IsEmpty
<1>2. begin[cur] + 1 \in 1 .. Len(slots[cur])
  BY <1>1
<1>3. QED
  BY <1>1, <1>2 DEF TopPoint

(* A pop drops one point; no level above the new current one holds any. *)
LEMMA PopDrops ==
    ASSUME CanvasInv, pc = "scan", Pop
    PROVE  /\ slots' = slots
           /\ begin' \in [Level -> Nat]
           /\ \A m \in Level : begin'[m] = IF m = cur THEN begin[cur] + 1 ELSE begin[m]
           /\ cur' \in Level
           /\ cur' <= cur
           /\ QueueOK'
<1>1. /\ slots \in [Level -> Seq(Point)] /\ begin \in [Level -> Nat] /\ cur \in Level
      /\ ~IsEmpty(cur)
      /\ slots' = slots
      /\ begin' = [begin EXCEPT ![cur] = begin[cur] + 1]
  BY DEF CanvasInv, TypeOK, CurrentIsTop, Pop
<1>2. \A m \in Level : begin'[m] = IF m = cur THEN begin[cur] + 1 ELSE begin[m]
  BY <1>1
<1>3. PICK c \in 0 .. cur : cur' = c /\ GoDown(c)
  BY DEF Pop
<1>4. cur' \in Level /\ cur' <= cur
  BY <1>1, <1>3, DepthFirstAssumption DEF Level
<1>5. \A l \in Level : l > c /\ l <= cur => IsEmpty(l)'
  <2>1. CASE \A l \in c + 1 .. cur : IsEmpty(l)'
    BY <1>1, <1>3, <2>1, DepthFirstAssumption DEF Level
  <2>2. CASE \A l \in 0 .. cur : IsEmpty(l)'
    BY <1>1, <1>3, <2>2, DepthFirstAssumption DEF Level
  <2>3. QED
    BY <1>3, <2>1, <2>2 DEF GoDown
<1>6. \A l \in Level : l > cur => IsEmpty(l)'
  BY <1>1, <1>2 DEF CanvasInv, QueueOK, IsEmpty
<1>7. \A l \in Level : l > cur' => IsEmpty(l)'
  BY <1>1, <1>3, <1>4, <1>5, <1>6, DepthFirstAssumption DEF Level
<1>8. begin[cur] + 1 <= Len(slots[cur])
  BY <1>1, TopIsQueued DEF CanvasInv
<1>9. \A l \in Level : begin'[l] <= Len(slots'[l])
  BY <1>1, <1>2, <1>8 DEF CanvasInv, QueueOK
<1>10. QED
  BY <1>1, <1>2, <1>4, <1>7, <1>9 DEF QueueOK

-----------------------------------------------------------------------------
(* The invariant of the queue. *)

LEMMA CanvasInit == Init => CanvasInv
<1> SUFFICES ASSUME Init PROVE CanvasInv
  OBVIOUS
<1> USE DEF Init
<1>1. f \in [Point -> Level] /\ Start \in Point /\ f[Start] \in Level
  BY DepthFirstAssumption
<1>2. TypeOK
  BY <1>1 DEF TypeOK, NONE, INQUEUE, StatusBits, Level
<1>3. QueueOK
  BY <1>1 DEF QueueOK, IsEmpty, Level
<1>4. CurrentIsTop
  BY <1>1 DEF CurrentIsTop, IsEmpty, TopPoint
<1>5. QED
  BY <1>2, <1>3, <1>4 DEF CanvasInv

(* The neighbour under consideration, when it is a pixel of the domain. *)
LEMMA NeighbourTyped ==
    ASSUME TypeOK, Scanning, IsNew(N)
    PROVE  /\ N \in Point /\ N # p /\ f[N] \in Level /\ status[N] = NONE
           /\ k \in DOMAIN Nbh[p]
           /\ N = Nbh[p][k]
<1>1. Nbh[p] \in Seq(Point \cup Border) /\ p \in Point /\ k \in Nat \ {0} /\ k <= Len(Nbh[p])
  BY DepthFirstAssumption DEF TypeOK, Scanning
<1>2. k \in DOMAIN Nbh[p]
  BY <1>1
<1>3. QED
  BY <1>1, <1>2, DepthFirstAssumption DEF N, IsNew, TypeOK

LEMMA FloodKeeps == CanvasInv /\ Flood => CanvasInv'
<1> SUFFICES ASSUME CanvasInv, Flood PROVE CanvasInv'
  OBVIOUS
<1>1. QED
  BY DEF CanvasInv, Flood, TypeOK, QueueOK, CurrentIsTop, IsEmpty, TopPoint, queueVars

LEMMA SkipKeeps == CanvasInv /\ Skip => CanvasInv'
<1> SUFFICES ASSUME CanvasInv, Skip PROVE CanvasInv'
  OBVIOUS
<1>1. /\ k' = k + 1 /\ pc = "scan"
      /\ UNCHANGED <<f, status, slots, begin, cur, p, level, pstatus, pc, cnt>>
  BY DEF Skip, Scanning, queueVars
<1>2. TypeOK'
  <2>1. k' \in Nat \ {0}
    BY <1>1 DEF CanvasInv, TypeOK
  <2>2. QED
    BY <1>1, <2>1 DEF CanvasInv, TypeOK
<1>3. QueueOK'
  BY <1>1 DEF CanvasInv, QueueOK, IsEmpty
<1>4. CurrentIsTop'
  BY <1>1 DEF CanvasInv, CurrentIsTop, IsEmpty, TopPoint
<1>5. QED
  BY <1>2, <1>3, <1>4 DEF CanvasInv

(* A point pushed at the current level or below leaves the top where it is. *)
LEMMA PostponeKeeps == CanvasInv /\ Postpone => CanvasInv'
<1> SUFFICES ASSUME CanvasInv, Postpone PROVE CanvasInv'
  OBVIOUS
<1>1. TypeOK /\ QueueOK /\ CurrentIsTop /\ Scanning /\ IsNew(N) /\ f[N] <= level /\ Push(f[N], N)
  BY DEF CanvasInv, Postpone
<1>2. N \in Point /\ f[N] \in Level
  BY <1>1, NeighbourTyped
<1>3. cur = level /\ ~IsEmpty(cur) /\ TopPoint = p /\ pc = "scan"
  BY <1>1 DEF CurrentIsTop, Scanning
<1>4. cur \in Nat /\ f[N] \in Nat /\ level \in Nat
  BY <1>1, <1>2, DepthFirstAssumption DEF TypeOK, Level
<1>5. cur' = cur /\ begin' = begin
  BY <1>1, <1>2, <1>3, <1>4, PushWrites
<1>6. TypeOK'
  <2>1. status' \in [Point -> SUBSET StatusBits]
    BY <1>1, <1>2 DEF Postpone, TypeOK, INQUEUE, StatusBits
  <2>2. slots' \in [Level -> Seq(Point)]
    BY <1>1, <1>2, PushWrites
  <2>3. pstatus' \in SUBSET Nat /\ k' \in Nat \ {0}
    BY <1>1 DEF Postpone, TypeOK
  <2>4. QED
    BY <1>1, <1>5, <2>1, <2>2, <2>3 DEF Postpone, TypeOK
<1>7. \A l \in Level : Len(slots'[l]) = IF l = f[N] THEN Len(slots[l]) + 1 ELSE Len(slots[l])
  BY <1>1, <1>2, PushWrites
<1>8. \A l \in Level : Len(slots[l]) \in Nat /\ begin[l] \in Nat /\ l \in Nat
  BY <1>1, LevelTyped
<1>9. QueueOK'
  BY <1>1, <1>2, <1>3, <1>4, <1>5, <1>7, <1>8 DEF QueueOK, IsEmpty
<1>10. CurrentIsTop'
  <2>1. cur \in Level /\ begin[cur] + 1 \in 1 .. Len(slots[cur])
    BY <1>1, <1>3, TopIsQueued DEF TypeOK
  <2>2. slots'[cur][begin[cur] + 1] = slots[cur][begin[cur] + 1]
    BY <1>1, <1>2, <2>1, PushWrites
  <2>3. ~IsEmpty(cur)'
    BY <1>5, <1>7, <1>8, <2>1 DEF IsEmpty
  <2>4. p' = p /\ level' = level
    BY DEF Postpone
  <2>5. QED
    BY <1>3, <1>5, <2>2, <2>3, <2>4 DEF CurrentIsTop, TopPoint, IsEmpty
<1>11. QED
  BY <1>6, <1>9, <1>10 DEF CanvasInv

(* A higher point is alone in its bucket: it is the new top. *)
LEMMA ClimbKeeps == CanvasInv /\ Climb => CanvasInv'
<1> SUFFICES ASSUME CanvasInv, Climb PROVE CanvasInv'
  OBVIOUS
<1>1. TypeOK /\ QueueOK /\ CurrentIsTop /\ Scanning /\ IsNew(N) /\ f[N] > level /\ Push(f[N], N)
  BY DEF CanvasInv, Climb
<1>2. N \in Point /\ f[N] \in Level
  BY <1>1, NeighbourTyped
<1>3. cur = level /\ pc = "scan"
  BY <1>1 DEF CurrentIsTop, Scanning
<1>4. cur \in Nat /\ f[N] \in Nat /\ level \in Nat
  BY <1>1, <1>2, DepthFirstAssumption DEF TypeOK, Level
<1>5. cur' = f[N] /\ begin' = begin
  BY <1>1, <1>2, <1>3, <1>4, PushWrites
<1>6. TypeOK'
  <2>1. status' \in [Point -> SUBSET StatusBits]
    <3>1. INQUEUE \in SUBSET StatusBits /\ ToStatus(pstatus \cup {k}) \in SUBSET StatusBits
      BY DEF INQUEUE, StatusBits, ToStatus
    <3>2. status' = [status EXCEPT ![N] = INQUEUE, ![p] = ToStatus(pstatus \cup {k})]
      BY DEF Climb
    <3>3. status \in [Point -> SUBSET StatusBits]
      BY <1>1 DEF TypeOK
    <3>4. QED
      BY <3>1, <3>2, <3>3
  <2>2. slots' \in [Level -> Seq(Point)]
    BY <1>1, <1>2, PushWrites
  <2>3. QED
    BY <1>1, <1>2, <1>5, <2>1, <2>2 DEF Climb, TypeOK
<1>7. \A l \in Level : Len(slots'[l]) = IF l = f[N] THEN Len(slots[l]) + 1 ELSE Len(slots[l])
  BY <1>1, <1>2, PushWrites
<1>8. \A l \in Level : Len(slots[l]) \in Nat /\ begin[l] \in Nat /\ l \in Nat
  BY <1>1, LevelTyped
<1>9. QueueOK'
  BY <1>1, <1>2, <1>3, <1>4, <1>5, <1>7, <1>8 DEF QueueOK, IsEmpty
<1>10. CurrentIsTop'
  <2>1. begin[f[N]] = Len(slots[f[N]])
    BY <1>1, <1>2, <1>3 DEF QueueOK, IsEmpty
  <2>2. slots'[f[N]][begin[f[N]] + 1] = N
    BY <1>1, <1>2, <2>1, PushWrites
  <2>3. ~IsEmpty(cur)'
    BY <1>2, <1>5, <1>7, <1>8, <2>1 DEF IsEmpty
  <2>4. p' = N /\ level' = f[N]
    BY DEF Climb
  <2>5. QED
    BY <1>5, <2>2, <2>3, <2>4 DEF CurrentIsTop, TopPoint, IsEmpty
<1>11. QED
  BY <1>6, <1>9, <1>10 DEF CanvasInv

(* The point that is finished is the one the pop removes. *)
LEMMA DoneKeeps ==
    ASSUME CanvasInv, DoneSameLevel \/ (\E b \in BOOLEAN : DoneOtherLevel(b)) \/ DoneLast
    PROVE  CanvasInv'
<1>1. TypeOK /\ pc = "scan" /\ Pop /\ FinishPoint
  BY DEF CanvasInv, DoneSameLevel, DoneOtherLevel, DoneLast, FinishPoint
<1>2. /\ slots' = slots /\ begin' \in [Level -> Nat] /\ cur' \in Level
      /\ QueueOK'
  BY <1>1, PopDrops
<1>3. f' = f /\ status' = status /\ cnt' \in [Point -> Nat]
  BY <1>1 DEF FinishPoint, TypeOK
<1>4. CASE TakeTop
  <2>1. ~IsEmpty(cur)' /\ level' = cur' /\ p' = TopPoint' /\ pstatus' = status[p'] /\ k' = 1
    BY <1>4 DEF TakeTop
  <2>2. begin'[cur'] \in Nat /\ begin'[cur'] <= Len(slots'[cur']) /\ begin'[cur'] # Len(slots'[cur'])
    BY <1>2, <2>1 DEF QueueOK, IsEmpty
  <2>3. p' \in Point
    <3> DEFINE s == slots'[cur']
               a == begin'[cur'] + 1
    <3>1. slots' \in [Level -> Seq(Point)] /\ cur' \in Level
      BY <1>1, <1>2 DEF TypeOK
    <3>2. s \in Seq(Point) /\ a \in 1 .. Len(s) /\ p' = s[a]
      <4>1. s \in Seq(Point)
        BY <3>1
      <4>2. a \in 1 .. Len(s)
        BY <2>2, <4>1
      <4>3. QED
        BY <2>1, <4>1, <4>2 DEF TopPoint
    <3> HIDE DEF s, a
    <3>3. QED
      BY <3>2
  <2>4. pstatus' \in SUBSET Nat
    <3>1. status[p'] \in SUBSET StatusBits
      BY <1>1, <2>3 DEF TypeOK
    <3>2. StatusBits \subseteq Nat
      BY DEF StatusBits
    <3>3. pstatus' = status[p']
      BY <1>3, <2>1
    <3>4. QED
      BY <3>1, <3>2, <3>3
  <2>5. pc' \in {"flood", "scan", "end"}
    BY DEF DoneSameLevel, DoneOtherLevel, DoneLast
  <2>6. TypeOK'
    <3>1. /\ f \in [Point -> Level] /\ status \in [Point -> SUBSET StatusBits]
          /\ slots \in [Level -> Seq(Point)]
      BY <1>1 DEF TypeOK
    <3>2. f' = f /\ status' = status /\ slots' = slots
      BY <1>2, <1>3
    <3>3. level' \in Level /\ k' \in Nat \ {0}
      BY <1>2, <2>1
    <3>4. /\ f' \in [Point -> Level] /\ status' \in [Point -> SUBSET StatusBits]
          /\ slots' \in [Level -> Seq(Point)]
      BY <3>1, <3>2
    <3>5. QED
      BY <1>2, <1>3, <2>3, <2>4, <2>5, <3>3, <3>4 DEF TypeOK
  <2>7. CurrentIsTop'
    BY <2>1 DEF CurrentIsTop
  <2>8. QED
    BY <1>2, <2>6, <2>7 DEF CanvasInv
<1>5. CASE DoneLast
  <2>1. TypeOK'
    BY <1>1, <1>2, <1>3, <1>5 DEF TypeOK, DoneLast
  <2>2. CurrentIsTop'
    BY <1>5 DEF CurrentIsTop, DoneLast
  <2>3. QED
    BY <1>2, <2>1, <2>2 DEF CanvasInv
<1>6. QED
  BY <1>4, <1>5 DEF DoneSameLevel, DoneOtherLevel

LEMMA CanvasNext == CanvasInv /\ [Next]_canvasVars => CanvasInv'
<1> SUFFICES ASSUME CanvasInv, [Next]_canvasVars PROVE CanvasInv'
  OBVIOUS
<1>1. CASE Flood
  BY <1>1, FloodKeeps
<1>2. CASE Skip
  BY <1>2, SkipKeeps
<1>3. CASE Postpone
  BY <1>3, PostponeKeeps
<1>4. CASE Climb
  BY <1>4, ClimbKeeps
<1>5. CASE DoneSameLevel \/ (\E b \in BOOLEAN : DoneOtherLevel(b)) \/ DoneLast
  BY <1>5, DoneKeeps
<1>6. CASE UNCHANGED canvasVars
  BY <1>6 DEF CanvasInv, TypeOK, QueueOK, CurrentIsTop, IsEmpty, TopPoint, canvasVars, queueVars
<1>7. QED
  BY <1>1, <1>2, <1>3, <1>4, <1>5, <1>6 DEF Next

(***************************************************************************)
(* The variables of the canvas keep their types.                           *)
(***************************************************************************)
THEOREM TypeCorrect == Spec => []TypeOK
<1>1. Spec => []CanvasInv
  BY CanvasInit, CanvasNext, PTL DEF Spec
<1>2. CanvasInv => TypeOK
  BY DEF CanvasInv
<1>3. QED
  BY <1>1, <1>2, PTL

(***************************************************************************)
(* queue.pop(), called blindly for the point that is finished, removes     *)
(* that very point, whatever the neighbourhood: even when status words are *)
(* truncated and points are pushed twice.                                  *)
(***************************************************************************)
THEOREM PopsTheCurrentPoint == Spec => []CurrentIsTop
<1>1. Spec => []CanvasInv
  BY CanvasInit, CanvasNext, PTL DEF Spec
<1>2. CanvasInv => CurrentIsTop
  BY DEF CanvasInv
<1>3. QED
  BY <1>1, <1>2, PTL

(***************************************************************************)
(* A level is resumed from above: only flood climbs.                       *)
(***************************************************************************)
THEOREM ResumedFromAbove == Spec => OnlyFloodClimbs
<1>1. Spec => []CanvasInv
  BY CanvasInit, CanvasNext, PTL DEF Spec
<1>2. CanvasInv /\ [Next]_canvasVars
      => [(\E b \in BOOLEAN : DoneOtherLevel(b)) => level' < level]_canvasVars
  <2> SUFFICES ASSUME CanvasInv, NEW b \in BOOLEAN, DoneOtherLevel(b) PROVE level' < level
    OBVIOUS
  <2>1. TakeTop /\ Pop /\ pc = "scan" /\ level' # level
    BY DEF DoneOtherLevel, FinishPoint
  <2>2. cur' \in Level /\ cur' <= cur
    BY <2>1, PopDrops
  <2>3. level' = cur' /\ level = cur /\ cur \in Level
    BY <2>1 DEF TakeTop, CanvasInv, CurrentIsTop, TypeOK
  <2>4. QED
    BY <2>1, <2>2, <2>3, DepthFirstAssumption DEF Level
<1>3. QED
  BY <1>1, <1>2, PTL DEF Spec, OnlyFloodClimbs

-----------------------------------------------------------------------------
(***************************************************************************)
(* What the canvas guarantees when the marks of a status word fit in it:   *)
(* with a neighbourhood of at most seven points, each point is processed   *)
(* once and the canvas implements the flooding of PeakFlood.  (With eight, *)
(* like c8, the run with the ring image shows it does not.)                *)
(***************************************************************************)

(* Rank 0 is the mark INQUEUE, ranks 1 to 7 the neighbours of the point. *)
NbhFitsStatus == \A q \in Point : Len(Nbh[q]) < 8

Marked(q) == status[q] # NONE

Pushed(l) == 1 .. Len(slots[l])

(* The marked points are those that were pushed, once, in the bucket of *)
(* their level.                                                         *)
PushedOnce ==
    /\ \A l \in Level : \A a, b \in Pushed(l) : slots[l][a] = slots[l][b] => a = b
    /\ \A l \in Level : \A a \in Pushed(l) : f[slots[l][a]] = l /\ Marked(slots[l][a])
    /\ \A q \in Point : Marked(q) => \E a \in Pushed(f[q]) : slots[f[q]][a] = q

(* The points that are done are those that were popped. *)
PoppedOnce ==
    /\ \A q \in Point : cnt[q] \in {0, 1}
    /\ \A q \in Point : ~Marked(q) => cnt[q] = 0
    /\ \A l \in Level : \A a \in Pushed(l) : cnt[slots[l][a]] = 1 <=> a <= begin[l]

OnceInv == CanvasInv /\ PushedOnce /\ PoppedOnce

-----------------------------------------------------------------------------
LEMMA OnceInit == Init => OnceInv
<1> SUFFICES ASSUME Init PROVE OnceInv
  OBVIOUS
<1>1. CanvasInv
  BY CanvasInit
<1>2. f[Start] \in Level /\ Start \in Point /\ f \in [Point -> Level]
  BY DepthFirstAssumption DEF Init
<1>3. \A l \in Level : slots[l] = IF l = f[Start] THEN <<Start>> ELSE <<>>
  BY <1>2 DEF Init
<1>4. /\ \A l \in Level : \A a \in Pushed(l) : l = f[Start] /\ a = 1 /\ slots[l][a] = Start
      /\ 1 \in Pushed(f[Start]) /\ slots[f[Start]][1] = Start
  <2>1. Len(<<Start>>) = 1 /\ <<Start>>[1] = Start /\ Len(<<>>) = 0
    OBVIOUS
  <2>2. Pushed(f[Start]) = 1 .. 1 /\ slots[f[Start]][1] = Start
    BY <1>2, <1>3, <2>1 DEF Pushed
  <2>3. \A l \in Level : l # f[Start] => Pushed(l) = 1 .. 0
    BY <1>3, <2>1 DEF Pushed
  <2>4. QED
    BY <2>2, <2>3
<1>5. \A q \in Point : Marked(q) <=> q = Start
  <2>1. INQUEUE # NONE
    BY DEF INQUEUE, NONE
  <2>2. QED
    BY <2>1 DEF Init, Marked
<1>6. PushedOnce
  <2>1. \A q \in Point : Marked(q) => \E a \in Pushed(f[q]) : slots[f[q]][a] = q
    BY <1>2, <1>4, <1>5
  <2>2. QED
    BY <1>2, <1>4, <1>5, <2>1 DEF PushedOnce
<1>7. PoppedOnce
  BY <1>2, <1>4, <1>5 DEF PoppedOnce, Init
<1>8. QED
  BY <1>1, <1>6, <1>7 DEF OnceInv

(* A point that is pushed was not marked, hence was never pushed. *)
LEMMA PushKeepsOnce ==
    ASSUME OnceInv, NEW q \in Point, ~Marked(q), f[q] \in Level, Push(f[q], q),
           f' = f, cnt' = cnt,
           \A r \in Point : Marked(r)' <=> Marked(r) \/ r = q
    PROVE  PushedOnce' /\ PoppedOnce'
<1>1. TypeOK /\ PushedOnce /\ PoppedOnce
  BY DEF OnceInv, CanvasInv
<1> DEFINE lq == f[q]
           last == Len(slots[lq]) + 1
<1>2. /\ begin' = begin
      /\ \A m \in Level : Len(slots'[m]) = IF m = lq THEN last ELSE Len(slots[m])
      /\ \A m \in Level : \A a \in 1 .. Len(slots[m]) : slots'[m][a] = slots[m][a]
      /\ slots'[lq][last] = q
  BY <1>1, PushWrites
<1>3. \A m \in Level : m \in Nat /\ Len(slots[m]) \in Nat /\ begin[m] \in Nat
  BY <1>1, LevelTyped
<1>4. \A m \in Level : \A a \in Pushed(m)' :
          \/ a \in Pushed(m) /\ slots'[m][a] = slots[m][a]
          \/ m = lq /\ a = last /\ slots'[m][a] = q
  BY <1>2, <1>3 DEF Pushed
<1>5. \A m \in Level : \A a \in Pushed(m) : (a \in Pushed(m)' /\ a # last) \/ m # lq
  BY <1>2, <1>3 DEF Pushed
<1>6. \A m \in Level : \A a \in Pushed(m) :
          /\ slots[m][a] \in Point /\ slots[m][a] # q
          /\ f[slots[m][a]] = m /\ Marked(slots[m][a])
  BY <1>1 DEF PushedOnce, Pushed, TypeOK
<1>7. \A l \in Level : \A a, b \in Pushed(l)' : slots'[l][a] = slots'[l][b] => a = b
  BY <1>1, <1>4, <1>6 DEF PushedOnce
<1>8. \A l \in Level : \A a \in Pushed(l)' : (f[slots[l][a]] = l /\ Marked(slots[l][a]))'
  <2> SUFFICES ASSUME NEW l \in Level, NEW a \in Pushed(l)'
               PROVE  f[slots'[l][a]] = l /\ status'[slots'[l][a]] # NONE
    BY DEF Marked
  <2>1. \A r \in Point : Marked(r) \/ r = q => status'[r] # NONE
    BY DEF Marked
  <2>2. QED
    BY <1>4, <1>6, <2>1
<1>9. \A r \in Point : Marked(r)' => (\E a \in Pushed(f[r]) : slots[f[r]][a] = r)'
  <2> SUFFICES ASSUME NEW r \in Point, Marked(r)'
               PROVE  \E a \in 1 .. Len(slots'[f[r]]) : slots'[f[r]][a] = r
    BY DEF Pushed
  <2>1. CASE r = q
    <3>1. last \in 1 .. Len(slots'[lq])
      BY <1>2, <1>3 DEF Pushed
    <3>2. QED
      BY <1>2, <2>1, <3>1
  <2>2. CASE r # q
    <3>1. PICK a \in Pushed(f[r]) : slots[f[r]][a] = r
      BY <1>1, <2>2 DEF PushedOnce
    <3>2. f[r] \in Level
      BY <1>1 DEF TypeOK
    <3>3. a \in 1 .. Len(slots'[f[r]]) /\ slots'[f[r]][a] = r
      <4> DEFINE m == f[r]
      <4>1. m \in Level /\ a \in Pushed(m) /\ slots[m][a] = r
        BY <3>1, <3>2
      <4> HIDE DEF m
      <4>2. a \in 1 .. Len(slots'[m]) /\ slots'[m][a] = r
        BY <1>2, <1>3, <4>1 DEF Pushed
      <4>3. QED
        BY <4>2 DEF m
    <3>4. QED
      BY <3>3
  <2>3. QED
    BY <2>1, <2>2
<1>10. PushedOnce'
  BY <1>7, <1>8, <1>9 DEF PushedOnce
<1>11. \A l \in Level : \A a \in Pushed(l)' : cnt'[slots'[l][a]] = 1 <=> a <= begin'[l]
  <2> SUFFICES ASSUME NEW l \in Level, NEW a \in Pushed(l)'
               PROVE  cnt[slots'[l][a]] = 1 <=> a <= begin[l]
    BY <1>2
  <2>1. CASE a \in Pushed(l) /\ slots'[l][a] = slots[l][a]
    BY <1>1, <2>1 DEF PoppedOnce
  <2>2. CASE l = lq /\ a = last /\ slots'[l][a] = q
    <3>1. begin[lq] <= Len(slots[lq])
      BY DEF OnceInv, CanvasInv, QueueOK
    <3>2. ~(last <= begin[lq])
      BY <1>3, <3>1
    <3>3. cnt[q] = 0
      BY <1>1 DEF PoppedOnce
    <3>4. QED
      BY <2>2, <3>2, <3>3
  <2>3. QED
    BY <1>4, <2>1, <2>2
<1>12. PoppedOnce'
  BY <1>1, <1>11 DEF PoppedOnce
<1>13. QED
  BY <1>10, <1>12

-----------------------------------------------------------------------------
(* The marks of the points after each kind of step. *)
LEMMA PostponeMarks ==
    ASSUME TypeOK, Postpone
    PROVE  /\ N \in Point /\ ~Marked(N) /\ f[N] \in Level /\ N # p
           /\ \A r \in Point : Marked(r)' <=> Marked(r) \/ r = N
           /\ \A r \in Point : r # N => status'[r] = status[r]
<1>1. Scanning /\ IsNew(N) /\ status' = [status EXCEPT ![N] = INQUEUE]
  BY DEF Postpone
<1>2. N \in Point /\ ~Marked(N) /\ f[N] \in Level /\ N # p
  BY <1>1, NeighbourTyped DEF Marked
<1>3. status \in [Point -> SUBSET StatusBits] /\ INQUEUE # NONE
  BY DEF TypeOK, INQUEUE, NONE
<1>4. QED
  BY <1>1, <1>2, <1>3 DEF Marked

LEMMA ClimbMarks ==
    ASSUME NbhFitsStatus, TypeOK, Climb, Marked(p)
    PROVE  /\ N \in Point /\ ~Marked(N) /\ f[N] \in Level /\ N # p
           /\ k \in StatusBits
           /\ \A r \in Point : Marked(r)' <=> Marked(r) \/ r = N
           /\ \A r \in Point : r # N /\ r # p => status'[r] = status[r]
           /\ status'[p] = ToStatus(pstatus \cup {k})
           /\ status'[N] = INQUEUE
<1>1. /\ Scanning /\ IsNew(N)
      /\ status' = [status EXCEPT ![N] = INQUEUE, ![p] = ToStatus(pstatus \cup {k})]
  BY DEF Climb
<1>2. N \in Point /\ ~Marked(N) /\ f[N] \in Level /\ N # p
  BY <1>1, NeighbourTyped DEF Marked
<1>3. status \in [Point -> SUBSET StatusBits] /\ INQUEUE # NONE /\ p \in Point
  BY DEF TypeOK, INQUEUE, NONE
<1>4. k \in StatusBits
  <2>1. k \in Nat \ {0} /\ k <= Len(Nbh[p]) /\ Len(Nbh[p]) < 8
    BY <1>1, <1>3 DEF TypeOK, Scanning, NbhFitsStatus
  <2>2. Len(Nbh[p]) \in Nat
    BY <1>3, DepthFirstAssumption
  <2>3. QED
    BY <2>1, <2>2 DEF StatusBits
<1>5. ToStatus(pstatus \cup {k}) # NONE
  BY <1>4 DEF ToStatus, NONE
<1>6. /\ status'[N] = INQUEUE
      /\ status'[p] = ToStatus(pstatus \cup {k})
      /\ \A r \in Point : r # N /\ r # p => status'[r] = status[r]
  BY <1>1, <1>2, <1>3
<1>7. \A r \in Point : Marked(r)' <=> Marked(r) \/ r = N
  BY <1>2, <1>3, <1>5, <1>6 DEF Marked
<1>8. QED
  BY <1>2, <1>4, <1>6, <1>7

(* The current point was pushed and is not done yet. *)
LEMMA CurrentIsOpen ==
    ASSUME OnceInv, pc # "end"
    PROVE  /\ Marked(p) /\ cnt[p] = 0
           /\ cur \in Level /\ begin[cur] + 1 \in Pushed(cur)
           /\ p = slots[cur][begin[cur] + 1]
           /\ f[p] = cur /\ cur = level
<1>1. TypeOK /\ QueueOK /\ CurrentIsTop /\ PushedOnce /\ PoppedOnce
  BY DEF OnceInv, CanvasInv
<1>2. cur = level /\ cur \in Level /\ p = slots[cur][begin[cur] + 1] /\ p \in Point
  BY <1>1 DEF CurrentIsTop, TopPoint, TypeOK
<1>3. begin[cur] + 1 \in Pushed(cur)
  BY <1>1, TopIsQueued DEF CurrentIsTop, Pushed
<1>4. begin[cur] \in Nat
  BY <1>1, <1>2 DEF TypeOK
<1>5. cnt[p] # 1 /\ cnt[p] \in {0, 1}
  BY <1>1, <1>2, <1>3, <1>4 DEF PoppedOnce
<1>6. QED
  BY <1>1, <1>2, <1>3, <1>5 DEF PushedOnce

(* The pop and the call of on_done concern the same point. *)
LEMMA DoneKeepsOnce ==
    ASSUME OnceInv, FinishPoint
    PROVE  PushedOnce' /\ PoppedOnce'
<1>1. CanvasInv /\ TypeOK /\ PushedOnce /\ PoppedOnce /\ pc = "scan"
  BY DEF OnceInv, CanvasInv, FinishPoint
<1>2. /\ slots' = slots /\ f' = f /\ status' = status
      /\ cnt' = [cnt EXCEPT ![p] = cnt[p] + 1]
      /\ \A m \in Level : begin'[m] = IF m = cur THEN begin[cur] + 1 ELSE begin[m]
  BY <1>1, PopDrops DEF FinishPoint
<1>3. /\ Marked(p) /\ cnt[p] = 0
      /\ cur \in Level /\ begin[cur] + 1 \in Pushed(cur)
      /\ p = slots[cur][begin[cur] + 1] /\ f[p] = cur
  BY <1>1, CurrentIsOpen
<1>4. p \in Point /\ cnt \in [Point -> Nat] /\ cnt'[p] = 1
  BY <1>1, <1>2, <1>3 DEF TypeOK
<1>5. \A q \in Point : q # p => cnt'[q] = cnt[q]
  BY <1>2, <1>4
<1>6. PushedOnce'
  BY <1>1, <1>2 DEF PushedOnce, Pushed, Marked
<1>7. \A l \in Level : \A a \in Pushed(l) : cnt'[slots[l][a]] = 1 <=> a <= begin'[l]
  <2> SUFFICES ASSUME NEW l \in Level, NEW a \in Pushed(l)
               PROVE  cnt'[slots[l][a]] = 1 <=> a <= begin'[l]
    OBVIOUS
  <2>1. begin[l] \in Nat /\ a \in Nat /\ slots[l][a] \in Point
    BY <1>1 DEF TypeOK, Pushed
  <2>2. cnt[slots[l][a]] = 1 <=> a <= begin[l]
    BY <1>1 DEF PoppedOnce
  <2>3. CASE slots[l][a] = p
    <3>1. l = cur
      BY <1>1, <1>3, <2>3 DEF PushedOnce
    <3>2. a = begin[cur] + 1
      BY <1>1, <1>3, <2>3, <3>1 DEF PushedOnce
    <3>3. QED
      BY <1>2, <1>4, <2>1, <2>3, <3>1, <3>2
  <2>4. CASE slots[l][a] # p
    <3>1. cnt'[slots[l][a]] = cnt[slots[l][a]]
      BY <1>5, <2>1, <2>4
    <3>2. l = cur => a # begin[cur] + 1
      BY <1>3, <2>4
    <3>3. QED
      BY <1>2, <2>1, <2>2, <3>1, <3>2
  <2>5. QED
    BY <2>3, <2>4
<1>8. PoppedOnce'
  <2>1. \A q \in Point : cnt'[q] \in {0, 1}
    BY <1>1, <1>4, <1>5 DEF PoppedOnce
  <2>2. \A q \in Point : ~Marked(q)' => cnt'[q] = 0
    BY <1>1, <1>2, <1>3, <1>5 DEF PoppedOnce, Marked
  <2>3. QED
    BY <1>2, <1>7, <2>1, <2>2 DEF PoppedOnce, Pushed
<1>9. QED
  BY <1>6, <1>8

LEMMA OnceNext ==
    ASSUME NbhFitsStatus, OnceInv, [Next]_canvasVars
    PROVE  OnceInv'
<1>1. CanvasInv'
  BY CanvasNext DEF OnceInv
<1>2. TypeOK
  BY DEF OnceInv, CanvasInv
<1>3. CASE Flood \/ Skip \/ UNCHANGED canvasVars
  <2>1. slots' = slots /\ begin' = begin /\ f' = f /\ status' = status /\ cnt' = cnt
    BY <1>3 DEF Flood, Skip, canvasVars, queueVars
  <2>2. QED
    BY <1>1, <2>1 DEF OnceInv, PushedOnce, PoppedOnce, Pushed, Marked
<1>4. CASE Postpone
  <2>1. Push(f[N], N) /\ f' = f /\ cnt' = cnt
    BY <1>4 DEF Postpone
  <2>2. PushedOnce' /\ PoppedOnce'
    BY <1>2, <1>4, <2>1, PostponeMarks, PushKeepsOnce
  <2>3. QED
    BY <1>1, <2>2 DEF OnceInv
<1>5. CASE Climb
  <2>1. Push(f[N], N) /\ f' = f /\ cnt' = cnt /\ Marked(p)
    BY <1>5, CurrentIsOpen DEF Climb, Scanning
  <2>2. PushedOnce' /\ PoppedOnce'
    BY <1>2, <1>5, <2>1, ClimbMarks, PushKeepsOnce
  <2>3. QED
    BY <1>1, <2>2 DEF OnceInv
<1>6. CASE DoneSameLevel \/ (\E b \in BOOLEAN : DoneOtherLevel(b)) \/ DoneLast
  <2>1. FinishPoint
    BY <1>6 DEF DoneSameLevel, DoneOtherLevel, DoneLast
  <2>2. QED
    BY <1>1, <2>1, DoneKeepsOnce DEF OnceInv
<1>7. QED
  BY <1>3, <1>4, <1>5, <1>6 DEF Next
-----------------------------------------------------------------------------
(***************************************************************************)
(* on_done is called at most once for a point: what the test of the canvas *)
(* expects, for every image and every neighbourhood that fits a status.    *)
(***************************************************************************)
THEOREM EachPointOnce ==
    ASSUME NbhFitsStatus
    PROVE  Spec => []DoneOnce
<1>1. OnceInv /\ [Next]_canvasVars => OnceInv'
  BY OnceNext
<1>2. OnceInv => DoneOnce
  BY DEF OnceInv, PoppedOnce, DoneOnce
<1>3. QED
  BY OnceInit, <1>1, <1>2, PTL DEF Spec

(* The points of a bucket are different points of its level. *)
LEMMA BucketFits == OnceInv => BucketsNeverOverflow
<1> SUFFICES ASSUME OnceInv, NEW l \in Level
             PROVE  Len(slots[l]) <= Capacity(l)
  BY DEF BucketsNeverOverflow
<1> DEFINE S == {q \in Point : f[q] = l}
           g == [a \in 1 .. Len(slots[l]) |-> slots[l][a]]
<1>1. TypeOK /\ PushedOnce
  BY DEF OnceInv, CanvasInv
<1>2. IsFiniteSet(S)
  BY DepthFirstAssumption, FS_Subset
<1>3. Len(slots[l]) \in Nat
  BY <1>1, LevelTyped
<1>4. \A a \in 1 .. Len(slots[l]) : slots[l][a] \in S
  BY <1>1 DEF PushedOnce, Pushed, TypeOK
<1>5. g \in Injection(1 .. Len(slots[l]), S)
  BY <1>1, <1>4 DEF Injection, IsInjective, PushedOnce, Pushed
<1>6. Cardinality(1 .. Len(slots[l])) <= Cardinality(S)
  BY <1>2, <1>5, FS_Injection
<1>7. Cardinality(1 .. Len(slots[l])) = Len(slots[l])
  BY <1>3, FS_Interval
<1>8. QED
  BY <1>6, <1>7 DEF Capacity

(***************************************************************************)
(* hvectors::push_back never writes past the end of a bucket.              *)
(***************************************************************************)
THEOREM BucketsFit ==
    ASSUME NbhFitsStatus
    PROVE  Spec => []BucketsNeverOverflow
<1>1. OnceInv /\ [Next]_canvasVars => OnceInv'
  BY OnceNext
<1>2. QED
  BY OnceInit, BucketFits, <1>1, PTL DEF Spec

-----------------------------------------------------------------------------
(***************************************************************************)
(* The canvas implements PeakFlood.                                        *)
(***************************************************************************)

(* The neighbour of rank a of q is marked or is out of the domain. *)
NbhMarked(q, a) == Nbh[q][a] \in Point => Marked(Nbh[q][a])

(* The ranks recorded in the status words, and those the scan is past, are *)
(* those of marked neighbours.                                             *)
ScanInv ==
    /\ \A q \in Point : \A a \in DOMAIN Nbh[q] : a \in status[q] => NbhMarked(q, a)
    /\ pc = "scan" => \A a \in DOMAIN Nbh[p] : a < k \/ a \in pstatus => NbhMarked(p, a)

FloodInv == OnceInv /\ ScanInv

LEMMA ScanInit == Init => ScanInv
<1> SUFFICES ASSUME Init PROVE ScanInv
  OBVIOUS
<1>1. \A q \in Point : \A a \in DOMAIN Nbh[q] : a \notin status[q]
  <2> SUFFICES ASSUME NEW q \in Point, NEW a \in DOMAIN Nbh[q] PROVE a \notin status[q]
    OBVIOUS
  <2>1. Nbh[q] \in Seq(Point \cup Border)
    BY DepthFirstAssumption
  <2>2. a # 0
    BY <2>1
  <2>3. status[q] \subseteq {0}
    BY DEF Init, NONE, INQUEUE
  <2>4. QED
    BY <2>2, <2>3
<1>2. pc # "scan"
  BY DEF Init
<1>3. QED
  BY <1>1, <1>2 DEF ScanInv

(* A rank of a neighbour is not the mark INQUEUE. *)
LEMMA RanksArePositive ==
    \A q \in Point : \A a \in DOMAIN Nbh[q] : a \in Nat \ {0}
<1> SUFFICES ASSUME NEW q \in Point PROVE \A a \in DOMAIN Nbh[q] : a \in Nat \ {0}
  OBVIOUS
<1>1. Nbh[q] \in Seq(Point \cup Border)
  BY DepthFirstAssumption
<1>2. QED
  BY <1>1

(* The same in the next state, for a point and a rank of this one. *)
MarkedAfter(q) == status'[q] # NONE

NbhMarkedAfter(q, a) == Nbh[q][a] \in Point => MarkedAfter(Nbh[q][a])

(* Once marked, a point stays so. *)
LEMMA MarksStay ==
    ASSUME NbhFitsStatus, OnceInv, [Next]_canvasVars
    PROVE  \A q \in Point : Marked(q) => MarkedAfter(q)
<1>1. TypeOK
  BY DEF OnceInv, CanvasInv
<1>2. CASE Postpone
  BY <1>1, <1>2, PostponeMarks DEF Marked, MarkedAfter
<1>3. CASE Climb
  <2>1. Marked(p)
    BY <1>3, CurrentIsOpen DEF Climb, Scanning
  <2>2. QED
    BY <1>1, <1>3, <2>1, ClimbMarks DEF Marked, MarkedAfter
<1>4. CASE status' = status
  BY <1>4 DEF Marked, MarkedAfter
<1>5. QED
  BY <1>2, <1>3, <1>4
     DEF Next, Flood, Skip, DoneSameLevel, DoneOtherLevel, DoneLast, FinishPoint, canvasVars

(* When a step records ranks of marked neighbours only, the words are sound. *)
LEMMA WordsKeep ==
    ASSUME ScanInv, \A q \in Point : Marked(q) => MarkedAfter(q),
           \A q \in Point : \A a \in DOMAIN Nbh[q] :
               a \in status'[q] => a \in status[q] \/ NbhMarkedAfter(q, a)
    PROVE  \A q \in Point : \A a \in DOMAIN Nbh[q] : a \in status'[q] => NbhMarkedAfter(q, a)
BY DEF ScanInv, NbhMarked, NbhMarkedAfter

LEMMA ScanNext ==
    ASSUME NbhFitsStatus, FloodInv, [Next]_canvasVars
    PROVE  ScanInv'
<1>1. OnceInv /\ TypeOK /\ ScanInv /\ p \in Point /\ k \in Nat
  BY DEF FloodInv, OnceInv, CanvasInv, TypeOK
<1>2. \A q \in Point : Marked(q) => MarkedAfter(q)
  BY <1>1, MarksStay
<1>3. \A q \in Point : \A a \in DOMAIN Nbh[q] : NbhMarked(q, a) => NbhMarkedAfter(q, a)
  BY <1>2 DEF NbhMarked, NbhMarkedAfter
<1>4. \A a \in DOMAIN Nbh[p] : a \in Nat \ {0}
  BY <1>1, RanksArePositive
<1>5. CASE status' = status
  <2>1. \A q \in Point : \A a \in DOMAIN Nbh[q] : a \in status'[q] => NbhMarkedAfter(q, a)
    BY <1>1, <1>2, <1>5, WordsKeep
  <2>2. CASE Flood
    <3>1. p' = p /\ k' = 1 /\ pstatus' = {}
      BY <2>2 DEF Flood
    <3>2. QED
      BY <1>4, <2>1, <3>1 DEF ScanInv, NbhMarked, Marked, NbhMarkedAfter, MarkedAfter
  <2>3. CASE Skip
    <3>1. p' = p /\ k' = k + 1 /\ pstatus' = pstatus /\ pc = "scan" /\ (k \in pstatus \/ ~IsNew(N))
      BY <2>3 DEF Skip, Scanning
    <3>2. k \in DOMAIN Nbh[p] => NbhMarked(p, k)
      BY <1>1, <3>1 DEF ScanInv, IsNew, N, NbhMarked, Marked
    <3>3. \A a \in DOMAIN Nbh[p] : a < k + 1 \/ a \in pstatus => NbhMarked(p, a)
      BY <1>1, <1>4, <3>1, <3>2 DEF ScanInv
    <3>4. \A a \in DOMAIN Nbh[p] : a < k + 1 \/ a \in pstatus => NbhMarkedAfter(p, a)
      BY <1>1, <1>3, <3>3
    <3>5. QED
      BY <2>1, <3>1, <3>4 DEF ScanInv, NbhMarked, Marked, NbhMarkedAfter, MarkedAfter
  <2>4. CASE TakeTop /\ OnceInv'
    <3>1. p' \in Point /\ k' = 1 /\ pstatus' = status'[p']
      BY <1>5, <2>4 DEF TakeTop, OnceInv, CanvasInv, TypeOK
    <3>2. \A a \in DOMAIN Nbh[p'] : a \in Nat \ {0}
      BY <3>1, RanksArePositive
    <3>3. QED
      BY <2>1, <3>1, <3>2 DEF ScanInv, NbhMarked, Marked, NbhMarkedAfter, MarkedAfter
  <2>5. CASE pc' = "end"
    BY <2>1, <2>5 DEF ScanInv, NbhMarked, Marked, NbhMarkedAfter, MarkedAfter
  <2>6. CASE UNCHANGED canvasVars
    BY <1>1, <2>6 DEF ScanInv, NbhMarked, Marked, canvasVars
  <2>7. OnceInv'
    BY <1>1, OnceNext
  <2>8. CASE Postpone \/ Climb
    <3>1. N \in Point /\ ~Marked(N) /\ MarkedAfter(N)
      <4>1. CASE Postpone
        BY <1>1, <4>1, PostponeMarks DEF Marked, MarkedAfter
      <4>2. CASE Climb
        <5>1. Marked(p)
          BY <1>1, <4>2, CurrentIsOpen DEF Climb, Scanning
        <5>2. QED
          BY <1>1, <4>2, <5>1, ClimbMarks DEF Marked, MarkedAfter
      <4>3. QED
        BY <2>8, <4>1, <4>2
    <3>2. QED
      BY <1>5, <3>1 DEF Marked, MarkedAfter
  <2>9. QED
    BY <2>2, <2>3, <2>4, <2>5, <2>6, <2>7, <2>8 DEF Next, DoneSameLevel, DoneOtherLevel, DoneLast
<1>6. CASE Postpone
  <2>1. /\ N \in Point /\ N # p /\ MarkedAfter(N)
        /\ \A r \in Point : r # N => status'[r] = status[r]
    BY <1>1, <1>6, PostponeMarks DEF Marked, MarkedAfter
  <2>2. /\ status'[N] = INQUEUE /\ pc = "scan" /\ p' = p
        /\ k' = k + 1 /\ pstatus' = pstatus \cup {k}
    BY <1>1, <1>6, <2>1 DEF Postpone, Scanning, TypeOK
  <2>3. \A q \in Point : \A a \in DOMAIN Nbh[q] : a \in status'[q] => NbhMarkedAfter(q, a)
    BY <1>1, <1>2, <2>1, <2>2, RanksArePositive, WordsKeep DEF INQUEUE
  <2>4. NbhMarkedAfter(p, k)
    BY <2>1, <2>2 DEF NbhMarkedAfter, N
  <2>5. \A a \in DOMAIN Nbh[p] : a < k \/ a \in pstatus => NbhMarkedAfter(p, a)
    BY <1>1, <1>3, <2>2 DEF ScanInv
  <2>6. \A a \in DOMAIN Nbh[p] : a < k' \/ a \in pstatus' => NbhMarkedAfter(p, a)
    BY <1>1, <1>4, <2>2, <2>4, <2>5
  <2>7. QED
    BY <2>2, <2>3, <2>6 DEF ScanInv, NbhMarked, Marked, NbhMarkedAfter, MarkedAfter
<1>7. CASE Climb
  <2>1. Marked(p) /\ pc = "scan" /\ pc' = "flood"
    BY <1>1, <1>7, CurrentIsOpen DEF Climb, Scanning
  <2>2. /\ N \in Point /\ MarkedAfter(N) /\ N # p
        /\ \A r \in Point : r # N /\ r # p => status'[r] = status[r]
        /\ status'[p] = ToStatus(pstatus \cup {k})
        /\ status'[N] = INQUEUE
    BY <1>1, <1>7, <2>1, ClimbMarks DEF Marked, MarkedAfter
  <2>3. k \in DOMAIN Nbh[p] => Nbh[p][k] = N
    BY DEF N
  <2>4. \A a \in DOMAIN Nbh[p] : a \in status'[p] => NbhMarkedAfter(p, a)
    <3> SUFFICES ASSUME NEW a \in DOMAIN Nbh[p], a \in status'[p] PROVE NbhMarkedAfter(p, a)
      BY <1>7 DEF Climb
    <3>1. CASE a = k
      BY <2>2, <2>3, <3>1 DEF NbhMarkedAfter
    <3>2. CASE a \in pstatus
      BY <1>1, <1>3, <2>1, <3>2 DEF ScanInv
    <3>3. QED
      BY <2>2, <3>1, <3>2 DEF ToStatus
  <2>5. \A q \in Point : \A a \in DOMAIN Nbh[q] : a \in status'[q] => NbhMarkedAfter(q, a)
    BY <1>1, <1>2, <2>2, <2>4, RanksArePositive, WordsKeep DEF INQUEUE
  <2>6. QED
    BY <2>1, <2>5 DEF ScanInv, NbhMarked, Marked, NbhMarkedAfter, MarkedAfter
<1>8. QED
  BY <1>5, <1>6, <1>7
     DEF Next, Flood, Skip, DoneSameLevel, DoneOtherLevel, DoneLast, FinishPoint, canvasVars
(* No open point is above the current level: it would wait in the queue. *)
LEMMA CurrentIsHighest ==
    ASSUME OnceInv, NEW q \in Point, Marked(q), cnt[q] = 0
    PROVE  f[q] <= cur
<1>1. TypeOK /\ QueueOK /\ PushedOnce /\ PoppedOnce
  BY DEF OnceInv, CanvasInv
<1>2. PICK a \in Pushed(f[q]) : slots[f[q]][a] = q
  BY <1>1 DEF PushedOnce
<1>3. f[q] \in Level
  BY <1>1 DEF TypeOK
<1>4. ~(a <= begin[f[q]])
  BY <1>1, <1>2, <1>3 DEF PoppedOnce
<1>5. /\ f[q] \in Nat /\ cur \in Nat
      /\ Len(slots[f[q]]) \in Nat /\ begin[f[q]] \in Nat
  BY <1>1, <1>3, LevelTyped DEF TypeOK
<1>6. begin[f[q]] # Len(slots[f[q]])
  BY <1>4, <1>5 DEF Pushed
<1>7. QED
  BY <1>1, <1>3, <1>5, <1>6 DEF QueueOK, IsEmpty

LEMMA PeakInit == Init => Peak!Init
<1> SUFFICES ASSUME Init PROVE Peak!Init
  OBVIOUS
<1>1. Start \in Point /\ status[Start] = INQUEUE /\ INQUEUE # NONE
  BY DepthFirstAssumption DEF Init, INQUEUE, NONE
<1>2. \A q \in Point : ~(cnt[q] > 0)
  BY DEF Init
<1>3. QED
  BY <1>1, <1>2 DEF Peak!Init

(* A neighbour that is pushed is discovered from the current point. *)
LEMMA PushDiscovers ==
    ASSUME FloodInv, Scanning, N \in Point, ~Marked(N),
           \A r \in Point : MarkedAfter(r) <=> Marked(r) \/ r = N,
           f' = f, cnt' = cnt
    PROVE  Peak!Next
<1>1. OnceInv /\ TypeOK /\ p \in Point /\ k \in Nat \ {0} /\ k <= Len(Nbh[p])
  BY DEF FloodInv, OnceInv, CanvasInv, TypeOK, Scanning
<1>2. Marked(p) /\ cnt[p] = 0
  BY <1>1, CurrentIsOpen DEF Scanning
<1>3. <<p, N>> \in Adjacent
  <2>1. Nbh[p] \in Seq(Point \cup Border)
    BY <1>1, DepthFirstAssumption
  <2>2. k \in DOMAIN Nbh[p]
    BY <1>1, <2>1
  <2>3. QED
    BY <1>1, <2>2 DEF Adjacent, N
<1>4. p \in Peak!Open
  BY <1>1, <1>2 DEF Peak!Open, Marked
<1>5. {q \in Point : status'[q] # NONE} = {q \in Point : status[q] # NONE} \cup {N}
  BY DEF Marked, MarkedAfter
<1>6. N \in Point \ {q \in Point : status[q] # NONE}
  BY DEF Marked
<1>7. QED
  BY <1>3, <1>4, <1>5, <1>6 DEF Peak!Discover, Peak!Next

(* A point that is done is finished. *)
LEMMA DoneFinishes ==
    ASSUME FloodInv, FinishPoint
    PROVE  Peak!Next
<1>1. /\ OnceInv /\ TypeOK /\ ScanInv /\ pc = "scan" /\ p \in Point
      /\ k > Len(Nbh[p]) /\ k \in Nat
  BY DEF FloodInv, OnceInv, CanvasInv, TypeOK, FinishPoint
<1>2. Marked(p) /\ cnt[p] = 0 /\ f[p] = cur
  BY <1>1, CurrentIsOpen
<1>3. p \in Peak!Open
  BY <1>1, <1>2 DEF Peak!Open, Marked
<1>4. \A q \in Point : <<p, q>> \in Adjacent => status[q] # NONE
  <2> SUFFICES ASSUME NEW q \in Point, <<p, q>> \in Adjacent PROVE Marked(q)
    BY DEF Marked
  <2>1. PICK a \in DOMAIN Nbh[p] : Nbh[p][a] = q
    BY DEF Adjacent
  <2>2. Nbh[p] \in Seq(Point \cup Border)
    BY <1>1, DepthFirstAssumption
  <2>3. a < k
    BY <1>1, <2>1, <2>2
  <2>4. QED
    BY <1>1, <2>1, <2>3 DEF ScanInv, NbhMarked
<1>5. \A q \in Peak!Open : f[q] <= f[p]
  <2> SUFFICES ASSUME NEW q \in Peak!Open PROVE f[q] <= f[p]
    OBVIOUS
  <2>1. q \in Point /\ Marked(q) /\ ~(cnt[q] > 0)
    BY DEF Peak!Open, Marked
  <2>2. cnt[q] = 0
    BY <1>1, <2>1 DEF OnceInv, PoppedOnce
  <2>3. QED
    BY <1>1, <1>2, <2>1, <2>2, CurrentIsHighest
<1>6. {q \in Point : cnt'[q] > 0} = {q \in Point : cnt[q] > 0} \cup {p}
  <2>1. cnt \in [Point -> Nat] /\ cnt' = [cnt EXCEPT ![p] = cnt[p] + 1]
    BY <1>1 DEF TypeOK, FinishPoint
  <2>2. QED
    BY <1>1, <2>1
<1>7. f' = f /\ status' = status
  BY DEF FinishPoint
<1>8. QED
  BY <1>1, <1>3, <1>4, <1>5, <1>6, <1>7 DEF Peak!Finish, Peak!Next

LEMMA PeakNext ==
    ASSUME NbhFitsStatus, FloodInv, [Next]_canvasVars
    PROVE  [Peak!Next]_(Peak!vars)
<1>1. OnceInv /\ TypeOK /\ p \in Point
  BY DEF FloodInv, OnceInv, CanvasInv, TypeOK
<1>2. CASE Postpone
  <2>1. Scanning /\ f' = f /\ cnt' = cnt
    BY <1>2 DEF Postpone
  <2>2. N \in Point /\ ~Marked(N) /\ \A r \in Point : MarkedAfter(r) <=> Marked(r) \/ r = N
    BY <1>1, <1>2, PostponeMarks DEF Marked, MarkedAfter
  <2>3. QED
    BY <2>1, <2>2, PushDiscovers
<1>3. CASE Climb
  <2>1. Scanning /\ f' = f /\ cnt' = cnt /\ Marked(p)
    BY <1>1, <1>3, CurrentIsOpen DEF Climb, Scanning
  <2>2. N \in Point /\ ~Marked(N) /\ \A r \in Point : MarkedAfter(r) <=> Marked(r) \/ r = N
    BY <1>1, <1>3, <2>1, ClimbMarks DEF Marked, MarkedAfter
  <2>3. QED
    BY <2>1, <2>2, PushDiscovers
<1>4. CASE FinishPoint
  BY <1>1, <1>4, DoneFinishes
<1>5. CASE f' = f /\ status' = status /\ cnt' = cnt
  BY <1>5 DEF Peak!vars
<1>6. QED
  BY <1>2, <1>3, <1>4, <1>5
     DEF Next, Flood, Skip, DoneSameLevel, DoneOtherLevel, DoneLast, canvasVars

LEMMA FloodInvariant ==
    ASSUME NbhFitsStatus
    PROVE  Spec => []FloodInv
<1>1. Init => FloodInv
  BY OnceInit, ScanInit DEF FloodInv
<1>2. FloodInv /\ [Next]_canvasVars => FloodInv'
  BY OnceNext, ScanNext DEF FloodInv
<1>3. QED
  BY <1>1, <1>2, PTL DEF Spec

(***************************************************************************)
(* Each step of the canvas discovers a neighbour of an open point,         *)
(* finishes a highest open point whose neighbours are all discovered, or   *)
(* changes nothing of the abstract flooding.                               *)
(***************************************************************************)
THEOREM CanvasFloodsPeaks ==
    ASSUME NbhFitsStatus
    PROVE  Spec => ImplementsPeakFlood
<1>1. FloodInv /\ [Next]_canvasVars => [Peak!Next]_(Peak!vars)
  BY PeakNext
<1>2. QED
  BY FloodInvariant, PeakInit, <1>1, PTL DEF Spec, ImplementsPeakFlood, Peak!Spec

(* In the abstract flooding, a point is finished after its higher neighbours. *)
LEMMA HigherFirstStep ==
    ASSUME FloodInv, Peak!HigherFirst, [Peak!Next]_(Peak!vars)
    PROVE  Peak!HigherFirst'
<1>1. f \in [Point -> Level] /\ \A q \in Point : f[q] \in Nat
  BY LevelTyped DEF FloodInv, OnceInv, CanvasInv, TypeOK
<1>2. CASE UNCHANGED Peak!vars
  BY <1>2 DEF Peak!vars, Peak!HigherFirst
<1>3. ASSUME NEW q \in Point, Peak!Discover(q) PROVE Peak!HigherFirst'
  BY <1>3 DEF Peak!Discover, Peak!HigherFirst
<1>4. ASSUME NEW q \in Point, Peak!Finish(q) PROVE Peak!HigherFirst'
  BY <1>1, <1>4 DEF Peak!Finish, Peak!Open, Peak!HigherFirst
<1>5. QED
  BY <1>2, <1>3, <1>4 DEF Peak!Next

(***************************************************************************)
(* The order the test of the canvas expects: of two neighbours the higher  *)
(* one is done first, so that a peak is complete before what surrounds it. *)
(***************************************************************************)
THEOREM PeaksFirst ==
    ASSUME NbhFitsStatus
    PROVE  Spec => []Peak!HigherFirst
<1>1. Init => Peak!HigherFirst
  BY DEF Init, Peak!HigherFirst
<1>2. FloodInv /\ [Next]_canvasVars => [Peak!Next]_(Peak!vars)
  BY PeakNext
<1>3. FloodInv /\ Peak!HigherFirst /\ [Peak!Next]_(Peak!vars) => Peak!HigherFirst'
  BY HigherFirstStep
<1>4. QED
  BY FloodInvariant, <1>1, <1>2, <1>3, PTL DEF Spec

-----------------------------------------------------------------------------
(* The visitor of the max-tree. *)

(* The entries of the stack: they name nodes that are created. *)
Entries == [id : NodeIds, level : Level]

StackTyped == (pc # "end" => nodes \in Seq(Int)) /\ roots \in Seq(Entries)

Increasing(s) == \A i, j \in 1 .. Len(s) : i < j => s[i].level < s[j].level

(* What makes RootsMirrorRecursion inductive: a component is entered above *)
(* those of the stack.                                                     *)
EntersAbove == pc = "flood" => \A i \in 1 .. Len(roots) : roots[i].level < level

StackInv == StackTyped /\ RootsMirrorRecursion /\ EntersAbove

-----------------------------------------------------------------------------
(* A longer sequence of nodes has the entries of a shorter one. *)
LEMMA EntriesStay ==
    ASSUME nodes \in Seq(Int), nodes' \in Seq(Int), Len(nodes) <= Len(nodes')
    PROVE  Seq(Entries) \subseteq Seq(Entries')
<1>1. Entries \subseteq Entries'
  BY DEF Entries, NodeIds, Level
<1>2. QED
  BY <1>1

(* A node that is created is given a parent. *)
LEMMA ParentIsWritten ==
    ASSUME nodes \in Seq(Int), NEW id \in NodeIds, NEW parent \in Int
    PROVE  /\ [nodes EXCEPT ![id + 1] = parent] \in Seq(Int)
           /\ Len([nodes EXCEPT ![id + 1] = parent]) = Len(nodes)
<1>1. Len(nodes) \in Nat
  OBVIOUS
<1>2. id + 1 \in 1 .. Len(nodes)
  BY <1>1 DEF NodeIds
<1>3. QED
  BY <1>2, ExceptSeq

(* Levels are numbers. *)
LEMMA LevelsAreNat == \A m \in Level : m \in Nat
BY DepthFirstAssumption DEF Level

LEMMA LevelIsNat == CanvasInv => level \in Level /\ level \in Nat
<1>1. CanvasInv => level \in Level
  BY DEF CanvasInv, TypeOK
<1>2. QED
  BY <1>1, LevelsAreNat

(* The levels of the stack. *)
LEMMA StackLevels ==
    ASSUME StackInv
    PROVE  \A i \in 1 .. Len(roots) : roots[i].level \in Level /\ ~IsEmpty(roots[i].level)
<1>1. \A i \in 1 .. Len(roots) : roots[i] \in Entries
  BY DEF StackInv, StackTyped
<1>2. \A i \in 1 .. Len(roots) : roots[i].level \in Level
  BY <1>1 DEF Entries
<1>3. QED
  BY <1>2 DEF StackInv, RootsMirrorRecursion

(* Steps of the canvas, or of nothing. *)
LEMMA CanvasUnderVisitor == MTNext => [Next]_canvasVars
BY DEF MTNext, MTFlood, MTScan, MTDoneSameLevel, MTDoneOtherLevel, MTDoneLast, Renumber, Reorder, Next

(* A push empties no bucket. *)
LEMMA PushKeepsWaiting ==
    ASSUME CanvasInv, NEW l \in Level, NEW q \in Point, Push(l, q),
           NEW m \in Level, ~IsEmpty(m)
    PROVE  ~IsEmpty(m)'
<1>1. TypeOK /\ begin[m] <= Len(slots[m])
  BY DEF CanvasInv, QueueOK
<1>2. Len(slots[m]) \in Nat /\ begin[m] \in Nat
  BY <1>1, LevelTyped
<1>3. begin' = begin /\ Len(slots'[m]) >= Len(slots[m])
  BY <1>1, <1>2, PushWrites
<1>4. QED
  BY <1>1, <1>2, <1>3, PushWrites DEF IsEmpty

(* A pop empties no bucket but the current one, and goes down to the first *)
(* of those that hold points.                                              *)
LEMMA PopKeepsWaiting ==
    ASSUME CanvasInv, pc = "scan", Pop
    PROVE  /\ \A m \in Level : m # level /\ ~IsEmpty(m) => ~IsEmpty(m)' /\ m <= cur'
           /\ cur' \in Level /\ cur' <= level
           /\ IsEmpty(cur)' => \A m \in Level : IsEmpty(m)'
<1>1. TypeOK /\ cur = level
  BY DEF CanvasInv, CurrentIsTop
<1>2. /\ slots' = slots
      /\ \A m \in Level : begin'[m] = IF m = cur THEN begin[cur] + 1 ELSE begin[m]
      /\ cur' \in Level /\ cur' <= cur
      /\ QueueOK'
  BY PopDrops
<1>3. cur \in Nat /\ cur' \in Nat /\ \A m \in Level : m \in Nat
  BY <1>1, <1>2, LevelIsNat, LevelsAreNat
<1>4. ASSUME NEW m \in Level, m # level, ~IsEmpty(m)
      PROVE  ~IsEmpty(m)' /\ m <= cur'
  <2>1. ~IsEmpty(m)'
    BY <1>1, <1>2, <1>4 DEF IsEmpty
  <2>2. QED
    BY <1>2, <1>3, <2>1 DEF QueueOK
<1>5. ASSUME IsEmpty(cur)', NEW m \in Level
      PROVE  IsEmpty(m)'
  <2>1. PICK c \in 0 .. cur : cur' = c /\ GoDown(c)
    BY DEF Pop
  <2>2. CASE c = 0 /\ \A l \in 0 .. cur : IsEmpty(l)'
    BY <1>2, <1>3, <2>1, <2>2 DEF QueueOK
  <2>3. CASE ~IsEmpty(c)'
    BY <1>5, <2>1, <2>3 DEF IsEmpty
  <2>4. QED
    BY <2>1, <2>2, <2>3 DEF GoDown
<1>6. QED
  BY <1>1, <1>2, <1>4, <1>5

-----------------------------------------------------------------------------
LEMMA StackInit == MTInit => StackInv
<1> SUFFICES ASSUME MTInit PROVE StackInv
  OBVIOUS
<1>1. pc = "flood" /\ nodes = <<>> /\ roots = <<>>
  BY DEF MTInit, Init
<1>2. StackTyped
  BY <1>1 DEF StackTyped
<1>3. QED
  BY <1>1, <1>2 DEF StackInv, RootsMirrorRecursion, EntersAbove

(* A component is entered: it is above the others and its first point waits. *)
LEMMA MTFloodKeeps == CanvasInv /\ StackInv /\ MTFlood => StackInv'
<1> SUFFICES ASSUME CanvasInv, StackInv, MTFlood PROVE StackInv'
  OBVIOUS
<1> DEFINE e == [id |-> Len(nodes), level |-> level]
<1>1. /\ pc = "flood" /\ pc' = "scan" /\ level' = level
      /\ slots' = slots /\ begin' = begin
      /\ nodes' = Append(nodes, -1) /\ roots' = Append(roots, e)
  BY DEF MTFlood, Flood, OnFloodStart, queueVars
<1>2. nodes \in Seq(Int) /\ roots \in Seq(Entries) /\ Len(nodes) \in Nat
  BY <1>1 DEF StackInv, StackTyped
<1>3. nodes' \in Seq(Int) /\ Len(nodes') = Len(nodes) + 1
  BY <1>1, <1>2
<1>4. e \in Entries'
  <2>1. level \in Level
    BY DEF CanvasInv, TypeOK
  <2>2. Len(nodes) \in 0 .. Len(nodes') - 1
    BY <1>2, <1>3
  <2>3. QED
    BY <2>1, <2>2 DEF Entries, NodeIds, Level
<1>5. roots \in Seq(Entries')
  BY <1>2, <1>3, EntriesStay
<1> HIDE DEF e
<1>6. /\ roots' \in Seq(Entries') /\ Len(roots') = Len(roots) + 1
      /\ \A i \in 1 .. Len(roots) : roots'[i] = roots[i]
      /\ roots'[Len(roots) + 1] = e
  BY <1>1, <1>4, <1>5, AppendProperties
<1>7. Len(roots) \in Nat
  BY <1>2
<1>8. e.level = level
  BY DEF e
<1>9. ~IsEmpty(level) /\ level \in Nat
  <2>1. ~IsEmpty(level)
    BY <1>1 DEF CanvasInv, CurrentIsTop
  <2>2. QED
    BY <2>1, LevelIsNat
<1>10. ASSUME NEW i \in 1 .. Len(roots')
       PROVE  /\ ~IsEmpty(roots[i].level)'
              /\ i <= Len(roots) => roots'[i].level < level
              /\ i > Len(roots) => roots'[i].level = level
  <2>1. CASE i <= Len(roots)
    <3>1. i \in 1 .. Len(roots) /\ roots'[i] = roots[i]
      BY <1>6, <1>7, <2>1
    <3>2. ~IsEmpty(roots[i].level) /\ roots[i].level < level
      BY <1>1, <3>1 DEF StackInv, RootsMirrorRecursion, EntersAbove
    <3>3. QED
      BY <1>1, <2>1, <3>1, <3>2, <1>7 DEF IsEmpty
  <2>2. CASE i > Len(roots)
    <3>1. i = Len(roots) + 1
      BY <1>6, <1>7, <2>2
    <3>2. QED
      BY <1>1, <1>6, <1>7, <1>8, <1>9, <2>2, <3>1 DEF IsEmpty
  <2>3. QED
    BY <1>7, <2>1, <2>2
<1>11. ASSUME NEW i \in 1 .. Len(roots'), NEW j \in 1 .. Len(roots'), i < j
       PROVE  roots'[i].level < roots'[j].level
  <2>1. CASE j <= Len(roots)
    <3>1. /\ i \in 1 .. Len(roots) /\ j \in 1 .. Len(roots)
          /\ roots'[i] = roots[i] /\ roots'[j] = roots[j]
      BY <1>6, <1>7, <1>11, <2>1
    <3>2. QED
      BY <1>11, <3>1 DEF StackInv, RootsMirrorRecursion
  <2>2. CASE j > Len(roots)
    <3>1. i <= Len(roots)
      BY <1>6, <1>7, <1>11, <2>2
    <3>2. QED
      BY <1>10, <2>2, <3>1
  <2>3. QED
    BY <1>7, <2>1, <2>2
<1>12. roots' # <<>> /\ Last(roots').level = level'
  BY <1>1, <1>6, <1>7, <1>8 DEF Last
<1>13. StackTyped' /\ EntersAbove'
  BY <1>1, <1>3, <1>6 DEF StackTyped, EntersAbove
<1>14. RootsMirrorRecursion'
  BY <1>1, <1>10, <1>11, <1>12 DEF RootsMirrorRecursion
<1>15. QED
  BY <1>13, <1>14 DEF StackInv

(* The scan of the neighbours leaves the stack alone. *)
LEMMA MTScanKeeps == CanvasInv /\ StackInv /\ MTScan => StackInv'
<1> SUFFICES ASSUME CanvasInv, StackInv, MTScan PROVE StackInv'
  OBVIOUS
<1>1. nodes' = nodes /\ roots' = roots /\ pc = "scan"
  BY DEF MTScan, treeVars, Skip, Postpone, Climb, Scanning
<1>2. StackTyped'
  BY <1>1 DEF StackInv, StackTyped, Entries, NodeIds
<1>3. /\ \A i \in 1 .. Len(roots) : roots[i].level \in Level /\ ~IsEmpty(roots[i].level)
      /\ roots # <<>> /\ Last(roots).level = level
      /\ Increasing(roots)
  BY <1>1, StackLevels DEF StackInv, RootsMirrorRecursion, Increasing
<1>4. \A i \in 1 .. Len(roots) : ~IsEmpty(roots[i].level)'
  <2>1. CASE Skip
    BY <1>1, <1>3, <2>1 DEF Skip, queueVars, IsEmpty
  <2>2. CASE Postpone \/ Climb
    <3>1. Push(f[N], N) /\ N \in Point /\ f[N] \in Level
      BY <2>2, NeighbourTyped DEF Postpone, Climb, CanvasInv
    <3>2. \A m \in Level : ~IsEmpty(m) => ~IsEmpty(m)'
      BY <3>1, PushKeepsWaiting
    <3>3. QED
      BY <1>1, <1>3, <3>2 DEF IsEmpty
  <2>3. QED
    BY <2>1, <2>2 DEF MTScan
<1>5. CASE pc' = "scan"
  <2>1. level' = level
    BY <1>5 DEF MTScan, Skip, Postpone, Climb
  <2>2. QED
    BY <1>1, <1>2, <1>3, <1>4, <1>5, <2>1
       DEF StackInv, RootsMirrorRecursion, EntersAbove, Increasing
<1>6. CASE pc' = "flood"
  <2>1. level' > level /\ level \in Nat /\ level' \in Nat
    <3>1. Climb
      BY <1>1, <1>6 DEF MTScan, Skip, Postpone
    <3>2. f[N] \in Level
      BY <3>1, NeighbourTyped DEF Climb, CanvasInv
    <3>3. QED
      BY <3>1, <3>2, LevelIsNat, LevelsAreNat DEF Climb
  <2>2. ASSUME NEW i \in 1 .. Len(roots) PROVE roots[i].level <= level
    <3>1. roots \in Seq(Entries) /\ Len(roots) \in Nat \ {0} /\ Last(roots) = roots[Len(roots)]
      BY <1>3, FrontAndLast DEF StackInv, StackTyped
    <3>2. CASE i = Len(roots)
      BY <1>3, <2>1, <3>1, <3>2
    <3>3. CASE i < Len(roots)
      <4>1. roots[i].level < roots[Len(roots)].level
        BY <1>3, <3>1, <3>3 DEF Increasing
      <4>2. roots[i].level \in Nat
        BY <1>3, DepthFirstAssumption DEF Level
      <4>3. QED
        BY <1>3, <2>1, <3>1, <4>1, <4>2
    <3>4. QED
      BY <3>1, <3>2, <3>3
  <2>3. \A i \in 1 .. Len(roots) : roots[i].level < level'
    <3>1. \A i \in 1 .. Len(roots) : roots[i].level \in Nat
      BY <1>3, DepthFirstAssumption DEF Level
    <3>2. QED
      BY <2>1, <2>2, <3>1
  <2>4. QED
    BY <1>1, <1>2, <1>3, <1>4, <1>6, <2>3
       DEF StackInv, RootsMirrorRecursion, EntersAbove, Increasing
<1>7. QED
  BY <1>1, <1>5, <1>6 DEF MTScan, Skip, Postpone, Climb

(* The component goes on: the queue still holds a point of its level. *)
LEMMA MTDoneSameLevelKeeps == CanvasInv /\ StackInv /\ MTDoneSameLevel => StackInv'
<1> SUFFICES ASSUME CanvasInv, StackInv, MTDoneSameLevel PROVE StackInv'
  OBVIOUS
<1>1. /\ pc = "scan" /\ pc' = "scan" /\ level' = level /\ Pop
      /\ nodes' = nodes /\ roots' = roots
      /\ level' = cur' /\ ~IsEmpty(cur)'
  BY DEF MTDoneSameLevel, DoneSameLevel, FinishPoint, TakeTop
<1>2. \A i \in 1 .. Len(roots) : roots[i].level \in Level /\ ~IsEmpty(roots[i].level)
  BY StackLevels
<1>3. \A m \in Level : m # level /\ ~IsEmpty(m) => ~IsEmpty(m)'
  BY <1>1, PopKeepsWaiting
<1>4. ~IsEmpty(level)'
  BY <1>1 DEF IsEmpty
<1>5. \A m \in Level : ~IsEmpty(m) => ~IsEmpty(m)'
  BY <1>1, <1>3, <1>4 DEF IsEmpty
<1>6. \A i \in 1 .. Len(roots) : ~IsEmpty(roots[i].level)'
  BY <1>1, <1>2, <1>5 DEF IsEmpty
<1>7. StackTyped' /\ EntersAbove'
  BY <1>1 DEF StackInv, StackTyped, Entries, NodeIds, EntersAbove
<1>8. RootsMirrorRecursion'
  BY <1>1, <1>6 DEF StackInv, RootsMirrorRecursion
<1>9. QED
  BY <1>7, <1>8 DEF StackInv

(* What the end of a flooding leaves on the stack: components whose points  *)
(* wait, all of them below the level that ends.                             *)
LEMMA RestOfTheStack ==
    ASSUME CanvasInv, StackInv, pc = "scan", Pop
    PROVE  /\ roots # <<>> /\ Len(roots) \in Nat \ {0}
           /\ Front(roots) \in Seq(Entries) /\ Len(Front(roots)) = Len(roots) - 1
           /\ Last(roots) \in Entries
           /\ \A i \in 1 .. Len(roots) - 1 :
                 /\ Front(roots)[i] = roots[i]
                 /\ roots[i].level \in Level
                 /\ begin'[roots[i].level] # Len(slots'[roots[i].level])
                 /\ roots[i].level <= cur'
<1>1. roots \in Seq(Entries) /\ roots # <<>> /\ Last(roots).level = level
  BY DEF StackInv, StackTyped, RootsMirrorRecursion
<1>2. /\ Len(roots) \in Nat \ {0} /\ Front(roots) \in Seq(Entries)
      /\ Len(Front(roots)) = Len(roots) - 1
      /\ \A i \in 1 .. Len(roots) - 1 : Front(roots)[i] = roots[i]
      /\ Last(roots) = roots[Len(roots)] /\ Last(roots) \in Entries
  BY <1>1, FrontAndLast
<1>3. ASSUME NEW i \in 1 .. Len(roots) - 1
      PROVE  /\ roots[i].level \in Level /\ roots[i].level # level
             /\ ~IsEmpty(roots[i].level)
  <2>1. i \in 1 .. Len(roots) /\ Len(roots) \in 1 .. Len(roots) /\ i < Len(roots)
    BY <1>2
  <2>2. roots[i].level \in Level /\ ~IsEmpty(roots[i].level)
    BY <2>1, StackLevels
  <2>3. roots[i].level < roots[Len(roots)].level
    BY <2>1 DEF StackInv, RootsMirrorRecursion
  <2>4. roots[i].level \in Int /\ level \in Int
    <3>1. roots[i].level \in Nat
      BY <2>2, LevelsAreNat
    <3>2. level \in Nat
      BY LevelIsNat
    <3>3. QED
      BY <3>1, <3>2
  <2>5. roots[Len(roots)].level = level
    BY <1>1, <1>2
  <2>6. QED
    BY <2>2, <2>3, <2>4, <2>5
<1>4. \A m \in Level : m # level /\ ~IsEmpty(m) => ~IsEmpty(m)' /\ m <= cur'
  BY PopKeepsWaiting
<1>5. \A m \in Level : m # level /\ ~IsEmpty(m) => begin'[m] # Len(slots'[m]) /\ m <= cur'
  BY <1>4 DEF IsEmpty
<1>6. QED
  BY <1>1, <1>2, <1>3, <1>5

(* The component that ends is attached to the next one of the stack, or to  *)
(* a node that is created between the two.                                  *)
LEMMA MTDoneOtherLevelKeeps == CanvasInv /\ StackInv /\ MTDoneOtherLevel => StackInv'
<1> SUFFICES ASSUME CanvasInv, StackInv, MTDoneOtherLevel PROVE StackInv'
  OBVIOUS
<1> DEFINE rest == Front(roots)
           current == Last(roots).id
           n == Len(roots) - 1
<1>1. /\ pc = "scan" /\ pc' = "scan" /\ Pop
      /\ level' = cur' /\ ~IsEmpty(cur)' /\ OnFloodEnd(level')
  BY DEF MTDoneOtherLevel, DoneOtherLevel, FinishPoint, TakeTop
<1>2. /\ roots # <<>> /\ n \in Nat /\ rest \in Seq(Entries) /\ Len(rest) = n
      /\ current \in NodeIds
      /\ \A i \in 1 .. n : /\ rest[i] = roots[i] /\ rest[i].level \in Level
                           /\ begin'[rest[i].level] # Len(slots'[rest[i].level])
                           /\ rest[i].level <= cur'
  BY <1>1, RestOfTheStack DEF Entries
<1>3. \A i, j \in 1 .. n : i < j => rest[i].level < rest[j].level
  <2>1. \A i \in 1 .. n : i \in 1 .. Len(roots)
    BY <1>2
  <2>2. QED
    BY <1>2, <2>1 DEF StackInv, RootsMirrorRecursion
<1>4. nodes \in Seq(Int) /\ Len(nodes) \in Nat
  BY <1>1 DEF StackInv, StackTyped
<1>5. cur' \in Level /\ level' \in Level /\ begin'[level'] # Len(slots'[level'])
  BY <1>1, PopKeepsWaiting DEF IsEmpty
<1>6. cur' \in Int /\ \A i \in 1 .. n : rest[i].level \in Int
  <2>1. cur' \in Nat
    BY <1>5, LevelsAreNat
  <2>2. ASSUME NEW i \in 1 .. n PROVE rest[i].level \in Nat
    BY <1>2, LevelsAreNat
  <2>3. QED
    BY <2>1, <2>2
<1> HIDE DEF rest, current, n
<1>7. CASE /\ rest # <<>> /\ Last(rest).level = level'
           /\ nodes' = [nodes EXCEPT ![current + 1] = Last(rest).id]
           /\ roots' = rest
  <2>1. nodes' \in Seq(Int) /\ Len(nodes') = Len(nodes)
    <3>1. Last(rest) \in Entries
      BY <1>2, <1>7, FrontAndLast
    <3>2. Last(rest).id \in Int
      BY <1>4, <3>1 DEF Entries, NodeIds
    <3>3. QED
      BY <1>2, <1>4, <1>7, <3>2, ParentIsWritten
  <2>2. StackTyped'
    BY <1>2, <1>4, <1>7, <2>1, EntriesStay DEF StackTyped
  <2>3. EntersAbove'
    BY <1>1 DEF EntersAbove
  <2>4. /\ \A i, j \in 1 .. Len(roots') : i < j => roots'[i].level < roots'[j].level
        /\ roots' # <<>> /\ Last(roots').level = level'
        /\ \A i \in 1 .. Len(roots') : begin'[roots'[i].level] # Len(slots'[roots'[i].level])
    BY <1>2, <1>3, <1>7
  <2>5. RootsMirrorRecursion'
    BY <1>1, <2>4 DEF RootsMirrorRecursion, IsEmpty
  <2>6. QED
    BY <2>2, <2>3, <2>5 DEF StackInv
<1>8. CASE /\ ~(rest # <<>> /\ Last(rest).level = level')
           /\ nodes' = Append([nodes EXCEPT ![current + 1] = Len(nodes)], -1)
           /\ roots' = Append(rest, [id |-> Len(nodes), level |-> level'])
  <2> DEFINE e == [id |-> Len(nodes), level |-> level']
             moved == [nodes EXCEPT ![current + 1] = Len(nodes)]
  <2>1. nodes' \in Seq(Int) /\ Len(nodes') = Len(nodes) + 1
    <3>1. moved \in Seq(Int) /\ Len(moved) = Len(nodes)
      BY <1>2, <1>4, ParentIsWritten
    <3>2. nodes' = Append(moved, -1)
      BY <1>8
    <3> HIDE DEF moved
    <3>3. QED
      BY <3>1, <3>2
  <2>2. e \in Entries'
    <3>1. Len(nodes) \in 0 .. Len(nodes') - 1
      BY <1>4, <2>1
    <3>2. QED
      BY <1>5, <3>1 DEF Entries, NodeIds, Level
  <2>3. rest \in Seq(Entries')
    BY <1>2, <1>4, <2>1, EntriesStay
  <2>4. e.level = level' /\ roots' = Append(rest, e)
    BY <1>8
  <2> HIDE DEF e
  <2>5. /\ roots' \in Seq(Entries') /\ Len(roots') = n + 1
        /\ \A i \in 1 .. n : roots'[i] = rest[i]
        /\ roots'[n + 1] = e
        /\ roots' # <<>>
    BY <1>2, <2>2, <2>3, <2>4, AppendProperties
  <2>6. ASSUME NEW i \in 1 .. n PROVE rest[i].level < level'
    <3>1. n \in 1 .. n /\ rest # <<>> /\ Last(rest) = rest[n]
      BY <1>2 DEF Last
    <3>2. rest[n].level # level'
      BY <1>8, <3>1
    <3>3. rest[i].level <= rest[n].level
      BY <1>2, <1>3, <1>6, <3>1
    <3>4. rest[n].level <= level'
      BY <1>1, <1>2, <3>1
    <3>5. QED
      BY <1>1, <1>6, <3>1, <3>2, <3>3, <3>4
  <2>7. \A i \in 1 .. n + 1 : i \in 1 .. n \/ i = n + 1
    BY <1>2
  <2>8. \A i, j \in 1 .. Len(roots') : i < j => roots'[i].level < roots'[j].level
    <3> SUFFICES ASSUME NEW i \in 1 .. n + 1, NEW j \in 1 .. n + 1, i < j
                 PROVE  roots'[i].level < roots'[j].level
      BY <2>5
    <3>1. i \in 1 .. n
      BY <1>2, <2>7
    <3>2. CASE j \in 1 .. n
      BY <1>3, <2>5, <3>1, <3>2
    <3>3. CASE j = n + 1
      BY <2>4, <2>5, <2>6, <3>1, <3>3
    <3>4. QED
      BY <2>7, <3>2, <3>3
  <2>9. \A i \in 1 .. Len(roots') : begin'[roots'[i].level] # Len(slots'[roots'[i].level])
    BY <1>2, <1>5, <2>4, <2>5, <2>7
  <2>10. Last(roots').level = level'
    BY <1>2, <2>4, <2>5 DEF Last
  <2>11. RootsMirrorRecursion'
    BY <1>1, <2>5, <2>8, <2>9, <2>10 DEF RootsMirrorRecursion, IsEmpty
  <2>12. StackTyped' /\ EntersAbove'
    BY <1>1, <2>1, <2>5 DEF StackTyped, EntersAbove
  <2>13. QED
    BY <2>11, <2>12 DEF StackInv
<1>9. QED
  BY <1>1, <1>7, <1>8 DEF OnFloodEnd, rest, current

(* At the last end nothing waits: the component that ends was alone. *)
LEMMA MTDoneLastKeeps == CanvasInv /\ StackInv /\ MTDoneLast => StackInv'
<1> SUFFICES ASSUME CanvasInv, StackInv, MTDoneLast PROVE StackInv'
  OBVIOUS
<1>1. /\ pc = "scan" /\ pc' = "end" /\ Pop /\ IsEmpty(cur)'
      /\ roots' = Front(roots)
  BY DEF MTDoneLast, DoneLast, FinishPoint, OnLastFloodEnd
<1>2. /\ Len(roots) \in Nat \ {0}
      /\ Front(roots) \in Seq(Entries) /\ Len(Front(roots)) = Len(roots) - 1
      /\ \A i \in 1 .. Len(roots) - 1 : /\ roots[i].level \in Level
                                        /\ begin'[roots[i].level] # Len(slots'[roots[i].level])
  BY <1>1, RestOfTheStack
<1>3. \A m \in Level : begin'[m] = Len(slots'[m])
  <2>1. \A m \in Level : IsEmpty(m)'
    BY <1>1, PopKeepsWaiting
  <2>2. QED
    BY <2>1 DEF IsEmpty
<1>4. Len(roots) = 1
  <2>1. ASSUME Len(roots) # 1 PROVE FALSE
    <3>1. 1 \in 1 .. Len(roots) - 1
      BY <1>2, <2>1
    <3>2. QED
      BY <1>2, <1>3, <3>1
  <2>2. QED
    BY <2>1
<1>5. roots' = <<>>
  BY <1>1, <1>2, <1>4, EmptySeq
<1>6. StackTyped' /\ EntersAbove'
  BY <1>1, <1>5 DEF StackTyped, EntersAbove
<1>7. RootsMirrorRecursion'
  BY <1>1, <1>5 DEF RootsMirrorRecursion
<1>8. QED
  BY <1>6, <1>7 DEF StackInv

(* The renumbering follows the end of the flooding. *)
LEMMA AfterTheEnd == StackInv /\ (Renumber \/ Reorder) => StackInv'
<1> SUFFICES ASSUME StackInv, Renumber \/ Reorder PROVE StackInv'
  OBVIOUS
<1>1. pc = "end" /\ pc' = "end" /\ roots' = roots /\ roots = <<>>
  BY DEF Renumber, Reorder, canvasVars, StackInv, RootsMirrorRecursion
<1>2. QED
  BY <1>1 DEF StackInv, StackTyped, RootsMirrorRecursion, EntersAbove

-----------------------------------------------------------------------------
LEMMA CanvasAndStack == MTSpec => [](CanvasInv /\ StackInv)
<1>1. MTInit => CanvasInv /\ StackInv
  BY CanvasInit, StackInit DEF MTInit
<1>2. CanvasInv /\ StackInv /\ [MTNext]_vars => CanvasInv' /\ StackInv'
  <2> SUFFICES ASSUME CanvasInv, StackInv, [MTNext]_vars PROVE CanvasInv' /\ StackInv'
    OBVIOUS
  <2>1. CASE MTNext
    <3>1. CanvasInv'
      BY <2>1, CanvasUnderVisitor, CanvasNext
    <3>2. StackInv'
      BY <2>1, MTFloodKeeps, MTScanKeeps, MTDoneSameLevelKeeps, MTDoneOtherLevelKeeps,
         MTDoneLastKeeps, AfterTheEnd DEF MTNext
    <3>3. QED
      BY <3>1, <3>2
  <2>2. CASE UNCHANGED vars
    <3>1. CanvasInv'
      BY <2>2, CanvasNext DEF vars
    <3>2. StackInv'
      BY <2>2 DEF vars, canvasVars, queueVars, treeVars, StackInv, StackTyped, Entries, NodeIds,
                  RootsMirrorRecursion, EntersAbove, IsEmpty
    <3>3. QED
      BY <3>1, <3>2
  <2>3. QED
    BY <2>1, <2>2
<1>3. QED
  BY <1>1, <1>2, PTL DEF MTSpec

(***************************************************************************)
(* The stack of the max-tree's visitor mirrors the recursion that the      *)
(* canvas turned into gotos: what the visitor's assertions check (the      *)
(* stack is not empty when a flooding ends, its top is the level that      *)
(* ends, nothing is left at the end) can never fail.                       *)
(***************************************************************************)
THEOREM StackMirrorsRecursion == MTSpec => []RootsMirrorRecursion
<1>1. StackInv => RootsMirrorRecursion
  BY DEF StackInv
<1>2. QED
  BY <1>1, CanvasAndStack, PTL

-----------------------------------------------------------------------------
(***************************************************************************)
(* The tree.  The parent of a node, when it has one, is a node of a lower  *)
(* level, and the entries of the stack know the levels of their nodes.     *)
(***************************************************************************)
LowerParents(nd, lv) ==
    /\ nd \in Seq(Int) /\ lv \in Seq(Nat) /\ Len(lv) = Len(nd)
    /\ \A i \in 0 .. Len(nd) - 1 :
          nd[i + 1] # -1 => nd[i + 1] \in 0 .. Len(nd) - 1 /\ lv[nd[i + 1] + 1] < lv[i + 1]

(* A node is created, and may become the parent of nodes that are higher. *)
NodeAdded(nd, lv, nd2, lv2) ==
    LET n == Len(nd)
    IN  /\ nd2 \in Seq(Int) /\ Len(nd2) = n + 1 /\ nd2[n + 1] = -1
        /\ lv2 \in Seq(Nat) /\ Len(lv2) = n + 1
        /\ \A j \in 1 .. n : lv2[j] = lv[j]
        /\ \A j \in 1 .. n : nd2[j] = nd[j] \/ (nd2[j] = n /\ lv2[n + 1] < lv[j])

LEMMA NodeIsCreated ==
    ASSUME NEW nd, NEW lv, LowerParents(nd, lv),
           NEW nd2, NEW lv2, NodeAdded(nd, lv, nd2, lv2)
    PROVE  LowerParents(nd2, lv2)
<1> DEFINE n == Len(nd)
<1>a. /\ n \in Nat /\ Len(nd) = n
      /\ nd2 \in Seq(Int) /\ Len(nd2) = n + 1 /\ nd2[n + 1] = -1
      /\ lv2 \in Seq(Nat) /\ Len(lv2) = n + 1
      /\ \A j \in 1 .. n : lv2[j] = lv[j]
      /\ \A j \in 1 .. n : nd2[j] = nd[j] \/ (nd2[j] = n /\ lv2[n + 1] < lv[j])
  BY DEF LowerParents, NodeAdded
<1> HIDE DEF n
<1>1. \A i \in 0 .. n - 1 : i + 1 \in 1 .. n
  BY <1>a
<1>2. ASSUME NEW i \in 0 .. n - 1, nd[i + 1] # -1
      PROVE  nd[i + 1] \in 0 .. n - 1 /\ lv[nd[i + 1] + 1] < lv[i + 1]
  BY <1>2, <1>a DEF LowerParents
<1>3. ASSUME NEW i \in 0 .. n, nd2[i + 1] # -1
      PROVE  nd2[i + 1] \in 0 .. n /\ lv2[nd2[i + 1] + 1] < lv2[i + 1]
  <2>1. i # n
    BY <1>3, <1>a
  <2>2. i \in 0 .. n - 1
    BY <1>a, <2>1
  <2>3. lv2[i + 1] = lv[i + 1]
    BY <1>1, <1>a, <2>2
  <2>4. CASE nd2[i + 1] = n /\ lv2[n + 1] < lv[i + 1]
    <3>1. n \in 0 .. n
      BY <1>a
    <3>2. QED
      BY <2>3, <2>4, <3>1
  <2>5. CASE nd2[i + 1] = nd[i + 1]
    <3>1. nd[i + 1] \in 0 .. n - 1 /\ lv[nd[i + 1] + 1] < lv[i + 1]
      BY <1>2, <1>3, <2>2, <2>5
    <3>2. lv2[nd[i + 1] + 1] = lv[nd[i + 1] + 1]
      BY <1>1, <1>a, <3>1
    <3>3. nd[i + 1] \in 0 .. n
      BY <1>a, <3>1
    <3>4. QED
      BY <2>3, <2>5, <3>1, <3>2, <3>3
  <2>6. QED
    BY <1>1, <1>a, <2>2, <2>4, <2>5
<1>4. Len(nd2) - 1 = n
  BY <1>a
<1>5. \A i \in 0 .. Len(nd2) - 1 :
          nd2[i + 1] # -1 => nd2[i + 1] \in 0 .. Len(nd2) - 1 /\ lv2[nd2[i + 1] + 1] < lv2[i + 1]
  BY <1>3, <1>4
<1>6. Len(lv2) = Len(nd2)
  BY <1>a
<1>7. QED
  BY <1>5, <1>6, <1>a DEF LowerParents

LEMMA NodeIsAttached ==
    ASSUME NEW nd, NEW lv, LowerParents(nd, lv), NEW c \in 0 .. Len(nd) - 1, NEW q \in Int,
           q # -1 => q \in 0 .. Len(nd) - 1 /\ lv[q + 1] < lv[c + 1],
           NEW nd2, nd2 = [nd EXCEPT ![c + 1] = q]
    PROVE  LowerParents(nd2, lv) /\ Len(nd2) = Len(nd)
<1> DEFINE n == Len(nd)
<1>1. nd \in Seq(Int) /\ lv \in Seq(Nat) /\ Len(lv) = n /\ n \in Nat
  BY DEF LowerParents
<1>2. c + 1 \in 1 .. n
  BY <1>1
<1>3. nd2 \in Seq(Int) /\ Len(nd2) = n
  BY <1>1, <1>2, ExceptSeq
<1>4. \A i \in 0 .. n - 1 : nd2[i + 1] = IF i = c THEN q ELSE nd[i + 1]
  <2>1. \A j \in 1 .. n : nd2[j] = IF j = c + 1 THEN q ELSE nd[j]
    BY <1>1, <1>2, ExceptSeq
  <2>2. \A i \in 0 .. n - 1 : i + 1 \in 1 .. n /\ (i + 1 = c + 1 <=> i = c)
    BY <1>1
  <2>3. QED
    BY <2>1, <2>2
<1>5. ASSUME NEW i \in 0 .. n - 1, nd2[i + 1] # -1
      PROVE  nd2[i + 1] \in 0 .. n - 1 /\ lv[nd2[i + 1] + 1] < lv[i + 1]
  BY <1>4, <1>5 DEF LowerParents
<1>6. QED
  BY <1>1, <1>3, <1>5 DEF LowerParents

(* The entries of the stack know the levels of their nodes. *)
EntriesKnow(rs, lv) == \A i \in 1 .. Len(rs) : lv[rs[i].id + 1] = rs[i].level

TreeOK == ~built => LowerParents(nodes, lvlnodes) /\ EntriesKnow(roots, lvlnodes)

LEMMA StackEntries ==
    ASSUME StackInv
    PROVE  /\ Len(roots) \in Nat
           /\ \A i \in 1 .. Len(roots) : roots[i].id \in NodeIds /\ roots[i].level \in Level
<1>1. Len(roots) \in Nat /\ \A i \in 1 .. Len(roots) : roots[i] \in Entries
  BY DEF StackInv, StackTyped
<1>2. QED
  BY <1>1 DEF Entries

LEMMA TreeFlood == CanvasInv /\ StackInv /\ TreeOK /\ MTFlood => TreeOK'
<1> SUFFICES ASSUME CanvasInv, StackInv, TreeOK, MTFlood, ~built PROVE TreeOK'
  BY DEF TreeOK, MTFlood, renumberVars
<1> DEFINE e == [id |-> Len(nodes), level |-> level]
<1>1. /\ nodes' = Append(nodes, -1) /\ lvlnodes' = Append(lvlnodes, level)
      /\ roots' = Append(roots, e)
  BY DEF MTFlood, OnFloodStart
<1>2. /\ LowerParents(nodes, lvlnodes) /\ EntriesKnow(roots, lvlnodes)
      /\ level \in Nat
  BY LevelIsNat DEF TreeOK
<1>3. /\ LowerParents(nodes', lvlnodes')
      /\ \A i \in NodeIds : lvlnodes'[i + 1] = lvlnodes[i + 1]
      /\ lvlnodes'[Len(nodes) + 1] = level
  <2> DEFINE n == Len(nodes)
  <2>1. nodes \in Seq(Int) /\ lvlnodes \in Seq(Nat) /\ Len(lvlnodes) = n /\ -1 \in Int
    BY <1>2 DEF LowerParents
  <2>2. /\ nodes' \in Seq(Int) /\ n \in Nat /\ Len(nodes') = n + 1 /\ nodes'[n + 1] = -1
        /\ \A j \in 1 .. n : nodes'[j] = nodes[j]
    BY <1>1, <2>1, AppendProperties
  <2>3. /\ lvlnodes' \in Seq(Nat) /\ Len(lvlnodes') = n + 1 /\ lvlnodes'[n + 1] = level
        /\ \A j \in 1 .. n : lvlnodes'[j] = lvlnodes[j]
    BY <1>1, <1>2, <2>1, AppendProperties
  <2>4. \A i \in NodeIds : i + 1 \in 1 .. n
    BY <2>2 DEF NodeIds
  <2> HIDE DEF n
  <2>5. LowerParents(nodes', lvlnodes')
    <3>1. NodeAdded(nodes, lvlnodes, nodes', lvlnodes')
      BY <2>2, <2>3 DEF NodeAdded, n
    <3>2. QED
      BY <1>2, <3>1, NodeIsCreated
  <2>6. QED
    BY <2>3, <2>4, <2>5 DEF n
<1>4. /\ Len(roots') = Len(roots) + 1 /\ roots'[Len(roots) + 1] = e
      /\ \A i \in 1 .. Len(roots) : roots'[i] = roots[i]
  <2>1. roots \in Seq(Entries) /\ Entries \subseteq Entries \cup {e}
    BY DEF StackInv, StackTyped
  <2>2. roots \in Seq(Entries \cup {e})
    BY <2>1
  <2> HIDE DEF e
  <2>3. QED
    BY <1>1, <2>2, AppendProperties
<1>5. e.id = Len(nodes) /\ e.level = level
  OBVIOUS
<1> HIDE DEF e
<1>6. \A i \in 1 .. Len(roots) + 1 : i \in 1 .. Len(roots) \/ i = Len(roots) + 1
  BY StackEntries
<1>7. EntriesKnow(roots', lvlnodes')
  BY <1>2, <1>3, <1>4, <1>5, <1>6, StackEntries DEF EntriesKnow
<1>8. QED
  BY <1>3, <1>7 DEF TreeOK

(* A flooding that is resumed goes on at a lower level. *)
LEMMA ResumedLower == CanvasInv /\ MTDoneOtherLevel => level' < level /\ level' \in Level
<1> SUFFICES ASSUME CanvasInv, MTDoneOtherLevel PROVE level' < level /\ level' \in Level
  OBVIOUS
<1>1. TakeTop /\ Pop /\ pc = "scan" /\ level' # level
  BY DEF MTDoneOtherLevel, DoneOtherLevel, FinishPoint
<1>2. cur' \in Level /\ cur' <= level
  BY <1>1, PopKeepsWaiting
<1>3. level' = cur'
  BY <1>1 DEF TakeTop
<1>4. level' \in Nat /\ level \in Nat
  BY <1>2, <1>3, LevelIsNat, LevelsAreNat
<1>5. QED
  BY <1>1, <1>2, <1>3, <1>4

LEMMA TreeDoneOtherLevel == CanvasInv /\ StackInv /\ TreeOK /\ MTDoneOtherLevel => TreeOK'
<1> SUFFICES ASSUME CanvasInv, StackInv, TreeOK, MTDoneOtherLevel, ~built PROVE TreeOK'
  BY DEF TreeOK, MTDoneOtherLevel, renumberVars
<1> DEFINE current == Last(roots).id
           rest == Front(roots)
           e == [id |-> Len(nodes), level |-> level']
<1>1. pc = "scan" /\ Pop /\ OnFloodEnd(level')
  BY DEF MTDoneOtherLevel, DoneOtherLevel, FinishPoint
<1>2. LowerParents(nodes, lvlnodes) /\ EntriesKnow(roots, lvlnodes)
  BY DEF TreeOK
<1>3. /\ roots # <<>> /\ roots \in Seq(Entries) /\ Last(roots).level = level
      /\ Len(roots) \in Nat \ {0}
      /\ Last(roots) = roots[Len(roots)]
      /\ rest \in Seq(Entries) /\ Len(rest) = Len(roots) - 1
      /\ \A i \in 1 .. Len(roots) - 1 : rest[i] = roots[i]
  BY <1>1, FrontAndLast DEF StackInv, StackTyped, RootsMirrorRecursion
<1>4. /\ Len(rest) \in Nat /\ Len(roots) \in 1 .. Len(roots)
      /\ \A i \in 1 .. Len(rest) : i \in 1 .. Len(roots)
  BY <1>3
<1>5. current \in NodeIds /\ lvlnodes[current + 1] = level
  BY <1>2, <1>3, <1>4, StackEntries DEF EntriesKnow
<1>6. \A i \in 1 .. Len(rest) : rest[i].id \in NodeIds /\ lvlnodes[rest[i].id + 1] = rest[i].level
  BY <1>2, <1>3, <1>4, StackEntries DEF EntriesKnow
<1>7. level' < level /\ level' \in Nat
  BY ResumedLower, LevelsAreNat
<1> HIDE DEF current, rest
<1>8. CASE /\ rest # <<>> /\ Last(rest).level = level'
           /\ nodes' = [nodes EXCEPT ![current + 1] = Last(rest).id]
           /\ roots' = rest /\ lvlnodes' = lvlnodes
  <2>1. Last(rest) = rest[Len(rest)] /\ Len(rest) \in 1 .. Len(rest)
    <3>1. rest \in Seq(Entries) /\ rest # <<>>
      BY <1>3, <1>8
    <3>2. Last(rest) = rest[Len(rest)] /\ Len(rest) \in Nat \ {0}
      BY <3>1, FrontAndLast, Zenon
    <3>3. QED
      BY <3>2
  <2>2. /\ Last(rest).id \in NodeIds /\ Last(rest).id \in Int
        /\ lvlnodes[Last(rest).id + 1] < lvlnodes[current + 1]
    BY <1>5, <1>6, <1>7, <1>8, <2>1 DEF NodeIds
  <2>3. LowerParents(nodes', lvlnodes')
    BY <1>2, <1>5, <1>8, <2>2, NodeIsAttached DEF NodeIds
  <2>4. QED
    BY <1>6, <1>8, <2>3 DEF TreeOK, EntriesKnow
<1>9. CASE /\ nodes' = Append([nodes EXCEPT ![current + 1] = Len(nodes)], -1)
           /\ roots' = Append(rest, e)
           /\ lvlnodes' = Append(lvlnodes, level')
  <2> DEFINE n == Len(nodes)
             moved == [nodes EXCEPT ![current + 1] = n]
  <2>1. /\ nodes \in Seq(Int) /\ lvlnodes \in Seq(Nat) /\ Len(lvlnodes) = n /\ -1 \in Int
        /\ n \in Nat /\ n \in Int /\ current + 1 \in 1 .. n
    BY <1>2, <1>5 DEF LowerParents, NodeIds
  <2>a. /\ moved \in Seq(Int) /\ Len(moved) = n
        /\ \A j \in 1 .. n : moved[j] = IF j = current + 1 THEN n ELSE nodes[j]
    BY <2>1, ExceptSeq
  <2>b. nodes' = Append(moved, -1)
    BY <1>9
  <2> HIDE DEF moved
  <2>c. /\ nodes' \in Seq(Int) /\ Len(nodes') = n + 1 /\ nodes'[n + 1] = -1
        /\ \A j \in 1 .. n : nodes'[j] = moved[j]
    <3>1. moved \in Seq(Int) /\ Len(moved) = n /\ -1 \in Int
      BY <2>1, <2>a
    <3> HIDE DEF n
    <3>2. QED
      BY <2>b, <3>1, AppendProperties
  <2>d. /\ lvlnodes' \in Seq(Nat) /\ Len(lvlnodes') = n + 1 /\ lvlnodes'[n + 1] = level'
        /\ \A j \in 1 .. n : lvlnodes'[j] = lvlnodes[j]
    <3>1. lvlnodes \in Seq(Nat) /\ Len(lvlnodes) = n /\ level' \in Nat
      BY <1>7, <2>1
    <3> HIDE DEF n
    <3>2. QED
      BY <1>9, <3>1, AppendProperties
  <2>e. \A i \in NodeIds : i + 1 \in 1 .. n
    BY <2>1 DEF NodeIds
  <2>f. Len(nodes) = n
    OBVIOUS
  <2> HIDE DEF n
  <2>g. \A j \in 1 .. n : nodes'[j] = nodes[j] \/ (nodes'[j] = n /\ lvlnodes'[n + 1] < lvlnodes[j])
    BY <1>5, <1>7, <2>a, <2>c, <2>d
  <2>h. LowerParents(nodes', lvlnodes')
    <3>1. NodeAdded(nodes, lvlnodes, nodes', lvlnodes')
      BY <2>1, <2>c, <2>d, <2>f, <2>g DEF NodeAdded
    <3>2. QED
      BY <1>2, <3>1, NodeIsCreated
  <2>2. /\ \A i \in NodeIds : lvlnodes'[i + 1] = lvlnodes[i + 1]
        /\ lvlnodes'[Len(nodes) + 1] = level'
    BY <2>d, <2>e, <2>f
  <2>3. e.id = Len(nodes) /\ e.level = level'
    OBVIOUS
  <2>4. /\ Len(roots') = Len(rest) + 1 /\ roots'[Len(rest) + 1] = e
        /\ \A i \in 1 .. Len(rest) : roots'[i] = rest[i]
    <3>1. rest \in Seq(Entries \cup {e})
      BY <1>3
    <3> HIDE DEF e
    <3>2. QED
      BY <1>9, <3>1, AppendProperties
  <2> HIDE DEF e
  <2>5. \A i \in 1 .. Len(rest) + 1 : i \in 1 .. Len(rest) \/ i = Len(rest) + 1
    BY <1>4
  <2>6. EntriesKnow(roots', lvlnodes')
    BY <1>6, <2>2, <2>3, <2>4, <2>5 DEF EntriesKnow
  <2>7. QED
    BY <2>h, <2>6 DEF TreeOK
<1>10. QED
  BY <1>1, <1>8, <1>9 DEF OnFloodEnd, current, rest

LEMMA TreeDoneLast == CanvasInv /\ StackInv /\ TreeOK /\ MTDoneLast => TreeOK'
<1> SUFFICES ASSUME CanvasInv, StackInv, TreeOK, MTDoneLast, ~built PROVE TreeOK'
  BY DEF TreeOK, MTDoneLast, renumberVars
<1>1. /\ pc = "scan" /\ nodes' = [nodes EXCEPT ![Last(roots).id + 1] = -1]
      /\ roots' = Front(roots) /\ lvlnodes' = lvlnodes
  BY DEF MTDoneLast, DoneLast, FinishPoint, OnLastFloodEnd
<1>2. LowerParents(nodes, lvlnodes) /\ EntriesKnow(roots, lvlnodes)
  BY DEF TreeOK
<1>3. /\ Len(roots) \in Nat \ {0} /\ Last(roots) = roots[Len(roots)]
      /\ Len(Front(roots)) = Len(roots) - 1
      /\ \A i \in 1 .. Len(roots) - 1 : Front(roots)[i] = roots[i]
  BY <1>1, FrontAndLast DEF StackInv, StackTyped, RootsMirrorRecursion
<1>4. Len(roots) \in 1 .. Len(roots) /\ \A i \in 1 .. Len(roots) - 1 : i \in 1 .. Len(roots)
  BY <1>3
<1>5. Last(roots).id \in NodeIds
  BY <1>3, <1>4, StackEntries
<1>6. LowerParents(nodes', lvlnodes')
  <2>1. -1 \in Int
    OBVIOUS
  <2>2. QED
    BY <1>1, <1>2, <1>5, <2>1, NodeIsAttached, Zenon DEF NodeIds
<1>7. EntriesKnow(roots', lvlnodes')
  BY <1>1, <1>2, <1>3, <1>4 DEF EntriesKnow
<1>8. QED
  BY <1>6, <1>7 DEF TreeOK

LEMMA TreeInv == CanvasInv /\ StackInv /\ TreeOK /\ MTNext => TreeOK'
<1> SUFFICES ASSUME CanvasInv, StackInv, TreeOK, MTNext PROVE TreeOK'
  OBVIOUS
<1>1. CASE MTScan \/ MTDoneSameLevel \/ Renumber
  BY <1>1 DEF MTScan, MTDoneSameLevel, Renumber, treeVars, renumberVars, TreeOK
<1>2. CASE Reorder
  BY <1>2 DEF Reorder, TreeOK
<1>3. QED
  BY <1>1, <1>2, TreeFlood, TreeDoneOtherLevel, TreeDoneLast DEF MTNext

-----------------------------------------------------------------------------
(***************************************************************************)
(* The renumbering.  The nodes that are numbered have the first numbers,   *)
(* once each, and so do their parents, before them.                        *)
(***************************************************************************)
Numbers(nd, pm) ==
    LET D == DOMAIN pm
        m == Cardinality(D)
    IN  /\ D \subseteq 0 .. Len(nd) - 1
        /\ IsNumbering(pm, D, m)
        /\ \A a \in D : nd[a + 1] # -1 => nd[a + 1] \in D /\ pm[nd[a + 1]] < pm[a]

NumberOK ==
    /\ built \in BOOLEAN
    /\ pc # "end" => ~built /\ next = 0 /\ perm = [i \in {} |-> 0]
    /\ ~built => /\ Numbers(nodes, perm) /\ next \in 0 .. Len(nodes)
                 /\ 0 .. next - 1 \subseteq DOMAIN perm

(* The way from a node to the root, step by step. *)
IsWayUp(nd, i, up) ==
    LET n == Len(nd)
    IN  /\ up \in [0 .. n -> -1 .. n - 1] /\ up[0] = i
        /\ \A j \in 0 .. n - 1 : up[j + 1] = IF up[j] = -1 THEN -1 ELSE nd[up[j] + 1]

LEMMA WayUpIs ==
    ASSUME LowerParents(nodes, lvlnodes), NEW i \in NodeIds
    PROVE  IsWayUp(nodes, i, WayUp(i))
<1> DEFINE n == Len(nodes)
           S == -1 .. n - 1
           g == [a \in S |-> IF a = -1 THEN -1 ELSE nodes[a + 1]]
           Is(u) == u = [j \in 0 .. n |-> IF j = 0 THEN i
                                          ELSE LET below == u[j - 1]
                                               IN  IF below = -1 THEN -1 ELSE nodes[below + 1]]
<1>1. n \in Nat /\ i \in S
  BY DEF LowerParents, NodeIds
<1>2. \A a \in S : g[a] \in S
  <2>1. \A a \in 0 .. n - 1 : nodes[a + 1] \in S
    BY <1>1 DEF LowerParents
  <2>2. \A a \in S : a = -1 \/ a \in 0 .. n - 1
    BY <1>1
  <2>3. -1 \in S
    BY <1>1
  <2> HIDE DEF S, n
  <2>4. QED
    BY <2>1, <2>2, <2>3
<1>3. PICK v \in [0 .. n -> S] : v = [j \in 0 .. n |-> IF j = 0 THEN i ELSE g[v[j - 1]]]
  <2> HIDE DEF S, n, g
  <2>1. IsClosed(g, S)
    BY <1>2 DEF IsClosed
  <2>2. \E v \in [0 .. n -> S] : IsIterated(v, g, i, n)
    BY <1>1, <2>1, IteratesExist
  <2>3. QED
    BY <2>2 DEF IsIterated
<1>4. \A j \in 0 .. n : j # 0 => j - 1 \in 0 .. n
  BY <1>1
<1>5. Is(v)
  <2>1. \A j \in 0 .. n : j # 0 => g[v[j - 1]] = IF v[j - 1] = -1 THEN -1 ELSE nodes[v[j - 1] + 1]
    BY <1>3, <1>4
  <2> HIDE DEF g
  <2>2. QED
    BY <1>3, <2>1
<1>6. Is(WayUp(i))
  <2>1. WayUp(i) = CHOOSE u : Is(u)
    BY DEF WayUp
  <2> HIDE DEF Is
  <2>2. QED
    BY <1>5, <2>1
<1> DEFINE up == WayUp(i)
<1>7. DOMAIN up = 0 .. n
  BY <1>6
<1> HIDE DEF up
<1>8. up[0] = i /\ \A j \in 0 .. n - 1 : up[j + 1] = IF up[j] = -1 THEN -1 ELSE nodes[up[j] + 1]
  <2>1. \A j \in 0 .. n : up[j] = IF j = 0 THEN i
                                    ELSE IF up[j - 1] = -1 THEN -1 ELSE nodes[up[j - 1] + 1]
    BY <1>6 DEF up
  <2>2. 0 \in 0 .. n /\ \A j \in 0 .. n - 1 : j + 1 \in 0 .. n /\ j + 1 # 0 /\ j + 1 - 1 = j
    BY <1>1
  <2> HIDE DEF n
  <2>3. QED
    BY <2>1, <2>2
<1>9. \A j \in 0 .. n : up[j] \in S
  <2> DEFINE T == {z \in Nat : z <= n => up[z] \in S}
  <2>1. 0 \in T
    BY <1>1, <1>8
  <2>2. ASSUME NEW z \in T PROVE z + 1 \in T
    <3>1. CASE z + 1 <= n
      <4>1. z \in 0 .. n - 1 /\ up[z] \in S
        BY <1>1, <3>1
      <4>2. up[z + 1] = g[up[z]]
        BY <1>8, <4>1
      <4>3. up[z + 1] \in S
        BY <1>2, <4>1, <4>2
      <4>4. QED
        BY <4>3
    <3>2. CASE ~(z + 1 <= n)
      BY <3>2
    <3>3. QED
      BY <3>1, <3>2
  <2> HIDE DEF T
  <2>3. T = Nat
    BY <2>1, <2>2, SetOfAllNaturals DEF T
  <2>4. QED
    BY <1>1, <2>3 DEF T
<1>10. up \in [0 .. n -> S]
  <2>1. up = [j \in 0 .. n |-> up[j]]
    BY <1>6 DEF up
  <2>2. QED
    BY <1>9, <2>1
<1>11. QED
  BY <1>8, <1>10 DEF IsWayUp, up

(* A numbering from 0 is extended to the elements of a list, in reverse. *)
IsExtension(pm2, E, pm, D, m, up, len) ==
    /\ E = D \cup {up[j] : j \in 0 .. len - 1}
    /\ pm2 = [q \in E |-> pm2[q]]
    /\ \A q \in D : pm2[q] = pm[q]
    /\ \A j \in 0 .. len - 1 : pm2[up[j]] = m + len - 1 - j

LEMMA NumberingGrows ==
    ASSUME NEW D, NEW m \in Nat, NEW pm, IsNumbering(pm, D, m),
           NEW len \in Nat, NEW up, NEW E, NEW pm2,
           IsExtension(pm2, E, pm, D, m, up, len)
    PROVE  IsNumbering(pm2, E, m + len) /\ Cardinality(E) = m + len
<1> DEFINE J == 0 .. len - 1
           B == 0 .. m + len - 1
<1>1. \A q \in D : q \in E /\ pm2[q] = pm[q] /\ pm2[q] \in B /\ pm2[q] \in Int /\ pm2[q] < m
  BY DEF IsNumbering, IsExtension
<1>2. \A j \in J : j \in Int /\ m + len - 1 - j \in B /\ m <= m + len - 1 - j
  OBVIOUS
<1>3. \A j \in J : up[j] \in E /\ pm2[up[j]] = m + len - 1 - j /\ pm2[up[j]] \in B
                   /\ pm2[up[j]] \in Int /\ m <= pm2[up[j]]
  BY <1>2 DEF IsExtension
<1>4. \A q \in E : q \in D \/ \E j \in J : q = up[j]
  BY DEF IsExtension
<1> HIDE DEF J, B
<1>5. \A q \in E : pm2[q] \in B
  BY <1>1, <1>3, <1>4
<1>6. pm2 \in [E -> B]
  BY <1>5 DEF IsExtension
<1>7. \A a, b \in E : pm2[a] = pm2[b] => a = b
  <2> SUFFICES ASSUME NEW a \in E, NEW b \in E, pm2[a] = pm2[b] PROVE a = b
    OBVIOUS
  <2>1. CASE a \in D /\ b \in D
    BY <1>1, <2>1 DEF IsNumbering
  <2>2. ASSUME NEW c \in D, NEW j \in J PROVE pm2[c] # pm2[up[j]]
    <3>1. pm2[c] < m /\ pm2[c] \in Int
      BY <1>1
    <3>2. m <= pm2[up[j]] /\ pm2[up[j]] \in Int
      BY <1>3
    <3>3. QED
      BY <3>1, <3>2
  <2>3. ASSUME NEW j \in J, NEW z \in J, pm2[up[j]] = pm2[up[z]] PROVE up[j] = up[z]
    <3>1. m + len - 1 - j = m + len - 1 - z
      BY <1>3, <2>3
    <3>2. j \in Int /\ z \in Int
      BY <1>2
    <3>3. j = z
      BY <3>1, <3>2
    <3>4. QED
      BY <3>3
  <2>4. CASE a \in D /\ \E j \in J : b = up[j]
    BY <2>2, <2>4
  <2>5. CASE b \in D /\ \E j \in J : a = up[j]
    BY <2>2, <2>5
  <2>6. CASE (\E j \in J : a = up[j]) /\ (\E j \in J : b = up[j])
    BY <2>3, <2>6
  <2>7. QED
    BY <1>4, <2>1, <2>4, <2>5, <2>6
<1>8. \A v \in B : \E a \in E : pm2[a] = v
  <2> SUFFICES ASSUME NEW v \in B PROVE \E a \in E : pm2[a] = v
    OBVIOUS
  <2>1. CASE v < m
    <3>1. v \in 0 .. m - 1
      BY <2>1 DEF B
    <3>2. PICK a \in D : pm[a] = v
      BY <3>1 DEF IsNumbering
    <3>3. QED
      BY <1>1, <3>2
  <2>2. CASE ~(v < m)
    <3> DEFINE j == m + len - 1 - v
    <3>1. j \in J /\ m + len - 1 - j = v
      BY <2>2 DEF J, B
    <3> HIDE DEF j
    <3>2. QED
      BY <1>3, <3>1
  <2>3. QED
    BY <2>1, <2>2
<1>9. IsNumbering(pm2, E, m + len)
  BY <1>6, <1>7, <1>8 DEF B, IsNumbering
<1>10. QED
  <2> DEFINE c == m + len
  <2>1. c \in Nat /\ IsNumbering(pm2, E, c)
    BY <1>9
  <2> HIDE DEF c
  <2>2. Cardinality(E) = c
    BY <2>1, Counted
  <2>3. QED
    BY <1>9, <2>2 DEF c

(* The nodes on the way up are numbered as NumberBranch does. *)
IsBranch(pm, up, len, branch, m, rank, pm2) ==
    /\ branch = {up[j] : j \in 0 .. len - 1}
    /\ branch \cap (DOMAIN pm \cup {-1}) = {}
    /\ up[len] \in DOMAIN pm \cup {-1}
    /\ m = Cardinality(DOMAIN pm)
    /\ \A q \in branch : rank[q] = CHOOSE j \in 0 .. len - 1 : up[j] = q
    /\ pm2 = [q \in DOMAIN pm \cup branch |-> IF q \in branch THEN m + len - 1 - rank[q] ELSE pm[q]]

LEMMA BranchIsNumbered ==
    ASSUME NEW nd, NEW lv, LowerParents(nd, lv),
           NEW pm, Numbers(nd, pm),
           NEW i \in 0 .. Len(nd) - 1, NEW up, IsWayUp(nd, i, up),
           NEW len \in 1 .. Len(nd),
           NEW branch, NEW m, NEW rank, NEW pm2, IsBranch(pm, up, len, branch, m, rank, pm2)
    PROVE  Numbers(nd, pm2) /\ DOMAIN pm \subseteq DOMAIN pm2 /\ i \in DOMAIN pm2
<1> USE DEF IsBranch
<1> DEFINE n == Len(nd)
           D == DOMAIN pm
           E == D \cup branch
           J == 0 .. len - 1
<1>1. n \in Nat /\ len \in Nat \ {0} /\ len <= n
  BY DEF LowerParents
<1>2. /\ D \subseteq 0 .. n - 1 /\ IsNumbering(pm, D, m)
      /\ \A a \in D : nd[a + 1] # -1 => nd[a + 1] \in D /\ pm[nd[a + 1]] < pm[a]
  BY Zenon DEF Numbers
<1>3. m \in Nat
  <2>1. IsFiniteSet(0 .. n - 1)
    BY <1>1, FS_Interval
  <2> HIDE DEF n, D
  <2>2. IsFiniteSet(D)
    BY <1>2, <2>1, FS_Subset
  <2>3. QED
    BY <2>2, FS_CardinalityType DEF D
<1>4. /\ \A j \in 0 .. n : up[j] \in -1 .. n - 1
      /\ up[0] = i
      /\ \A j \in 0 .. n - 1 : up[j] # -1 => up[j + 1] = nd[up[j] + 1]
  BY DEF IsWayUp
<1>5. \A a \in 0 .. n - 1 : nd[a + 1] # -1 => nd[a + 1] \in 0 .. n - 1 /\ lv[nd[a + 1] + 1] < lv[a + 1]
  BY DEF LowerParents
<1>6. \A a \in 0 .. n - 1 : lv[a + 1] \in Nat
  <2>1. lv \in Seq(Nat) /\ Len(lv) = n
    BY DEF LowerParents
  <2> HIDE DEF n
  <2>2. QED
    BY <1>1, <2>1
<1> HIDE DEF n, D
<1>7. \A j \in J : j \in 0 .. n - 1 /\ j \in 0 .. n /\ j \in Nat
  BY <1>1
<1>8. \A j \in J : up[j] \in branch /\ up[j] \notin D /\ up[j] # -1 /\ up[j] \in 0 .. n - 1
  <2>1. \A j \in J : up[j] \in branch /\ up[j] \notin D /\ up[j] # -1
    BY DEF D
  <2>2. \A a \in -1 .. n - 1 : a = -1 \/ a \in 0 .. n - 1
    BY <1>1
  <2> HIDE DEF J
  <2>3. QED
    BY <1>4, <1>7, <2>1, <2>2
<1>9. \A j \in J : up[j + 1] = nd[up[j] + 1]
  BY <1>4, <1>7, <1>8
(* The levels decrease, so that the nodes are not met twice. *)
<1>10. \A j, z \in J : j < z => lv[up[z] + 1] < lv[up[j] + 1]
  <2> DEFINE T == {z \in Nat : z \in J => \A j \in J : j < z => lv[up[z] + 1] < lv[up[j] + 1]}
  <2>1. 0 \in T
    BY <1>7
  <2>2. ASSUME NEW z \in T PROVE z + 1 \in T
    <3> SUFFICES ASSUME z + 1 \in J, NEW j \in J, j < z + 1
                 PROVE  lv[up[z + 1] + 1] < lv[up[j] + 1]
      OBVIOUS
    <3>1. z \in J /\ j \in Nat
      BY <1>1, <1>7
    <3>2. up[z + 1] # -1 /\ up[z + 1] = nd[up[z] + 1]
      BY <1>8, <1>9, <3>1
    <3>3. lv[up[z + 1] + 1] < lv[up[z] + 1]
      BY <1>5, <1>8, <3>1, <3>2
    <3>4. j = z \/ (j < z /\ lv[up[z] + 1] < lv[up[j] + 1])
      BY <3>1
    <3>5. lv[up[z + 1] + 1] \in Nat /\ lv[up[z] + 1] \in Nat /\ lv[up[j] + 1] \in Nat
      BY <1>6, <1>8, <3>1
    <3>6. QED
      BY <3>3, <3>4, <3>5
  <2> HIDE DEF T, J
  <2>3. T = Nat
    BY <2>1, <2>2, SetOfAllNaturals DEF T
  <2>4. QED
    BY <1>7, <2>3 DEF T
<1>11. \A j, z \in J : up[j] = up[z] => j = z
  <2> SUFFICES ASSUME NEW j \in J, NEW z \in J, up[j] = up[z], j # z PROVE FALSE
    OBVIOUS
  <2>1. j \in Nat /\ z \in Nat
    BY <1>7
  <2>2. j < z \/ z < j
    BY <2>1
  <2>3. lv[up[j] + 1] \in Nat /\ lv[up[z] + 1] \in Nat
    BY <1>6, <1>8
  <2>4. QED
    BY <1>10, <2>2, <2>3
<1>12. ASSUME NEW j \in J PROVE rank[up[j]] = j
  <2>1. up[j] \in branch
    BY <1>8
  <2>2. rank[up[j]] \in J /\ up[rank[up[j]]] = up[j]
    BY <2>1
  <2>3. QED
    BY <1>11, <2>2
<1>13. /\ DOMAIN pm2 = E
       /\ \A q \in D : pm2[q] = pm[q]
       /\ \A j \in J : pm2[up[j]] = m + len - 1 - j
  <2>1. \A q \in D : q \notin branch
    BY <1>8
  <2>2. QED
    BY <1>8, <1>12, <2>1 DEF D
<1>14. \A q \in E : q \in D \/ \E j \in J : q = up[j]
  BY DEF D
<1> HIDE DEF E, J
<1>15. \A q \in D : pm[q] \in Int /\ pm[q] >= 0 /\ pm[q] < m
  BY <1>2, <1>3 DEF IsNumbering
<1>16. \A j \in J : /\ j \in Int /\ m + len - 1 - j \in Int
                    /\ m <= m + len - 1 - j /\ m + len - 1 - j < m + len
  BY <1>1, <1>3 DEF J
<1>17. IsNumbering(pm2, E, m + len) /\ Cardinality(E) = m + len
  <2>1. E = D \cup {up[j] : j \in 0 .. len - 1}
    BY DEF E
  <2>2. pm2 = [q \in E |-> pm2[q]]
    BY <1>13
  <2>3. \A j \in 0 .. len - 1 : pm2[up[j]] = m + len - 1 - j
    BY <1>13 DEF J
  <2>4. IsExtension(pm2, E, pm, D, m, up, len)
    BY <1>13, <2>1, <2>2, <2>3 DEF IsExtension
  <2>5. QED
    BY <1>1, <1>2, <1>3, <2>4, NumberingGrows
<1>21. E \subseteq 0 .. n - 1
  <2>1. \A q \in E : q \in 0 .. n - 1
    <3>1. \A q \in D : q \in 0 .. n - 1
      BY <1>2
    <3>2. QED
      BY <1>8, <1>14, <3>1
  <2>2. QED
    BY <2>1
<1>22. ASSUME NEW a \in E, nd[a + 1] # -1
       PROVE  nd[a + 1] \in E /\ pm2[nd[a + 1]] < pm2[a]
  <2>1. CASE a \in D
    BY <1>2, <1>13, <1>22, <2>1 DEF E
  <2>2. ASSUME NEW j \in J, a = up[j]
        PROVE  nd[a + 1] \in E /\ pm2[nd[a + 1]] < pm2[a]
    <3>1. nd[a + 1] = up[j + 1]
      BY <1>9, <2>2
    <3>2. j + 1 \in J \/ j + 1 = len
      BY <1>1 DEF J
    <3>3. CASE j + 1 \in J
      <4>1. up[j + 1] \in E /\ pm2[up[j + 1]] = m + len - 1 - (j + 1) /\ pm2[up[j]] = m + len - 1 - j
        BY <1>8, <1>13, <3>3 DEF E
      <4>2. m + len - 1 - (j + 1) < m + len - 1 - j
        BY <1>1, <1>3, <1>16
      <4>3. QED
        BY <2>2, <3>1, <4>1, <4>2
    <3>4. CASE j + 1 = len
      <4>1. nd[a + 1] \in D
        BY <1>22, <3>1, <3>4 DEF D
      <4>2. pm2[nd[a + 1]] < m /\ pm2[nd[a + 1]] \in Int
        BY <1>13, <1>15, <4>1
      <4>3. m <= pm2[a] /\ pm2[a] \in Int
        <5>1. pm2[a] = m + len - 1 - j
          BY <1>13, <2>2
        <5>2. QED
          BY <1>16, <5>1
      <4>4. QED
        BY <1>3, <4>1, <4>2, <4>3 DEF E
    <3>5. QED
      BY <3>2, <3>3, <3>4
  <2>3. QED
    BY <1>14, <2>1, <2>2
<1>23. Numbers(nd, pm2)
  <2>1. DOMAIN pm2 = E
    BY <1>13
  <2>2. E \subseteq 0 .. Len(nd) - 1 /\ IsNumbering(pm2, E, Cardinality(E))
    BY <1>17, <1>21 DEF n
  <2>3. \A a \in E : nd[a + 1] # -1 => nd[a + 1] \in E /\ pm2[nd[a + 1]] < pm2[a]
    BY <1>22
  <2>4. QED
    BY <2>1, <2>2, <2>3, Zenon DEF Numbers
<1>24. 0 \in J
  BY <1>1 DEF J
<1>25. QED
  BY <1>4, <1>8, <1>13, <1>23, <1>24 DEF D, E

(* What a step of the renumbering does to the nodes on the way up. *)
LEMMA BranchStep ==
    ASSUME LowerParents(nodes, lvlnodes), Numbers(nodes, perm), next \in NodeIds, NumberBranch
    PROVE  Numbers(nodes, perm') /\ DOMAIN perm \subseteq DOMAIN perm' /\ next \in DOMAIN perm'
<1> DEFINE up == WayUp(next)
           branch(len) == {up[j] : j \in 0 .. len - 1}
           place(len, q) == CHOOSE j \in 0 .. len - 1 : up[j] = q
           m == Cardinality(DOMAIN perm)
<1>1. PICK len \in 1 .. Len(nodes) :
          /\ branch(len) \cap (DOMAIN perm \cup {-1}) = {}
          /\ up[len] \in DOMAIN perm \cup {-1}
          /\ perm' = [q \in DOMAIN perm \cup branch(len) |->
                         IF q \in branch(len) THEN m + len - 1 - place(len, q) ELSE perm[q]]
  BY DEF NumberBranch
<1>2. IsWayUp(nodes, next, up)
  BY WayUpIs
<1> DEFINE b == branch(len)
           pl(q) == place(len, q)
           rank == [q \in b |-> pl(q)]
<1>3. IsBranch(perm, up, len, b, m, rank, perm')
  <2>1. b = {up[j] : j \in 0 .. len - 1} /\ \A q : pl(q) = CHOOSE j \in 0 .. len - 1 : up[j] = q
    OBVIOUS
  <2>2. /\ b \cap (DOMAIN perm \cup {-1}) = {} /\ up[len] \in DOMAIN perm \cup {-1}
        /\ perm' = [q \in DOMAIN perm \cup b |-> IF q \in b THEN m + len - 1 - pl(q) ELSE perm[q]]
    BY <1>1, Zenon
  <2>3. m = Cardinality(DOMAIN perm)
    OBVIOUS
  <2> HIDE DEF b, pl, m, up
  <2>4. \A q \in b : rank[q] = pl(q)
    OBVIOUS
  <2> HIDE DEF rank
  <2>5. perm' = [q \in DOMAIN perm \cup b |-> IF q \in b THEN m + len - 1 - rank[q] ELSE perm[q]]
    BY <2>2, <2>4
  <2>6. \A q \in b : rank[q] = CHOOSE j \in 0 .. len - 1 : up[j] = q
    BY <2>1, <2>4
  <2>7. QED
    BY <2>1, <2>2, <2>3, <2>5, <2>6, Zenon DEF IsBranch
<1> HIDE DEF b, m, rank, up
<1>4. QED
  BY <1>1, <1>2, <1>3, BranchIsNumbered DEF NodeIds

LEMMA NothingIsNumbered ==
    ASSUME NEW nd PROVE Numbers(nd, [i \in {} |-> 0])
<1> DEFINE pm == [i \in {} |-> 0]
<1>1. DOMAIN pm = {} /\ Cardinality({}) = 0
  BY FS_EmptySet
<1>2. pm \in [{} -> 0 .. -1]
  OBVIOUS
<1> HIDE DEF pm
<1>3. \A v : v \notin 0 .. -1
  OBVIOUS
<1>4. IsNumbering(pm, {}, 0)
  BY <1>2, <1>3 DEF IsNumbering
<1>5. Numbers(nd, pm)
  BY <1>1, <1>4 DEF Numbers
<1>6. QED
  BY <1>5 DEF pm

NumberInv == NumberOK /\ (built => pc = "end" /\ next = Len(nodes) /\ ParentsFirst)

LEMMA RenumberKeepsNumbers == TreeOK /\ NumberInv /\ Renumber => NumberInv'
<1> SUFFICES ASSUME TreeOK, NumberInv, Renumber PROVE NumberInv'
  OBVIOUS
<1>1. /\ pc = "end" /\ next < Len(nodes) /\ next' = next + 1
      /\ pc' = pc /\ nodes' = nodes /\ built' = built
  BY DEF Renumber, canvasVars
<1>2. ~built
  <2>1. CASE built
    BY <1>1, <2>1 DEF NumberInv, TreeOK
  <2>2. QED
    BY <2>1
<1>3. LowerParents(nodes, lvlnodes) /\ Len(nodes) \in Nat
  BY <1>2 DEF TreeOK, LowerParents
<1>4. Numbers(nodes, perm) /\ next \in 0 .. Len(nodes) /\ 0 .. next - 1 \subseteq DOMAIN perm
  BY <1>2 DEF NumberInv, NumberOK
<1>5. next \in NodeIds /\ next \in Nat
  BY <1>1, <1>3, <1>4 DEF NodeIds
<1>6. Numbers(nodes, perm') /\ DOMAIN perm \subseteq DOMAIN perm' /\ next \in DOMAIN perm'
  <2>1. CASE next \in DOMAIN perm
    BY <1>4, <2>1 DEF Renumber
  <2>2. CASE next \notin DOMAIN perm
    <3>1. NumberBranch
      BY <2>2 DEF Renumber
    <3>2. QED
      BY <1>3, <1>4, <1>5, <3>1, BranchStep
  <2>3. QED
    BY <2>1, <2>2
<1>7. 0 .. next \subseteq DOMAIN perm'
  <2>1. \A i \in 0 .. next : i \in 0 .. next - 1 \/ i = next
    BY <1>5
  <2>2. QED
    BY <1>4, <1>6, <2>1
<1>8. next' \in 0 .. Len(nodes) /\ next' - 1 = next
  BY <1>1, <1>3, <1>5
<1>9. NumberOK'
  <2>1. built \in BOOLEAN
    BY DEF NumberInv, NumberOK
  <2>2. QED
    BY <1>1, <1>2, <1>6, <1>7, <1>8, <2>1 DEF NumberOK
<1>10. QED
  BY <1>1, <1>2, <1>9 DEF NumberInv

(* When every node is numbered, the numbers are those of the nodes. *)
LEMMA AllAreNumbered ==
    ASSUME NEW nd, Len(nd) \in Nat, NEW pm, Numbers(nd, pm), 0 .. Len(nd) - 1 \subseteq DOMAIN pm
    PROVE  /\ \A j \in 0 .. Len(nd) - 1 : pm[j] \in 0 .. Len(nd) - 1
           /\ \A v \in 0 .. Len(nd) - 1 : \E j \in 0 .. Len(nd) - 1 : pm[j] = v
           /\ \A j \in 0 .. Len(nd) - 1 :
                  nd[j + 1] # -1 => nd[j + 1] \in 0 .. Len(nd) - 1 /\ pm[nd[j + 1]] < pm[j]
<1> DEFINE n == Len(nd)
           I == 0 .. n - 1
<1>1. DOMAIN pm = I
  BY DEF Numbers
<1>2. Cardinality(I) = n
  <2>1. n \in Nat /\ 0 \in Int /\ n - 1 \in Int
    OBVIOUS
  <2> HIDE DEF n
  <2>2. Cardinality(0 .. (n - 1)) = IF 0 > n - 1 THEN 0 ELSE n - 1 - 0 + 1
    BY <2>1, FS_Interval
  <2>3. QED
    BY <2>1, <2>2
<1>3. IsNumbering(pm, I, n) /\ \A a \in I : nd[a + 1] # -1 => nd[a + 1] \in I /\ pm[nd[a + 1]] < pm[a]
  BY <1>1, <1>2 DEF Numbers
<1>4. QED
  BY <1>3 DEF IsNumbering

LEMMA ReorderKeepsNumbers == TreeOK /\ NumberInv /\ Reorder => NumberInv'
<1> SUFFICES ASSUME TreeOK, NumberInv, Reorder PROVE NumberInv'
  OBVIOUS
<1> DEFINE n == Len(nodes)
           old(i) == CHOOSE j \in NodeIds : perm[j] = i - 1
           new(j) == IF j < 0 THEN j ELSE perm[j]
<1>1. /\ pc = "end" /\ next = n /\ ~built /\ pc' = pc /\ next' = next /\ built' = TRUE
      /\ perm' = perm
      /\ nodes' = [i \in 1 .. n |-> new(nodes[old(i) + 1])]
  BY DEF Reorder, canvasVars
<1>2. LowerParents(nodes, lvlnodes) /\ n \in Nat
  BY <1>1 DEF TreeOK, LowerParents
<1>3. Numbers(nodes, perm) /\ 0 .. n - 1 \subseteq DOMAIN perm
  BY <1>1 DEF NumberInv, NumberOK
<1>4. /\ \A j \in 0 .. n - 1 : perm[j] \in 0 .. n - 1
      /\ \A v \in 0 .. n - 1 : \E j \in 0 .. n - 1 : perm[j] = v
      /\ \A j \in 0 .. n - 1 :
             nodes[j + 1] # -1 => nodes[j + 1] \in 0 .. n - 1 /\ perm[nodes[j + 1]] < perm[j]
  BY <1>2, <1>3, AllAreNumbered, Zenon
<1>5. Len(nodes') = n
  <2> DEFINE e(i) == new(nodes[old(i) + 1])
  <2>1. n \in Nat /\ nodes' = [i \in 1 .. n |-> e(i)]
    BY <1>1, <1>2
  <2> HIDE DEF n, e
  <2>2. QED
    BY <2>1
<1>6. ASSUME NEW i \in 0 .. n - 1 PROVE nodes'[i + 1] < i
  <2> DEFINE j == old(i + 1)
  <2>1. i + 1 \in 1 .. n /\ i + 1 - 1 = i /\ i \in Nat
    BY <1>2
  <2>2. \E a \in NodeIds : perm[a] = i + 1 - 1
    BY <1>4, <2>1 DEF NodeIds
  <2>3. j \in 0 .. n - 1 /\ perm[j] = i
    BY <2>1, <2>2 DEF NodeIds
  <2>4. nodes'[i + 1] = new(nodes[j + 1])
    BY <1>1, <2>1
  <2> HIDE DEF j, n
  <2>5. CASE nodes[j + 1] = -1
    BY <2>1, <2>4, <2>5
  <2>6. CASE nodes[j + 1] # -1
    <3>1. nodes[j + 1] \in 0 .. n - 1 /\ perm[nodes[j + 1]] < perm[j]
      BY <1>4, <2>3, <2>6
    <3>2. ~(nodes[j + 1] < 0)
      BY <1>2, <3>1
    <3>3. QED
      BY <2>3, <2>4, <3>1, <3>2
  <2>7. QED
    BY <2>5, <2>6
<1>7. ParentsFirst'
  BY <1>5, <1>6 DEF ParentsFirst, NodeIds
<1>8. NumberOK'
  BY <1>1 DEF NumberOK
<1>9. QED
  BY <1>1, <1>5, <1>7, <1>8 DEF NumberInv

LEMMA FloodKeepsNumbers ==
    TreeOK' /\ NumberInv /\ (MTFlood \/ MTScan \/ MTDoneSameLevel \/ MTDoneOtherLevel \/ MTDoneLast)
        => NumberInv'
<1> SUFFICES ASSUME TreeOK', NumberInv,
                    MTFlood \/ MTScan \/ MTDoneSameLevel \/ MTDoneOtherLevel \/ MTDoneLast
             PROVE  NumberInv'
  OBVIOUS
<1>1. pc # "end"
  BY DEF MTFlood, MTScan, MTDoneSameLevel, MTDoneOtherLevel, MTDoneLast, Flood, Skip, Postpone, Climb,
         Scanning, DoneSameLevel, DoneOtherLevel, DoneLast, FinishPoint
<1>2. perm' = perm /\ next' = next /\ built' = built
  BY DEF MTFlood, MTScan, MTDoneSameLevel, MTDoneOtherLevel, MTDoneLast, treeVars, renumberVars
<1>3. built \in BOOLEAN /\ ~built /\ next = 0 /\ perm = [i \in {} |-> 0]
  BY <1>1 DEF NumberInv, NumberOK
<1>4. Numbers(nodes', perm')
  BY <1>2, <1>3, NothingIsNumbered, Zenon
<1>5. Len(nodes') \in Nat
  BY <1>2, <1>3 DEF TreeOK, LowerParents
<1>6. 0 \in 0 .. Len(nodes') /\ 0 .. 0 - 1 = {}
  BY <1>5
<1>7. NumberOK'
  BY <1>2, <1>3, <1>4, <1>6 DEF NumberOK
<1>8. QED
  BY <1>2, <1>3, <1>7 DEF NumberInv

LEMMA NumberInit == MTInit => TreeOK /\ NumberInv
<1> SUFFICES ASSUME MTInit PROVE TreeOK /\ NumberInv
  OBVIOUS
<1>1. /\ nodes = <<>> /\ lvlnodes = <<>> /\ roots = <<>> /\ next = 0 /\ built = FALSE
      /\ perm = [i \in {} |-> 0]
  BY DEF MTInit
<1>2. TreeOK
  BY <1>1 DEF TreeOK, LowerParents, EntriesKnow
<1>3. Numbers(nodes, perm)
  BY <1>1, NothingIsNumbered, Zenon
<1>4. next \in 0 .. Len(nodes) /\ 0 .. next - 1 = {}
  BY <1>1
<1>5. QED
  BY <1>1, <1>2, <1>3, <1>4 DEF NumberInv, NumberOK

LEMMA TreeIsNumbered ==
    CanvasInv /\ StackInv /\ TreeOK /\ NumberInv /\ [MTNext]_vars => TreeOK' /\ NumberInv'
<1> SUFFICES ASSUME CanvasInv, StackInv, TreeOK, NumberInv, [MTNext]_vars
             PROVE  TreeOK' /\ NumberInv'
  OBVIOUS
<1>1. CASE UNCHANGED vars
  BY <1>1 DEF vars, canvasVars, treeVars, TreeOK, LowerParents, EntriesKnow, NumberInv, NumberOK,
              Numbers, ParentsFirst, NodeIds
<1>2. CASE MTNext
  <2>1. TreeOK'
    BY <1>2, TreeInv
  <2>2. QED
    BY <1>2, <2>1, RenumberKeepsNumbers, ReorderKeepsNumbers, FloodKeepsNumbers DEF MTNext
<1>3. QED
  BY <1>1, <1>2

(***************************************************************************)
(* permute_parent: in the tree that is returned a parent precedes its      *)
(* children, for every image, neighbourhood and start.                     *)
(***************************************************************************)
THEOREM TreeIsOrdered == MTSpec => []ParentsFirst
<1>1. MTInit => TreeOK /\ NumberInv
  BY NumberInit
<1>2. CanvasInv /\ StackInv /\ TreeOK /\ NumberInv /\ [MTNext]_vars => TreeOK' /\ NumberInv'
  BY TreeIsNumbered
<1>3. NumberInv => ParentsFirst
  BY DEF NumberInv, ParentsFirst
<1>4. QED
  BY <1>1, <1>2, <1>3, CanvasAndStack, PTL DEF MTSpec

-----------------------------------------------------------------------------
(***************************************************************************)
(* The tree is the max-tree.  Of the nodes I that are created, those of    *)
(* the stack S are still growing; lv gives their levels, par the parents   *)
(* of the others, nm the node of each point that is done (fin), opn are    *)
(* the points that wait, and sub[i] is the set of the points of the        *)
(* subtree of node i.                                                      *)
(***************************************************************************)

(* No part of A is cut off from the rest of it. *)
Linked(A) == \A T : (\E q \in A : q \in T) /\ NoPairLeaves(T, A, Adjacent) => A \subseteq T

(* The points of a subtree are not below its root, and belong to the root *)
(* when they are of its level.                                            *)
PointsOK(I, lv, nm, fin, sub) ==
    /\ \A i \in I : \A q \in sub[i] : q \in fin /\ f[q] >= lv[i]
    /\ \A q \in fin : nm[q] \in I
    /\ \A q \in fin, i \in I : nm[q] = i <=> q \in sub[i] /\ f[q] = lv[i]

(* A subtree that is complete is connected, is surrounded by points that  *)
(* are not higher than the parent, and has a point of its own level.      *)
ClosedOK(i, I, lv, par, sub) ==
    /\ par[i] \in I /\ lv[par[i]] < lv[i] /\ sub[i] \subseteq sub[par[i]]
    /\ \A o \in sub[i], r \in Point :
          <<o, r>> \in Adjacent /\ r \notin sub[i] => f[r] <= lv[par[i]]
    /\ \E q \in sub[i] : f[q] = lv[i]
    /\ Linked(sub[i])

(* The subtrees that grow share the points that are done; their parts     *)
(* that are higher than the root are complete.                            *)
StackOK(S, lv, fin, sub) ==
    /\ \A q \in fin : \E i \in S : q \in sub[i]
    /\ \A i, j \in S : i # j => lv[i] # lv[j] /\ \A q \in sub[i] : q \notin sub[j]
    /\ \A i \in S : \A o \in sub[i], r \in Point :
          f[o] > lv[i] /\ <<o, r>> \in Adjacent /\ r \notin sub[i] => f[r] <= lv[i]

(* What the flooding has reached from level m up without going below it. *)
Reached(S, lv, opn, sub, m) ==
    {q \in Point : (\E i \in S : lv[i] >= m /\ q \in sub[i]) \/ (q \in opn /\ f[q] >= m)}

ReachOK(S, lv, opn, sub) ==
    \A m \in Level : (\E i \in S : m <= lv[i]) => Linked(Reached(S, lv, opn, sub, m))

TypesOK(I, S, lv, par, fin, opn) ==
    /\ S \subseteq I /\ fin \subseteq Point /\ opn \subseteq Point /\ fin \cap opn = {}
    /\ \A i \in I : lv[i] \in Level

Growing(I, S, lv, par, nm, fin, opn, sub) ==
    /\ TypesOK(I, S, lv, par, fin, opn)
    /\ PointsOK(I, lv, nm, fin, sub)
    /\ \A i \in I : i \notin S => ClosedOK(i, I, lv, par, sub)
    /\ StackOK(S, lv, fin, sub)
    /\ ReachOK(S, lv, opn, sub)

-----------------------------------------------------------------------------
LEMMA OnePointIsLinked == \A q : Linked({q})
BY DEF Linked

LEMMA LinkedGrows ==
    ASSUME NEW A, Linked(A), NEW q \in A, NEW r, <<q, r>> \in Adjacent, <<r, q>> \in Adjacent
    PROVE  Linked(A \cup {r})
<1> DEFINE B == A \cup {r}
<1> SUFFICES ASSUME NEW T, \E o \in B : o \in T, NoPairLeaves(T, B, Adjacent)
             PROVE  B \subseteq T
  BY DEF Linked
<1>1. NoPairLeaves(T, A, Adjacent)
  BY DEF NoPairLeaves
<1>2. \E o \in A : o \in T
  BY DEF NoPairLeaves
<1>3. A \subseteq T
  BY <1>1, <1>2 DEF Linked
<1>4. r \in T
  BY <1>3 DEF NoPairLeaves
<1>5. QED
  BY <1>3, <1>4

(* The component of a point of a set that is connected and that nothing leaves. *)
LEMMA LinkedIsComponent ==
    ASSUME NEW X, IsFiniteSet(X), NEW A \in SUBSET X, NEW q \in A, Linked(A),
           NoPairLeaves(A, X, Adjacent)
    PROVE  Component(X, q, Adjacent) = A
<1> DEFINE C == Component(X, q, Adjacent)
<1>1. IsComponent(C, X, q, Adjacent)
  BY ComponentIs
<1> HIDE DEF C
<1>2. C \subseteq A
  BY <1>1 DEF IsComponent
<1>3. NoPairLeaves(C, A, Adjacent) /\ q \in C
  BY <1>1 DEF IsComponent, NoPairLeaves
<1>4. A \subseteq C
  BY <1>3 DEF Linked
<1>5. QED
  BY <1>2, <1>4 DEF C

-----------------------------------------------------------------------------
ImageOK == f \in [Point -> Level]

LEMMA LevelsCompare ==
    ASSUME ImageOK PROVE \A q \in Point : f[q] \in Level /\ f[q] \in Nat
BY LevelsAreNat DEF ImageOK

(* A neighbour of a waiting point is found. *)
LEMMA PointIsFound ==
    ASSUME ImageOK, NEW I, NEW S, NEW lv, NEW par, NEW nm, NEW fin, NEW opn, NEW sub,
           Growing(I, S, lv, par, nm, fin, opn, sub),
           NEW q \in opn, NEW r \in Point, r \notin fin, <<q, r>> \in Adjacent, <<r, q>> \in Adjacent,
           \A i \in S : lv[i] <= f[q]
    PROVE  Growing(I, S, lv, par, nm, fin, opn \cup {r}, sub)
<1>1. TypesOK(I, S, lv, par, fin, opn \cup {r}) /\ q \in Point
  BY DEF Growing, TypesOK
<1>2. ReachOK(S, lv, opn \cup {r}, sub)
  <2> SUFFICES ASSUME NEW m \in Level, \E i \in S : m <= lv[i]
               PROVE  Linked(Reached(S, lv, opn \cup {r}, sub, m))
    BY DEF ReachOK
  <2> DEFINE A == Reached(S, lv, opn, sub, m)
  <2>1. Linked(A)
    BY DEF Growing, ReachOK
  <2>2. m \in Nat /\ f[q] \in Nat /\ f[r] \in Nat
    BY <1>1, LevelsAreNat, LevelsCompare
  <2>3. \A i \in S : lv[i] \in Nat
    BY LevelsAreNat DEF Growing, TypesOK
  <2>4. f[q] >= m
    BY <2>2, <2>3
  <2>5. q \in A
    BY <1>1, <2>4 DEF Reached
  <2>6. Reached(S, lv, opn \cup {r}, sub, m) = IF f[r] >= m THEN A \cup {r} ELSE A
    BY DEF Reached
  <2>7. Linked(A \cup {r})
    BY <2>1, <2>5, LinkedGrows
  <2>8. QED
    BY <2>1, <2>6, <2>7
<1>3. QED
  BY <1>1, <1>2 DEF Growing

(* A point is done: it joins the node of its level. *)
IsDone(I, S, lv, nm, fin, opn, sub, q, t, nm2, sub2) ==
    /\ q \in opn /\ t \in S /\ lv[t] = f[q]
    /\ nm2[q] = t /\ \A r \in fin : nm2[r] = nm[r]
    /\ \A i \in I : sub2[i] = IF i = t THEN sub[t] \cup {q} ELSE sub[i]

LEMMA PointIsDone ==
    ASSUME ImageOK, NEW I, NEW S, NEW lv, NEW par, NEW nm, NEW fin, NEW opn, NEW sub,
           Growing(I, S, lv, par, nm, fin, opn, sub),
           NEW q, NEW t, NEW nm2, NEW sub2, IsDone(I, S, lv, nm, fin, opn, sub, q, t, nm2, sub2)
    PROVE  Growing(I, S, lv, par, nm2, fin \cup {q}, opn \ {q}, sub2)
<1> USE DEF IsDone
<1>1. /\ TypesOK(I, S, lv, par, fin, opn) /\ PointsOK(I, lv, nm, fin, sub)
      /\ \A i \in I : i \notin S => ClosedOK(i, I, lv, par, sub)
      /\ StackOK(S, lv, fin, sub) /\ ReachOK(S, lv, opn, sub)
  BY DEF Growing
<1>2. /\ S \subseteq I /\ t \in I /\ q \in Point /\ q \notin fin
      /\ \A i \in I : lv[i] \in Nat
  BY <1>1, LevelsAreNat DEF TypesOK
<1>3. \A i \in I : q \notin sub[i] /\ sub[i] \subseteq sub2[i]
  BY <1>1, <1>2 DEF PointsOK
<1>4. TypesOK(I, S, lv, par, fin \cup {q}, opn \ {q})
  BY <1>1, <1>2 DEF TypesOK
<1>5. PointsOK(I, lv, nm2, fin \cup {q}, sub2)
  <2>1. \A i \in I : \A r \in sub2[i] : r \in fin \cup {q} /\ f[r] >= lv[i]
    BY <1>1, <1>2 DEF PointsOK
  <2>2. \A r \in fin \cup {q} : nm2[r] \in I
    BY <1>1, <1>2 DEF PointsOK
  <2>3. ASSUME NEW r \in fin \cup {q}, NEW i \in I
        PROVE  nm2[r] = i <=> r \in sub2[i] /\ f[r] = lv[i]
    <3>1. CASE r = q
      BY <1>2, <1>3, <3>1 
    <3>2. CASE r # q
      BY <1>1, <1>2, <3>2 DEF PointsOK
    <3>3. QED
      BY <3>1, <3>2
  <2>4. QED
    BY <2>1, <2>2, <2>3 DEF PointsOK
<1>6. ASSUME NEW i \in I, i \notin S PROVE ClosedOK(i, I, lv, par, sub2)
  <2>1. ClosedOK(i, I, lv, par, sub) /\ sub2[i] = sub[i]
    BY <1>1, <1>6
  <2>2. sub[par[i]] \subseteq sub2[par[i]]
    BY <1>3, <2>1 DEF ClosedOK
  <2>3. QED
    BY <2>1, <2>2 DEF ClosedOK
<1>7. StackOK(S, lv, fin \cup {q}, sub2)
  <2>1. \A r \in fin \cup {q} : \E i \in S : r \in sub2[i]
    BY <1>1, <1>2, <1>3 DEF StackOK
  <2>2. \A i, j \in S : i # j => lv[i] # lv[j] /\ \A r \in sub2[i] : r \notin sub2[j]
    BY <1>1, <1>2, <1>3 DEF StackOK
  <2>3. ASSUME NEW i \in S, NEW o \in sub2[i], NEW r \in Point,
               f[o] > lv[i], <<o, r>> \in Adjacent, r \notin sub2[i]
        PROVE  f[r] <= lv[i]
    <3>1. o \in sub[i]
      BY <1>2, <2>3
    <3>2. r \notin sub[i]
      BY <1>2, <1>3, <2>3
    <3>3. QED
      BY <1>1, <2>3, <3>1, <3>2 DEF StackOK
  <2>4. QED
    BY <2>1, <2>2, <2>3 DEF StackOK
<1>8. ReachOK(S, lv, opn \ {q}, sub2)
  <2> SUFFICES ASSUME NEW m \in Level, \E i \in S : m <= lv[i]
               PROVE  Linked(Reached(S, lv, opn \ {q}, sub2, m))
    BY DEF ReachOK
  <2>1. Reached(S, lv, opn \ {q}, sub2, m) = Reached(S, lv, opn, sub, m)
    BY <1>2 DEF Reached
  <2>2. QED
    BY <1>1, <2>1 DEF ReachOK
<1>9. QED
  BY <1>4, <1>5, <1>6, <1>7, <1>8 DEF Growing

(* A node is created for a level that no node of the stack has. *)
IsPushed(I, S, lv, par, opn, sub, n, lv2, par2, sub2) ==
    /\ n \notin I /\ lv2[n] \in Level /\ sub2[n] = {}
    /\ \A i \in I : lv2[i] = lv[i] /\ par2[i] = par[i] /\ sub2[i] = sub[i]
    /\ \A i \in S : lv[i] # lv2[n]
    /\ \A m \in Level : m <= lv2[n] /\ (\A i \in S : ~(m <= lv[i])) =>
                            Linked({q \in Point : q \in opn /\ f[q] >= m})

LEMMA NodeIsPushed ==
    ASSUME ImageOK, NEW I, NEW S, NEW lv, NEW par, NEW nm, NEW fin, NEW opn, NEW sub,
           Growing(I, S, lv, par, nm, fin, opn, sub),
           NEW n, NEW lv2, NEW par2, NEW sub2, IsPushed(I, S, lv, par, opn, sub, n, lv2, par2, sub2)
    PROVE  Growing(I \cup {n}, S \cup {n}, lv2, par2, nm, fin, opn, sub2)
<1> USE DEF IsPushed
<1>1. /\ TypesOK(I, S, lv, par, fin, opn) /\ PointsOK(I, lv, nm, fin, sub)
      /\ \A i \in I : i \notin S => ClosedOK(i, I, lv, par, sub)
      /\ StackOK(S, lv, fin, sub) /\ ReachOK(S, lv, opn, sub)
  BY DEF Growing
<1>2. S \subseteq I
  BY <1>1 DEF TypesOK
<1>4. TypesOK(I \cup {n}, S \cup {n}, lv2, par2, fin, opn)
  BY <1>1 DEF TypesOK
<1>5. PointsOK(I \cup {n}, lv2, nm, fin, sub2)
  BY <1>1 DEF PointsOK
<1>6. ASSUME NEW i \in I \cup {n}, i \notin S \cup {n} PROVE ClosedOK(i, I \cup {n}, lv2, par2, sub2)
  <2>1. i \in I /\ ClosedOK(i, I, lv, par, sub)
    BY <1>1, <1>6
  <2>2. /\ sub2[i] = sub[i] /\ par2[i] = par[i] /\ lv2[i] = lv[i] /\ par[i] \in I
        /\ sub2[par[i]] = sub[par[i]] /\ lv2[par[i]] = lv[par[i]]
    BY <2>1 DEF ClosedOK
  <2>3. QED
    BY <2>1, <2>2 DEF ClosedOK
<1>7. StackOK(S \cup {n}, lv2, fin, sub2)
  <2>1. \A r \in fin : \E i \in S \cup {n} : r \in sub2[i]
    BY <1>1, <1>2 DEF StackOK
  <2>2. \A i, j \in S \cup {n} : i # j => lv2[i] # lv2[j] /\ \A r \in sub2[i] : r \notin sub2[j]
    BY <1>1, <1>2 DEF StackOK
  <2>3. ASSUME NEW i \in S \cup {n}, NEW o \in sub2[i], NEW r \in Point,
               f[o] > lv2[i], <<o, r>> \in Adjacent, r \notin sub2[i]
        PROVE  f[r] <= lv2[i]
    <3>1. i \in S /\ sub2[i] = sub[i] /\ lv2[i] = lv[i]
      BY <1>2, <2>3
    <3>2. QED
      BY <1>1, <2>3, <3>1 DEF StackOK
  <2>4. QED
    BY <2>1, <2>2, <2>3 DEF StackOK
<1>8. ReachOK(S \cup {n}, lv2, opn, sub2)
  <2> SUFFICES ASSUME NEW m \in Level, \E i \in S \cup {n} : m <= lv2[i]
               PROVE  Linked(Reached(S \cup {n}, lv2, opn, sub2, m))
    BY DEF ReachOK
  <2>1. Reached(S \cup {n}, lv2, opn, sub2, m) = Reached(S, lv, opn, sub, m)
    BY <1>2 DEF Reached
  <2>2. CASE \E i \in S : m <= lv[i]
    BY <1>1, <2>1, <2>2 DEF ReachOK
  <2>3. CASE \A i \in S : ~(m <= lv[i])
    <3>1. m <= lv2[n]
      BY <1>2, <2>3
    <3>2. Linked({q \in Point : q \in opn /\ f[q] >= m})
      BY <2>3, <3>1
    <3>3. \A i \in S : ~(lv[i] >= m)
      BY <2>3
    <3>4. Reached(S, lv, opn, sub, m) = {q \in Point : q \in opn /\ f[q] >= m}
      BY <3>3 DEF Reached
    <3>5. QED
      BY <2>1, <3>2, <3>4
  <2>4. QED
    BY <2>2, <2>3
<1>9. QED
  BY <1>4, <1>5, <1>6, <1>7, <1>8 DEF Growing

(* The neighbours of the points that are done are known. *)
Seen(fin, opn) == \A q \in fin, r \in Point : <<q, r>> \in Adjacent => r \in fin \/ r \in opn

SymmetricNbh == \A q, r \in Point : <<q, r>> \in Adjacent => <<r, q>> \in Adjacent

(* The highest subtree that grows is complete: nothing that waits is above *)
(* the node it is attached to.                                             *)
IsClosing(I, S, lv, par, opn, sub, t, b, par2, sub2) ==
    /\ t \in S /\ b \in S /\ lv[b] < lv[t]
    /\ \A i \in S : i = t \/ lv[i] <= lv[b]
    /\ \A q \in opn : f[q] <= lv[b]
    /\ \E q \in sub[t] : f[q] = lv[t]
    /\ \A i \in I : par2[i] = IF i = t THEN b ELSE par[i]
    /\ \A i \in I : sub2[i] = IF i = b THEN sub[b] \cup sub[t] ELSE sub[i]

LEMMA NodeIsClosed ==
    ASSUME ImageOK, SymmetricNbh,
           NEW I, NEW S, NEW lv, NEW par, NEW nm, NEW fin, NEW opn, NEW sub,
           Growing(I, S, lv, par, nm, fin, opn, sub), Seen(fin, opn),
           NEW t, NEW b, NEW par2, NEW sub2, IsClosing(I, S, lv, par, opn, sub, t, b, par2, sub2)
    PROVE  Growing(I, S \ {t}, lv, par2, nm, fin, opn, sub2)
<1> USE DEF IsClosing
<1>1. /\ TypesOK(I, S, lv, par, fin, opn) /\ PointsOK(I, lv, nm, fin, sub)
      /\ \A i \in I : i \notin S => ClosedOK(i, I, lv, par, sub)
      /\ StackOK(S, lv, fin, sub) /\ ReachOK(S, lv, opn, sub)
  BY DEF Growing
<1>2. /\ S \subseteq I /\ t \in I /\ b \in I /\ t # b
      /\ \A i \in I : lv[i] \in Level /\ lv[i] \in Nat
      /\ \A q \in Point : f[q] \in Nat
      /\ fin \subseteq Point /\ opn \subseteq Point
  BY <1>1, LevelsAreNat, LevelsCompare DEF TypesOK
<1>3. \A i \in I : sub[i] \subseteq sub2[i]
  OBVIOUS
<1>4. \A i \in I : \A q \in sub[i] : q \in fin /\ q \in Point /\ f[q] >= lv[i]
  BY <1>1, <1>2 DEF PointsOK
<1>5. TypesOK(I, S \ {t}, lv, par2, fin, opn)
  BY <1>1 DEF TypesOK
<1>6. PointsOK(I, lv, nm, fin, sub2)
  <2>1. \A i \in I : \A q \in sub2[i] : q \in fin /\ f[q] >= lv[i]
    BY <1>2, <1>4
  <2>2. ASSUME NEW q \in fin, NEW i \in I PROVE nm[q] = i <=> q \in sub2[i] /\ f[q] = lv[i]
    <3>1. nm[q] = i <=> q \in sub[i] /\ f[q] = lv[i]
      BY <1>1 DEF PointsOK
    <3>2. i = b /\ q \in sub[t] => f[q] # lv[i]
      BY <1>2, <1>4
    <3>3. QED
      BY <3>1, <3>2
  <2>3. QED
    BY <1>1, <2>1, <2>2 DEF PointsOK
(* What surrounds the subtree is not above the node it is attached to. *)
<1>7. ASSUME NEW o \in sub[t], NEW r \in Point, <<o, r>> \in Adjacent, r \notin sub[t]
      PROVE  f[r] <= lv[b]
  <2>1. r \in fin \/ r \in opn
    BY <1>2, <1>4, <1>7 DEF Seen
  <2>2. CASE r \in fin
    <3>1. PICK i \in S : r \in sub[i]
      BY <1>1, <2>2 DEF StackOK
    <3>2. i # t /\ i \in I /\ o \notin sub[i] /\ lv[i] <= lv[b] /\ lv[i] # lv[t]
      BY <1>1, <1>2, <1>7, <3>1 DEF StackOK
    <3>3. o \in Point /\ f[o] >= lv[t] /\ <<r, o>> \in Adjacent
      BY <1>2, <1>4, <1>7 DEF SymmetricNbh
    <3>4. ~(f[o] <= lv[i])
      BY <1>2, <3>2, <3>3
    <3>5. ~(f[r] > lv[i])
      BY <1>1, <3>1, <3>2, <3>3, <3>4 DEF StackOK
    <3>6. QED
      BY <1>2, <3>2, <3>5
  <2>3. QED
    BY <2>1, <2>2
<1>8. Linked(sub[t])
  <2> DEFINE A == Reached(S, lv, opn, sub, lv[t])
  <2>1. lv[t] \in Level /\ \E i \in S : lv[t] <= lv[i]
    BY <1>2
  <2>2. Linked(A)
    BY <1>1, <2>1 DEF ReachOK
  <2>3. \A q \in opn : ~(f[q] >= lv[t])
    BY <1>2
  <2>4. \A i \in S : lv[i] >= lv[t] <=> i = t
    BY <1>2
  <2>5. A = sub[t]
    BY <1>2, <1>4, <2>3, <2>4 DEF Reached
  <2>6. QED
    BY <2>2, <2>5
<1>9. ASSUME NEW i \in I, i \notin S \ {t} PROVE ClosedOK(i, I, lv, par2, sub2)
  <2>1. CASE i = t
    <3>1. sub2[t] = sub[t] /\ par2[t] = b /\ sub[t] \subseteq sub2[b]
      BY <1>2
    <3>2. QED
      BY <1>2, <1>7, <1>8, <2>1, <3>1 DEF ClosedOK
  <2>2. CASE i # t
    <3>1. ClosedOK(i, I, lv, par, sub) /\ sub2[i] = sub[i] /\ par2[i] = par[i]
      BY <1>1, <1>9, <2>2
    <3>2. sub[par[i]] \subseteq sub2[par[i]]
      BY <1>3, <3>1 DEF ClosedOK
    <3>3. QED
      BY <3>1, <3>2 DEF ClosedOK
  <2>3. QED
    BY <2>1, <2>2
<1>10. StackOK(S \ {t}, lv, fin, sub2)
  <2>1. \A r \in fin : \E i \in S \ {t} : r \in sub2[i]
    BY <1>1, <1>2, <1>3 DEF StackOK
  <2>2. \A i, j \in S \ {t} : i # j => lv[i] # lv[j] /\ \A r \in sub2[i] : r \notin sub2[j]
    BY <1>1, <1>2 DEF StackOK
  <2>3. ASSUME NEW i \in S \ {t}, NEW o \in sub2[i], NEW r \in Point,
               f[o] > lv[i], <<o, r>> \in Adjacent, r \notin sub2[i]
        PROVE  f[r] <= lv[i]
    <3>1. r \notin sub[i] /\ (i = b => r \notin sub[t])
      BY <1>2, <2>3
    <3>2. CASE o \in sub[i]
      BY <1>1, <2>3, <3>1, <3>2 DEF StackOK
    <3>3. CASE i = b /\ o \in sub[t]
      BY <1>7, <2>3, <3>1, <3>3
    <3>4. QED
      BY <1>2, <2>3, <3>2, <3>3
  <2>4. QED
    BY <2>1, <2>2, <2>3 DEF StackOK
<1>11. ReachOK(S \ {t}, lv, opn, sub2)
  <2> SUFFICES ASSUME NEW m \in Level, \E i \in S \ {t} : m <= lv[i]
               PROVE  Linked(Reached(S \ {t}, lv, opn, sub2, m))
    BY DEF ReachOK
  <2>1. m \in Nat /\ m <= lv[b] /\ m <= lv[t]
    <3>1. m \in Nat
      BY LevelsAreNat
    <3>2. PICK i \in S \ {t} : m <= lv[i]
      OBVIOUS
    <3>3. QED
      BY <1>2, <3>1, <3>2
  <2>2. Reached(S \ {t}, lv, opn, sub2, m) = Reached(S, lv, opn, sub, m)
    BY <1>2, <2>1 DEF Reached
  <2>3. QED
    BY <1>1, <2>2 DEF ReachOK
<1>12. QED
  BY <1>5, <1>6, <1>9, <1>10, <1>11 DEF Growing

-----------------------------------------------------------------------------
(* What IsMaxTree says of the nodes, their parents and the node of each point. *)
IsTree(I, par, nm) ==
    /\ I = {nm[q] : q \in Point}
    /\ \A q, r \in Point : nm[q] = nm[r] <=> f[q] = f[r] /\ r \in PeakOf(q)
    /\ \A q \in Point :
           IF ParentPeak(q) = {} THEN par[nm[q]] = -1
           ELSE \A r \in ParentPeak(q) : par[nm[q]] = nm[r]

ConnectedDomain == Linked(Point)

(* When only one node is left on the stack and nothing waits, the subtrees *)
(* are the peak components.                                                *)
LEMMA TreeIsBuilt ==
    ASSUME ImageOK, SymmetricNbh, ConnectedDomain,
           NEW I, NEW t, NEW lv, NEW par, NEW nm, NEW fin, NEW sub,
           Growing(I, {t}, lv, par, nm, fin, {}, sub), Seen(fin, {}),
           \E q \in sub[t] : f[q] = lv[t],
           NEW par2, \A i \in I : par2[i] = IF i = t THEN -1 ELSE par[i]
    PROVE  IsTree(I, par2, nm)
<1>1. /\ TypesOK(I, {t}, lv, par, fin, {}) /\ PointsOK(I, lv, nm, fin, sub)
      /\ \A i \in I : i # t => ClosedOK(i, I, lv, par, sub)
      /\ StackOK({t}, lv, fin, sub)
  BY DEF Growing
<1>2. /\ t \in I /\ fin \subseteq Point
      /\ \A i \in I : lv[i] \in Nat
      /\ \A q \in Point : f[q] \in Nat
  BY <1>1, LevelsAreNat, LevelsCompare DEF TypesOK
<1>3. fin = Point
  <2>1. \E q \in Point : q \in fin
    BY <1>1, <1>2 DEF PointsOK
  <2>2. NoPairLeaves(fin, Point, Adjacent)
    BY DEF Seen, NoPairLeaves
  <2>3. Point \subseteq fin
    BY <2>1, <2>2 DEF ConnectedDomain, Linked
  <2>4. QED
    BY <1>2, <2>3
<1>4. sub[t] = Point
  BY <1>1, <1>2, <1>3 DEF StackOK, PointsOK
<1>5. /\ \A i \in I : sub[i] \subseteq Point /\ \A q \in sub[i] : f[q] >= lv[i]
      /\ \A q \in Point : nm[q] \in I
      /\ \A q \in Point, i \in I : nm[q] = i <=> q \in sub[i] /\ f[q] = lv[i]
  BY <1>1, <1>3 DEF PointsOK
<1>6. \A i \in I : Linked(sub[i])
  BY <1>1, <1>4 DEF ClosedOK, ConnectedDomain
(* What surrounds a subtree is lower. *)
<1>7. ASSUME NEW i \in I, NEW o \in sub[i], NEW r \in Point, <<o, r>> \in Adjacent, r \notin sub[i]
      PROVE  i # t /\ par[i] \in I /\ f[r] <= lv[par[i]] /\ f[r] < lv[i]
  <2>1. i # t
    BY <1>4, <1>7
  <2>2. par[i] \in I /\ lv[par[i]] < lv[i] /\ f[r] <= lv[par[i]]
    BY <1>1, <1>7, <2>1 DEF ClosedOK
  <2>3. QED
    BY <1>2, <2>1, <2>2
<1>8. ASSUME NEW q \in Point PROVE PeakOf(q) = sub[nm[q]]
  <2> DEFINE X == {r \in Point : f[r] >= f[q]}
             A == sub[nm[q]]
  <2>1. nm[q] \in I /\ q \in A /\ f[q] = lv[nm[q]]
    BY <1>5
  <2>2. A \subseteq X
    BY <1>5, <2>1
  <2>3. NoPairLeaves(A, X, Adjacent)
    <3> SUFFICES ASSUME NEW o \in A, NEW r \in X, <<o, r>> \in Adjacent, r \notin A PROVE FALSE
      BY DEF NoPairLeaves
    <3>1. f[r] < lv[nm[q]]
      BY <1>7, <2>1
    <3>2. QED
      BY <1>2, <2>1, <3>1
  <2>4. IsFiniteSet(X)
    BY DepthFirstAssumption, FS_Subset
  <2>5. Linked(A)
    BY <1>6, <2>1
  <2>6. PeakOf(q) = Component(X, q, Adjacent)
    BY DEF PeakOf
  <2> HIDE DEF X, A
  <2>7. Component(X, q, Adjacent) = A
    BY <2>1, <2>2, <2>3, <2>4, <2>5, LinkedIsComponent
  <2>8. QED
    BY <2>6, <2>7 DEF A
<1>9. I = {nm[q] : q \in Point}
  <2>1. ASSUME NEW i \in I PROVE \E q \in Point : nm[q] = i
    <3>1. \E q \in sub[i] : f[q] = lv[i]
      BY <1>1 DEF ClosedOK
    <3>2. QED
      BY <1>5, <3>1
  <2>2. QED
    BY <1>5, <2>1
<1>10. ASSUME NEW q \in Point, NEW r \in Point
       PROVE  nm[q] = nm[r] <=> f[q] = f[r] /\ r \in PeakOf(q)
  BY <1>5, <1>8
<1>11. ASSUME NEW q \in Point
       PROVE  IF ParentPeak(q) = {} THEN par2[nm[q]] = -1
              ELSE \A r \in ParentPeak(q) : par2[nm[q]] = nm[r]
  <2> DEFINE i == nm[q]
             around == Boundary(Point, sub[i], Adjacent)
  <2>1. i \in I /\ around = {r \in Point : r \notin sub[i] /\ \E o \in sub[i] : <<o, r>> \in Adjacent}
    BY <1>5 DEF Boundary
  <2>2. ParentPeak(q) = {r \in around : \A o \in around : f[o] <= f[r]}
    BY <1>8 DEF ParentPeak
  <2> HIDE DEF i, around
  <2>3. CASE i = t
    <3>1. around = {}
      BY <1>4, <2>1, <2>3
    <3>2. QED
      BY <2>1, <2>2, <2>3, <3>1 DEF i
  <2>4. CASE i # t
    <3> DEFINE j == par[i]
    <3>1. j \in I /\ lv[j] < lv[i] /\ sub[i] \subseteq sub[j] /\ par2[i] = j
      BY <1>1, <2>1, <2>4 DEF ClosedOK
    <3> HIDE DEF j
    <3>2. \A r \in around : r \in Point /\ f[r] <= lv[j]
      BY <1>7, <2>1 DEF j
    (* The subtree of the parent is connected: one of its points is next to that of the node. *)
    <3>3. PICK o \in sub[i], r \in sub[j] : <<o, r>> \in Adjacent /\ r \notin sub[i]
      <4>1. SUFFICES ASSUME NoPairLeaves(sub[i], sub[j], Adjacent) PROVE FALSE
        BY DEF NoPairLeaves
      <4>2. \E x \in sub[j] : x \in sub[i]
        BY <1>5, <3>1 DEF i
      <4>3. sub[j] \subseteq sub[i]
        BY <1>6, <3>1, <4>1, <4>2 DEF Linked
      <4>4. PICK x \in sub[j] : f[x] = lv[j]
        BY <1>1, <3>1 DEF ClosedOK
      <4>5. f[x] >= lv[i]
        BY <1>5, <2>1, <4>3
      <4>6. QED
        BY <1>2, <2>1, <3>1, <4>4, <4>5
    <3>4. r \in around /\ f[r] >= lv[j]
      <4>1. f[r] >= lv[j] /\ r \in Point
        BY <1>5, <3>1, <3>3
      <4>2. QED
        BY <2>1, <3>3, <4>1
    <3>5. r \in ParentPeak(q)
      <4>1. \A w \in around : w \in Point /\ f[w] \in Nat /\ f[w] <= lv[j]
        BY <1>2, <3>2
      <4>2. lv[j] \in Nat /\ f[r] \in Nat
        BY <1>2, <3>1, <3>4, <4>1
      <4>3. \A w \in around : f[w] <= f[r]
        BY <3>4, <4>1, <4>2
      <4>4. QED
        BY <2>2, <3>4, <4>3
    <3>6. ASSUME NEW x \in ParentPeak(q) PROVE nm[x] = j
      <4>1. x \in around /\ x \in Point /\ f[x] = lv[j]
        <5>1. x \in around /\ f[r] <= f[x]
          BY <2>2, <3>4
        <5>2. x \in Point /\ f[x] <= lv[j] /\ r \in Point
          BY <3>2, <3>4, <5>1
        <5>3. f[x] \in Nat /\ f[r] \in Nat /\ lv[j] \in Nat
          BY <1>2, <3>1, <5>2
        <5>4. QED
          BY <3>4, <5>1, <5>2, <5>3
      <4>2. PICK y \in sub[i] : <<y, x>> \in Adjacent
        BY <2>1, <4>1
      <4>3. x \in sub[j]
        <5>1. y \in sub[j]
          BY <3>1
        <5>2. CASE x \notin sub[j]
          BY <1>2, <1>7, <3>1, <4>1, <4>2, <5>1, <5>2
        <5>3. QED
          BY <5>2
      <4>4. QED
        BY <1>5, <3>1, <4>1, <4>3
    <3>7. QED
      BY <3>1, <3>5, <3>6 DEF i
  <2>5. QED
    BY <2>3, <2>4
<1>12. QED
  BY <1>9, <1>10, <1>11 DEF IsTree

-----------------------------------------------------------------------------
(***************************************************************************)
(* The state of the visitor as such a tree.                                *)
(***************************************************************************)
Waiting == {q \in Point : Marked(q) /\ cnt[q] = 0}
Finished == {q \in Point : cnt[q] = 1}
LevelsOf == [i \in NodeIds |-> lvlnodes[i + 1]]
ParentsOf == [i \in NodeIds |-> nodes[i + 1]]
OnStack == {roots[a].id : a \in 1 .. Len(roots)}

IsState(I, S, lv, par, nm, fin, opn) ==
    /\ I = NodeIds /\ S = OnStack /\ lv = LevelsOf /\ par = ParentsOf
    /\ nm = nodemap /\ fin = Finished /\ opn = Waiting

TreeGrows ==
    \E I, S, lv, par, nm, fin, opn, sub :
        IsState(I, S, lv, par, nm, fin, opn) /\ Growing(I, S, lv, par, nm, fin, opn, sub)

TreeIsComplete ==
    \E I, par, nm : I = NodeIds /\ par = ParentsOf /\ nm = nodemap /\ IsTree(I, par, nm)

(* A component is entered at its only point that waits. *)
EntersAlone ==
    pc = "flood" => \A q \in Waiting : q = p \/ (roots # <<>> /\ f[q] <= Last(roots).level)

SeenInv == \A q, r \in Point : cnt[q] = 1 /\ <<q, r>> \in Adjacent => Marked(r)

PeaksInv ==
    /\ SeenInv
    /\ nodemap \in [Point -> Int]
    /\ pc # "end" => ~built /\ TreeGrows /\ EntersAlone
    /\ pc = "end" => TreeIsComplete

(* What is known of every state before. *)
VisitInv == FloodInv /\ StackInv /\ TreeOK /\ NumberInv

LEMMA VisitFacts ==
    ASSUME VisitInv
    PROVE  CanvasInv /\ OnceInv /\ TypeOK /\ PoppedOnce /\ ImageOK
BY DEF VisitInv, FloodInv, OnceInv, CanvasInv, TypeOK, ImageOK

(* These facts are about the image, which does not change. *)
LEMMA ImageStays ==
    ASSUME f' = f
    PROVE  /\ \A I, S, lv, par, nm, fin, opn, sub :
                  Growing(I, S, lv, par, nm, fin, opn, sub)' = Growing(I, S, lv, par, nm, fin, opn, sub)
           /\ \A I, par, nm : IsTree(I, par, nm)' = IsTree(I, par, nm)
<1>1. \A I, lv, nm, fin, sub : PointsOK(I, lv, nm, fin, sub)' = PointsOK(I, lv, nm, fin, sub)
  BY DEF PointsOK
<1>2. \A i, I, lv, par, sub : ClosedOK(i, I, lv, par, sub)' = ClosedOK(i, I, lv, par, sub)
  BY DEF ClosedOK, Linked, NoPairLeaves
<1>3. \A S, lv, fin, sub : StackOK(S, lv, fin, sub)' = StackOK(S, lv, fin, sub)
  BY DEF StackOK
<1>4. \A S, lv, opn, sub : ReachOK(S, lv, opn, sub)' = ReachOK(S, lv, opn, sub)
  <2>1. \A S, lv, opn, sub, m : Reached(S, lv, opn, sub, m)' = Reached(S, lv, opn, sub, m)
    BY DEF Reached
  <2>2. QED
    BY <2>1 DEF ReachOK, Linked, NoPairLeaves
<1>5. \A I, S, lv, par, fin, opn : TypesOK(I, S, lv, par, fin, opn)' = TypesOK(I, S, lv, par, fin, opn)
  BY DEF TypesOK
<1>6. ASSUME NEW I, NEW S, NEW lv, NEW par, NEW nm, NEW fin, NEW opn, NEW sub
      PROVE  Growing(I, S, lv, par, nm, fin, opn, sub)' = Growing(I, S, lv, par, nm, fin, opn, sub)
  BY <1>1, <1>2, <1>3, <1>4, <1>5 DEF Growing
<1>7. \A q : PeakOf(q)' = PeakOf(q)
  BY DEF PeakOf
<1>8. \A q : ParentPeak(q)' = ParentPeak(q)
  BY <1>7 DEF ParentPeak
<1>9. \A I, par, nm : IsTree(I, par, nm)' = IsTree(I, par, nm)
  BY <1>7, <1>8 DEF IsTree
<1>10. QED
  BY <1>6, <1>9

LEMMA TreeGrowsNext ==
    ASSUME f' = f, NEW sub,
           Growing(NodeIds', OnStack', LevelsOf', ParentsOf', nodemap', Finished', Waiting', sub)
    PROVE  TreeGrows'
<1>1. PICK I, S, lv, par, nm, fin, opn :
        /\ I = NodeIds' /\ S = OnStack' /\ lv = LevelsOf' /\ par = ParentsOf'
        /\ nm = nodemap' /\ fin = Finished' /\ opn = Waiting'
  OBVIOUS
<1>2. Growing(I, S, lv, par, nm, fin, opn, sub)
  BY <1>1
<1>3. Growing(I, S, lv, par, nm, fin, opn, sub)'
  BY <1>2, ImageStays
<1>4. IsState(I, S, lv, par, nm, fin, opn)'
  BY <1>1 DEF IsState
<1>5. QED
  BY <1>3, <1>4 DEF TreeGrows

LEMMA TreeIsCompleteNext ==
    ASSUME f' = f, IsTree(NodeIds', ParentsOf', nodemap')
    PROVE  TreeIsComplete'
<1>1. PICK I, par, nm : I = NodeIds' /\ par = ParentsOf' /\ nm = nodemap'
  OBVIOUS
<1>2. IsTree(I, par, nm)
  BY <1>1
<1>3. IsTree(I, par, nm)'
  BY <1>2, ImageStays
<1>4. QED
  BY <1>1, <1>3 DEF TreeIsComplete

LEMMA TreeGrowsNow ==
    ASSUME TreeGrows
    PROVE  \E sub : Growing(NodeIds, OnStack, LevelsOf, ParentsOf, nodemap, Finished, Waiting, sub)
BY DEF TreeGrows, IsState

(* A point that waits is in the queue, not above the current level. *)
WaitingIsQueued == \A q \in Point : Marked(q) /\ cnt[q] = 0 => ~IsEmpty(f[q]) /\ f[q] <= cur

LEMMA QueuedNow == OnceInv => WaitingIsQueued
<1> SUFFICES ASSUME OnceInv, NEW q \in Point, Marked(q), cnt[q] = 0
             PROVE  ~IsEmpty(f[q]) /\ f[q] <= cur
  BY DEF WaitingIsQueued
<1>1. TypeOK /\ QueueOK /\ PushedOnce /\ PoppedOnce
  BY DEF OnceInv, CanvasInv
<1>2. PICK a \in Pushed(f[q]) : slots[f[q]][a] = q
  BY <1>1 DEF PushedOnce
<1>3. f[q] \in Level
  BY <1>1 DEF TypeOK
<1>4. ~(a <= begin[f[q]])
  BY <1>1, <1>2, <1>3 DEF PoppedOnce
<1>5. Len(slots[f[q]]) \in Nat /\ begin[f[q]] \in Nat
  BY <1>1, <1>3, LevelTyped DEF TypeOK
<1>6. begin[f[q]] # Len(slots[f[q]])
  BY <1>4, <1>5 DEF Pushed
<1>7. QED
  BY <1>6, CurrentIsHighest DEF IsEmpty

LEMMA QueuedNext == OnceInv' => WaitingIsQueued'
BY QueuedNow, PTL

-----------------------------------------------------------------------------
(* The stack as a set of nodes. *)
LEMMA StackNodes ==
    ASSUME StackInv, TreeOK, ~built
    PROVE  /\ Len(nodes) \in Nat /\ Len(nodes) \notin NodeIds /\ nodes \in Seq(Int)
           /\ OnStack \subseteq NodeIds
           /\ \A a \in 1 .. Len(roots) : LevelsOf[roots[a].id] = roots[a].level
           /\ \A a, b \in 1 .. Len(roots) : a # b => roots[a].level # roots[b].level /\ roots[a].id # roots[b].id
<1>1. LowerParents(nodes, lvlnodes) /\ EntriesKnow(roots, lvlnodes)
  BY DEF TreeOK
<1>2. Len(nodes) \in Nat /\ nodes \in Seq(Int) /\ Len(nodes) \notin NodeIds
  BY <1>1 DEF LowerParents, NodeIds
<1>3. \A a \in 1 .. Len(roots) : /\ roots[a].id \in NodeIds /\ LevelsOf[roots[a].id] = roots[a].level
                                 /\ roots[a].level \in Nat
  BY <1>1, StackEntries, LevelsAreNat DEF EntriesKnow, LevelsOf
<1>4. \A a, b \in 1 .. Len(roots) : a # b => roots[a].level # roots[b].level
  <2>1. \A a, b \in 1 .. Len(roots) : a < b => roots[a].level < roots[b].level
    BY DEF StackInv, RootsMirrorRecursion
  <2>2. \A a, b \in 1 .. Len(roots) : a # b => a < b \/ b < a
    BY StackEntries
  <2>3. QED
    BY <1>3, <2>1, <2>2
<1>5. QED
  BY <1>2, <1>3, <1>4 DEF OnStack

LEMMA StackTop ==
    ASSUME StackInv, TreeOK, ~built, roots # <<>>
    PROVE  /\ Last(roots).id \in OnStack /\ LevelsOf[Last(roots).id] = Last(roots).level
           /\ \A i \in OnStack : i = Last(roots).id \/ LevelsOf[i] < Last(roots).level
           /\ {Front(roots)[a].id : a \in 1 .. Len(Front(roots))} = OnStack \ {Last(roots).id}
<1>1. roots \in Seq(Entries)
  BY DEF StackInv, StackTyped
<1>2. /\ Len(roots) \in Nat \ {0}
      /\ Len(Front(roots)) = Len(roots) - 1
      /\ \A i \in 1 .. Len(roots) - 1 : Front(roots)[i] = roots[i]
      /\ Last(roots) = roots[Len(roots)]
  BY <1>1, FrontAndLast
<1>3. /\ Len(roots) \in 1 .. Len(roots)
      /\ \A a \in 1 .. Len(roots) : a = Len(roots) \/ (a \in 1 .. Len(roots) - 1 /\ a < Len(roots))
      /\ \A a \in 1 .. Len(roots) - 1 : a \in 1 .. Len(roots) /\ a # Len(roots)
  BY <1>2
<1>4. Last(roots).id \in OnStack /\ LevelsOf[Last(roots).id] = Last(roots).level
  BY <1>2, <1>3, StackNodes DEF OnStack
<1>5. ASSUME NEW i \in OnStack PROVE i = Last(roots).id \/ LevelsOf[i] < Last(roots).level
  <2>1. PICK a \in 1 .. Len(roots) : i = roots[a].id
    BY DEF OnStack
  <2>2. CASE a = Len(roots)
    BY <1>2, <2>1, <2>2
  <2>3. CASE a < Len(roots)
    BY <1>2, <1>3, <2>1, <2>3, StackNodes DEF StackInv, RootsMirrorRecursion
  <2>4. QED
    BY <1>3, <2>2, <2>3
<1>6. {Front(roots)[a].id : a \in 1 .. Len(Front(roots))} = OnStack \ {Last(roots).id}
  <2>1. ASSUME NEW a \in 1 .. Len(roots) - 1 PROVE Front(roots)[a].id \in OnStack \ {Last(roots).id}
    <3>1. a \in 1 .. Len(roots) /\ a # Len(roots) /\ Len(roots) \in 1 .. Len(roots)
      BY <1>3
    <3>2. Front(roots)[a].id = roots[a].id /\ Last(roots).id = roots[Len(roots)].id
      BY <1>2
    <3>3. roots[a].id \in OnStack /\ roots[a].id # roots[Len(roots)].id
      BY <3>1, StackNodes DEF OnStack
    <3>4. QED
      BY <3>2, <3>3
  <2>2. ASSUME NEW i \in OnStack, i # Last(roots).id PROVE \E a \in 1 .. Len(roots) - 1 : i = Front(roots)[a].id
    <3>1. PICK a \in 1 .. Len(roots) : i = roots[a].id
      BY DEF OnStack
    <3>2. a \in 1 .. Len(roots) - 1
      BY <1>2, <1>3, <2>2, <3>1
    <3>3. QED
      BY <1>2, <3>1, <3>2
  <2>3. QED
    BY <1>2, <2>1, <2>2
<1>7. QED
  BY <1>4, <1>5, <1>6

(* A node is created; the node c, if any, is attached to it. *)
LEMMA ArraysGrow ==
    ASSUME nodes \in Seq(Int), lvlnodes \in Seq(Nat), Len(lvlnodes) = Len(nodes),
           NEW moved \in Seq(Int), Len(moved) = Len(nodes), NEW l \in Nat,
           nodes' = Append(moved, -1), lvlnodes' = Append(lvlnodes, l)
    PROVE  /\ NodeIds' = NodeIds \cup {Len(nodes)}
           /\ LevelsOf'[Len(nodes)] = l /\ ParentsOf'[Len(nodes)] = -1
           /\ \A i \in NodeIds : LevelsOf'[i] = LevelsOf[i] /\ ParentsOf'[i] = moved[i + 1]
<1> DEFINE n == Len(nodes)
<1>1. n \in Nat /\ -1 \in Int /\ Len(moved) = n /\ Len(lvlnodes) = n
  OBVIOUS
<1>2. NodeIds = 0 .. n - 1
  BY DEF NodeIds
<1> HIDE DEF n
<1>3. /\ Len(nodes') = n + 1 /\ nodes'[n + 1] = -1
      /\ \A j \in 1 .. n : nodes'[j] = moved[j]
  BY <1>1, AppendProperties
<1>4. /\ Len(lvlnodes') = n + 1 /\ lvlnodes'[n + 1] = l
      /\ \A j \in 1 .. n : lvlnodes'[j] = lvlnodes[j]
  BY <1>1, AppendProperties
<1>5. NodeIds' = 0 .. n
  BY <1>1, <1>3 DEF NodeIds
<1>6. 0 .. n = (0 .. n - 1) \cup {n} /\ n \in 0 .. n
  BY <1>1
<1>7. LevelsOf'[n] = l /\ ParentsOf'[n] = -1
  BY <1>3, <1>4, <1>5, <1>6 DEF LevelsOf, ParentsOf
<1>8. ASSUME NEW i \in NodeIds PROVE LevelsOf'[i] = LevelsOf[i] /\ ParentsOf'[i] = moved[i + 1]
  <2>1. i + 1 \in 1 .. n /\ i \in 0 .. n
    BY <1>1, <1>2
  <2>2. LevelsOf'[i] = lvlnodes'[i + 1] /\ ParentsOf'[i] = nodes'[i + 1] /\ LevelsOf[i] = lvlnodes[i + 1]
    BY <1>5, <2>1 DEF LevelsOf, ParentsOf
  <2>3. QED
    BY <1>3, <1>4, <2>1, <2>2
<1>9. QED
  BY <1>2, <1>5, <1>6, <1>7, <1>8 DEF n

(* The node c is attached to b. *)
LEMMA ParentMoves ==
    ASSUME nodes \in Seq(Int), NEW c \in NodeIds, NEW b \in Int, NEW moved,
           moved = [nodes EXCEPT ![c + 1] = b]
    PROVE  /\ moved \in Seq(Int) /\ Len(moved) = Len(nodes)
           /\ \A i \in NodeIds : moved[i + 1] = IF i = c THEN b ELSE ParentsOf[i]
<1> DEFINE n == Len(nodes)
<1>1. n \in Nat /\ c + 1 \in 1 .. n /\ c \in Int
  BY DEF NodeIds
<1>2. /\ moved \in Seq(Int) /\ Len(moved) = n
      /\ \A j \in 1 .. n : moved[j] = IF j = c + 1 THEN b ELSE nodes[j]
  BY <1>1, ExceptSeq
<1>3. ASSUME NEW i \in NodeIds PROVE moved[i + 1] = IF i = c THEN b ELSE ParentsOf[i]
  <2>1. i + 1 \in 1 .. n /\ (i + 1 = c + 1 <=> i = c)
    BY <1>1 DEF NodeIds
  <2>2. QED
    BY <1>2, <2>1 DEF ParentsOf
<1>4. QED
  BY <1>2, <1>3

(* The stack after an entry is added to it. *)
LEMMA EntryIsPushed ==
    ASSUME NEW E, NEW rest \in Seq(E), NEW e, roots' = Append(rest, e)
    PROVE  OnStack' = {rest[a].id : a \in 1 .. Len(rest)} \cup {e.id}
<1>1. rest \in Seq(E \cup {e}) /\ Len(rest) \in Nat
  OBVIOUS
<1>2. /\ Len(roots') = Len(rest) + 1 /\ roots'[Len(rest) + 1] = e
      /\ \A i \in 1 .. Len(rest) : roots'[i] = rest[i]
  BY <1>1, AppendProperties
<1>3. \A a \in 1 .. Len(rest) + 1 : a \in 1 .. Len(rest) \/ a = Len(rest) + 1
  BY <1>1
<1>4. Len(rest) + 1 \in 1 .. Len(rest) + 1 /\ \A a \in 1 .. Len(rest) : a \in 1 .. Len(rest) + 1
  BY <1>1
<1>5. QED
  BY <1>2, <1>3, <1>4 DEF OnStack

-----------------------------------------------------------------------------
(* The neighbours of the points that are done stay known. *)
LEMMA SeenNext ==
    ASSUME NbhFitsStatus, FloodInv, SeenInv, [Next]_canvasVars
    PROVE  SeenInv'
<1>1. OnceInv /\ TypeOK /\ ScanInv
  BY DEF FloodInv, OnceInv, CanvasInv
<1>2. \A q \in Point : Marked(q) => MarkedAfter(q)
  BY <1>1, MarksStay
<1>3. CASE cnt' = cnt
  BY <1>2, <1>3 DEF SeenInv, Marked, MarkedAfter
<1>4. CASE FinishPoint
  <2>1. cnt \in [Point -> Nat] /\ cnt' = [cnt EXCEPT ![p] = cnt[p] + 1] /\ p \in Point
    BY <1>1, <1>4 DEF TypeOK, FinishPoint
  <2>2. pc = "scan" /\ k > Len(Nbh[p]) /\ k \in Nat
    BY <1>1, <1>4 DEF TypeOK, FinishPoint
  <2>3. ASSUME NEW q \in Point, <<p, q>> \in Adjacent PROVE Marked(q)
    <3>1. PICK a \in DOMAIN Nbh[p] : Nbh[p][a] = q
      BY <2>3 DEF Adjacent
    <3>2. Nbh[p] \in Seq(Point \cup Border)
      BY <2>1, DepthFirstAssumption
    <3>3. a < k
      BY <2>2, <3>1, <3>2
    <3>4. QED
      BY <1>1, <2>2, <3>1, <3>3 DEF ScanInv, NbhMarked
  <2>4. ASSUME NEW q \in Point, NEW r \in Point, cnt'[q] = 1, <<q, r>> \in Adjacent PROVE Marked(r)
    <3>1. CASE q = p
      BY <2>3, <2>4, <3>1
    <3>2. CASE q # p
      BY <2>1, <2>4, <3>2 DEF SeenInv
    <3>3. QED
      BY <3>1, <3>2
  <2>5. QED
    BY <1>2, <2>4 DEF SeenInv, Marked, MarkedAfter
<1>5. QED
  BY <1>3, <1>4 DEF Next, Flood, Skip, Postpone, Climb, DoneSameLevel, DoneOtherLevel, DoneLast, canvasVars

LEMMA SeenNow == OnceInv /\ SeenInv => Seen(Finished, Waiting)
<1> SUFFICES ASSUME OnceInv, SeenInv, NEW q \in Finished, NEW r \in Point, <<q, r>> \in Adjacent
             PROVE  r \in Finished \/ r \in Waiting
  BY DEF Seen
<1>1. Marked(r)
  BY DEF SeenInv, Finished
<1>2. cnt[r] \in {0, 1}
  BY DEF OnceInv, PoppedOnce
<1>3. QED
  BY <1>1, <1>2 DEF Finished, Waiting

LEMMA SeenAfter == OnceInv' /\ SeenInv' => Seen(Finished', Waiting')
<1> SUFFICES ASSUME OnceInv', SeenInv', NEW q \in Finished', NEW r \in Point, <<q, r>> \in Adjacent
             PROVE  r \in Finished' \/ r \in Waiting'
  BY DEF Seen
<1>1. Marked(r)'
  BY DEF SeenInv, Finished
<1>2. cnt'[r] \in {0, 1}
  BY DEF OnceInv, PoppedOnce
<1>3. QED
  BY <1>1, <1>2 DEF Finished, Waiting

-----------------------------------------------------------------------------
LEMMA PeaksInit == MTInit => PeaksInv
<1> SUFFICES ASSUME MTInit PROVE PeaksInv
  OBVIOUS
<1>1. /\ nodes = <<>> /\ lvlnodes = <<>> /\ roots = <<>> /\ built = FALSE
      /\ nodemap = [q \in Point |-> Unset] /\ pc = "flood" /\ p = Start
      /\ cnt = [q \in Point |-> 0]
      /\ status = [q \in Point |-> IF q = Start THEN INQUEUE ELSE NONE]
  BY DEF MTInit, Init
<1>2. SeenInv
  BY <1>1 DEF SeenInv
<1>3. nodemap \in [Point -> Int]
  BY <1>1 DEF Unset
<1>4. NodeIds = {} /\ OnStack = {} /\ Finished = {} /\ Waiting \subseteq {Start} /\ Waiting \subseteq Point
  <2>1. Len(<<>>) = 0 /\ 0 .. 0 - 1 = {} /\ 1 .. 0 = {}
    OBVIOUS
  <2>2. NodeIds = {} /\ OnStack = {}
    BY <1>1, <2>1 DEF NodeIds, OnStack
  <2>3. QED
    BY <1>1, <2>2 DEF Finished, Waiting, Marked
<1>5. EntersAlone
  BY <1>1, <1>4 DEF EntersAlone
<1>6. Growing({}, {}, LevelsOf, ParentsOf, nodemap, {}, Waiting, <<>>)
  BY <1>4 DEF Growing, TypesOK, PointsOK, StackOK, ReachOK
<1>7. TreeGrows
  BY <1>4, <1>6 DEF TreeGrows, IsState
<1>8. QED
  BY <1>1, <1>2, <1>3, <1>5, <1>7 DEF PeaksInv

(* A component is entered. *)
LEMMA PeaksFlood ==
    ASSUME VisitInv, PeaksInv, MTFlood
    PROVE  TreeGrows' /\ EntersAlone' /\ nodemap' \in [Point -> Int] /\ ~built' /\ pc' # "end"
<1> DEFINE e == [id |-> Len(nodes), level |-> level]
           n == Len(nodes)
<1>1. /\ nodes' = Append(nodes, -1) /\ lvlnodes' = Append(lvlnodes, level)
      /\ roots' = Append(roots, e) /\ nodemap' = nodemap /\ built' = built
      /\ pc = "flood" /\ pc' = "scan" /\ f' = f /\ cnt' = cnt /\ status' = status
  BY DEF MTFlood, OnFloodStart, Flood, renumberVars
<1>2. /\ OnceInv /\ TypeOK /\ ImageOK /\ StackInv /\ TreeOK /\ CanvasInv
      /\ ~built /\ TreeGrows /\ EntersAlone /\ nodemap \in [Point -> Int]
  BY <1>1, VisitFacts DEF VisitInv, PeaksInv
<1>3. e.id = n
  OBVIOUS
<1> HIDE DEF e
<1>4. level \in Level /\ level \in Nat
  BY <1>2, LevelIsNat
<1>5. /\ n \in Nat /\ n \notin NodeIds /\ nodes \in Seq(Int) /\ lvlnodes \in Seq(Nat)
      /\ Len(lvlnodes) = n /\ OnStack \subseteq NodeIds
  BY <1>2, StackNodes DEF TreeOK, LowerParents
<1>6. /\ NodeIds' = NodeIds \cup {n}
      /\ LevelsOf'[n] = level
      /\ \A i \in NodeIds : LevelsOf'[i] = LevelsOf[i] /\ ParentsOf'[i] = nodes[i + 1]
  BY <1>1, <1>4, <1>5, ArraysGrow
<1>7. \A i \in NodeIds : ParentsOf'[i] = ParentsOf[i]
  BY <1>6 DEF ParentsOf
<1>8. OnStack' = OnStack \cup {n}
  <2>1. roots \in Seq(Entries)
    BY <1>2 DEF StackInv, StackTyped
  <2>2. OnStack' = {roots[a].id : a \in 1 .. Len(roots)} \cup {e.id}
    BY <1>1, <2>1, EntryIsPushed
  <2>3. QED
    BY <1>3, <2>2 DEF OnStack
<1>9. Finished' = Finished /\ Waiting' = Waiting
  BY <1>1 DEF Finished, Waiting, Marked
<1>10. \A i \in OnStack : LevelsOf[i] # level
  <2> SUFFICES ASSUME NEW i \in OnStack PROVE LevelsOf[i] # level
    OBVIOUS
  <2>1. PICK a \in 1 .. Len(roots) : i = roots[a].id
    BY DEF OnStack
  <2>2. roots[a].level < level /\ roots[a].level \in Nat
    BY <1>1, <1>2, StackLevels, LevelsAreNat DEF StackInv, EntersAbove
  <2>3. QED
    BY <1>2, <1>4, <2>1, <2>2, StackNodes
<1>11. ASSUME NEW m \in Level, m <= level, \A i \in OnStack : ~(m <= LevelsOf[i])
       PROVE  Linked({q \in Point : q \in Waiting /\ f[q] >= m})
  <2>1. p \in Waiting /\ p \in Point /\ f[p] = level
    BY <1>1, <1>2, CurrentIsOpen DEF Waiting, TypeOK
  <2>2. m \in Nat /\ \A q \in Point : f[q] \in Nat
    BY <1>2, LevelsAreNat, LevelsCompare
  <2>3. ASSUME NEW q \in Waiting, f[q] >= m PROVE q = p
    <3>1. SUFFICES ASSUME roots # <<>>, f[q] <= Last(roots).level PROVE FALSE
      BY <1>1, <1>2, <2>3 DEF EntersAlone
    <3>2. Last(roots).id \in OnStack /\ LevelsOf[Last(roots).id] = Last(roots).level
      BY <1>2, <3>1, StackTop
    <3>3. PICK a \in 1 .. Len(roots) : Last(roots).id = roots[a].id
      BY <3>2 DEF OnStack
    <3>4. Last(roots).level \in Nat
      BY <1>2, <3>2, <3>3, StackNodes, StackLevels, LevelsAreNat
    <3>5. f[q] \in Nat
      BY <2>2 DEF Waiting
    <3>6. QED
      BY <1>11, <2>2, <2>3, <3>1, <3>2, <3>4, <3>5
  <2>4. {q \in Point : q \in Waiting /\ f[q] >= m} = {p}
    BY <1>11, <1>4, <2>1, <2>2, <2>3
  <2>5. QED
    BY <2>4, OnePointIsLinked
<1>12. PICK sub : Growing(NodeIds, OnStack, LevelsOf, ParentsOf, nodemap, Finished, Waiting, sub)
  BY <1>2, TreeGrowsNow
<1>13. PICK sub2 : sub2 = [i \in NodeIds \cup {n} |-> IF i = n THEN {} ELSE sub[i]]
  OBVIOUS
<1>14. sub2[n] = {} /\ \A i \in NodeIds : sub2[i] = sub[i]
  BY <1>5, <1>13
<1> HIDE DEF n
<1>15. Growing(NodeIds \cup {n}, OnStack \cup {n}, LevelsOf', ParentsOf', nodemap, Finished, Waiting, sub2)
  <2>1. IsPushed(NodeIds, OnStack, LevelsOf, ParentsOf, Waiting, sub, n, LevelsOf', ParentsOf', sub2)
    BY <1>4, <1>5, <1>6, <1>7, <1>10, <1>11, <1>14 DEF IsPushed
  <2>2. QED
    BY <1>2, <1>12, <2>1, NodeIsPushed
<1>16. TreeGrows'
  BY <1>1, <1>6, <1>8, <1>9, <1>15, TreeGrowsNext
<1>17. EntersAlone'
  BY <1>1 DEF EntersAlone
<1>18. QED
  BY <1>1, <1>2, <1>16, <1>17

(* The neighbours of the current point are scanned. *)
LEMMA NewNeighbour ==
    ASSUME NbhFitsStatus, VisitInv, Postpone \/ Climb
    PROVE  /\ N \in Point /\ <<p, N>> \in Adjacent /\ pc = "scan"
           /\ N \notin Finished /\ p \in Waiting /\ f[p] = level
           /\ Waiting' = Waiting \cup {N} /\ Finished' = Finished /\ f' = f
<1>1. /\ OnceInv /\ TypeOK /\ PoppedOnce /\ pc = "scan" /\ Scanning /\ cnt' = cnt /\ f' = f
      /\ p \in Point /\ k \in Nat \ {0}
  BY VisitFacts DEF Postpone, Climb, Scanning, TypeOK
<1>2. Marked(p) /\ cnt[p] = 0 /\ f[p] = level
  BY <1>1, CurrentIsOpen
<1>3. N \in Point /\ ~Marked(N) /\ \A r \in Point : MarkedAfter(r) <=> Marked(r) \/ r = N
  <2>1. CASE Postpone
    BY <1>1, <2>1, PostponeMarks DEF Marked, MarkedAfter
  <2>2. CASE Climb
    BY <1>1, <1>2, <2>2, ClimbMarks DEF Marked, MarkedAfter
  <2>3. QED
    BY <2>1, <2>2
<1>4. cnt[N] = 0
  BY <1>1, <1>3 DEF PoppedOnce
<1>5. <<p, N>> \in Adjacent
  <2>1. Nbh[p] \in Seq(Point \cup Border)
    BY <1>1, DepthFirstAssumption
  <2>2. k \in DOMAIN Nbh[p]
    BY <1>1, <2>1 DEF Scanning
  <2>3. QED
    BY <1>1, <1>3, <2>2 DEF Adjacent, N
<1> HIDE DEF N
<1>6. Waiting' = Waiting \cup {N} /\ Finished' = Finished
  BY <1>1, <1>3, <1>4 DEF Waiting, Finished, Marked, MarkedAfter
<1>7. QED
  BY <1>1, <1>2, <1>3, <1>4, <1>5, <1>6 DEF Waiting, Finished

LEMMA PeaksScan ==
    ASSUME NbhFitsStatus, SymmetricNbh, VisitInv, PeaksInv, MTScan
    PROVE  TreeGrows' /\ EntersAlone' /\ nodemap' \in [Point -> Int] /\ ~built' /\ pc' # "end"
<1>1. /\ nodes' = nodes /\ lvlnodes' = lvlnodes /\ roots' = roots /\ nodemap' = nodemap /\ built' = built
      /\ pc = "scan" /\ pc' # "end" /\ f' = f
  BY DEF MTScan, treeVars, Skip, Postpone, Climb, Scanning
<1>2. /\ OnceInv /\ TypeOK /\ ImageOK /\ StackInv /\ TreeOK /\ CanvasInv
      /\ ~built /\ TreeGrows /\ EntersAlone /\ nodemap \in [Point -> Int]
  BY <1>1, VisitFacts DEF VisitInv, PeaksInv
<1>3. NodeIds' = NodeIds /\ OnStack' = OnStack /\ LevelsOf' = LevelsOf /\ ParentsOf' = ParentsOf
  BY <1>1 DEF NodeIds, OnStack, LevelsOf, ParentsOf
<1>4. PICK sub : Growing(NodeIds, OnStack, LevelsOf, ParentsOf, nodemap, Finished, Waiting, sub)
  BY <1>2, TreeGrowsNow
<1>5. roots # <<>> /\ Last(roots).level = level /\ level \in Nat
  BY <1>1, <1>2, LevelIsNat DEF StackInv, RootsMirrorRecursion
<1>6. CASE Skip
  <2>1. Finished' = Finished /\ Waiting' = Waiting /\ pc' = "scan"
    BY <1>1, <1>6 DEF Skip, Finished, Waiting, Marked
  <2>2. TreeGrows'
    BY <1>1, <1>3, <1>4, <2>1, TreeGrowsNext
  <2>3. QED
    BY <1>1, <1>2, <2>1, <2>2 DEF EntersAlone
<1>7. CASE Postpone \/ Climb
  <2>1. /\ N \in Point /\ <<p, N>> \in Adjacent /\ p \in Point
        /\ N \notin Finished /\ p \in Waiting /\ f[p] = level
        /\ Waiting' = Waiting \cup {N} /\ Finished' = Finished
    BY <1>2, <1>7, NewNeighbour DEF TypeOK
  <2>2. <<N, p>> \in Adjacent
    BY <2>1 DEF SymmetricNbh
  <2>3. \A i \in OnStack : LevelsOf[i] <= f[p]
    <3>1. \A i \in OnStack : i = Last(roots).id \/ LevelsOf[i] < Last(roots).level
      BY <1>2, <1>5, StackTop
    <3>2. LevelsOf[Last(roots).id] = Last(roots).level
      BY <1>2, <1>5, StackTop
    <3>3. \A i \in OnStack : LevelsOf[i] \in Nat
      BY <1>4, LevelsAreNat DEF Growing, TypesOK
    <3>4. QED
      BY <1>5, <2>1, <3>1, <3>2, <3>3
  <2>4. Growing(NodeIds, OnStack, LevelsOf, ParentsOf, nodemap, Finished, Waiting \cup {N}, sub)
    BY <1>2, <1>4, <2>1, <2>2, <2>3, PointIsFound
  <2>5. TreeGrows'
    BY <1>1, <1>3, <2>1, <2>4, TreeGrowsNext
  <2>6. EntersAlone'
    <3>1. CASE Postpone
      BY <1>1, <3>1 DEF Postpone, EntersAlone
    <3>2. CASE Climb
      <4>1. p' = N /\ cur = level
        BY <1>1, <1>2, <3>2, CurrentIsOpen DEF Climb
      <4>2. \A q \in Waiting : f[q] <= Last(roots).level
        BY <1>2, <1>5, <4>1, CurrentIsHighest DEF Waiting
      <4>3. QED
        BY <1>1, <1>5, <2>1, <4>1, <4>2 DEF EntersAlone
    <3>3. QED
      BY <1>7, <3>1, <3>2
  <2>7. QED
    BY <1>1, <1>2, <2>5, <2>6
<1>8. QED
  BY <1>6, <1>7 DEF MTScan

-----------------------------------------------------------------------------
(* The current point is done: it joins the top of the stack. *)
LEMMA CurrentIsDone ==
    ASSUME VisitInv, PeaksInv, FinishPoint, OnDone(p)
    PROVE  /\ f' = f /\ Waiting' = Waiting \ {p} /\ Finished' = Finished \cup {p}
           /\ nodemap' \in [Point -> Int] /\ roots # <<>> /\ f[p] = level
           /\ LevelsOf[Last(roots).id] = level /\ Last(roots).id \in OnStack
           /\ \E sub : /\ Growing(NodeIds, OnStack, LevelsOf, ParentsOf, nodemap', Finished', Waiting', sub)
                       /\ \E q \in sub[Last(roots).id] : f[q] = level
<1> DEFINE t == Last(roots).id
<1>1. /\ pc = "scan" /\ f' = f /\ status' = status /\ cnt' = [cnt EXCEPT ![p] = cnt[p] + 1]
      /\ nodemap' = [nodemap EXCEPT ![p] = t]
  BY DEF FinishPoint, OnDone
<1>2. /\ OnceInv /\ TypeOK /\ ImageOK /\ StackInv /\ TreeOK /\ CanvasInv /\ PoppedOnce
      /\ ~built /\ TreeGrows /\ nodemap \in [Point -> Int] /\ p \in Point
  BY <1>1, VisitFacts DEF VisitInv, PeaksInv, TypeOK
<1>3. Marked(p) /\ cnt[p] = 0 /\ f[p] = level
  BY <1>1, <1>2, CurrentIsOpen
<1>4. cnt'[p] = 1 /\ \A q \in Point : q # p => cnt'[q] = cnt[q]
  BY <1>1, <1>2, <1>3 DEF TypeOK
<1>5. Waiting' = Waiting \ {p} /\ Finished' = Finished \cup {p} /\ p \in Waiting /\ p \notin Finished
  BY <1>1, <1>2, <1>3, <1>4 DEF Waiting, Finished, Marked
<1>6. roots # <<>> /\ Last(roots).level = level
  BY <1>1, <1>2 DEF StackInv, RootsMirrorRecursion
<1>7. t \in OnStack /\ LevelsOf[t] = level /\ t \in NodeIds /\ t \in Int
  BY <1>2, <1>6, StackTop, StackNodes DEF NodeIds
<1> HIDE DEF t
<1>8. nodemap' \in [Point -> Int] /\ nodemap'[p] = t /\ \A q \in Point : q # p => nodemap'[q] = nodemap[q]
  BY <1>1, <1>2, <1>7
<1>9. PICK sub : Growing(NodeIds, OnStack, LevelsOf, ParentsOf, nodemap, Finished, Waiting, sub)
  BY <1>2, TreeGrowsNow
<1>10. PICK sub2 : sub2 = [i \in NodeIds |-> IF i = t THEN sub[t] \cup {p} ELSE sub[i]]
  OBVIOUS
<1>11. IsDone(NodeIds, OnStack, LevelsOf, nodemap, Finished, Waiting, sub, p, t, nodemap', sub2)
  BY <1>3, <1>5, <1>7, <1>8, <1>10 DEF IsDone, Finished
<1>12. Growing(NodeIds, OnStack, LevelsOf, ParentsOf, nodemap', Finished \cup {p}, Waiting \ {p}, sub2)
  BY <1>2, <1>9, <1>11, PointIsDone
<1>13. p \in sub2[t]
  BY <1>7, <1>10
<1>14. QED
  BY <1>1, <1>3, <1>5, <1>6, <1>7, <1>8, <1>12, <1>13 DEF t

LEMMA PeaksDoneSameLevel ==
    ASSUME VisitInv, PeaksInv, MTDoneSameLevel
    PROVE  TreeGrows' /\ EntersAlone' /\ nodemap' \in [Point -> Int] /\ ~built' /\ pc' # "end"
<1>1. /\ nodes' = nodes /\ lvlnodes' = lvlnodes /\ roots' = roots /\ built' = built
      /\ pc' = "scan" /\ FinishPoint /\ OnDone(p) /\ pc = "scan" /\ ~built
  BY DEF MTDoneSameLevel, DoneSameLevel, renumberVars, FinishPoint, PeaksInv
<1>2. NodeIds' = NodeIds /\ OnStack' = OnStack /\ LevelsOf' = LevelsOf /\ ParentsOf' = ParentsOf
  BY <1>1 DEF NodeIds, OnStack, LevelsOf, ParentsOf
<1>3. f' = f /\ nodemap' \in [Point -> Int]
  BY <1>1, CurrentIsDone
<1>4. PICK sub : Growing(NodeIds, OnStack, LevelsOf, ParentsOf, nodemap', Finished', Waiting', sub)
  BY <1>1, CurrentIsDone
<1>5. TreeGrows'
  BY <1>2, <1>3, <1>4, TreeGrowsNext
<1>6. QED
  BY <1>1, <1>3, <1>5 DEF EntersAlone

(* The component on the top is complete. *)
LEMMA PeaksDoneOtherLevel ==
    ASSUME SymmetricNbh, VisitInv, PeaksInv, MTDoneOtherLevel, OnceInv', SeenInv'
    PROVE  TreeGrows' /\ EntersAlone' /\ nodemap' \in [Point -> Int] /\ ~built' /\ pc' # "end"
<1> DEFINE t == Last(roots).id
           rest == Front(roots)
           n == Len(nodes)
           e == [id |-> n, level |-> level']
<1>1. /\ FinishPoint /\ OnDone(p) /\ OnFloodEnd(level') /\ built' = built
      /\ pc = "scan" /\ pc' = "scan" /\ level' = cur' /\ ~built
  BY DEF MTDoneOtherLevel, DoneOtherLevel, TakeTop, renumberVars, FinishPoint, PeaksInv
<1>2. /\ OnceInv /\ TypeOK /\ ImageOK /\ StackInv /\ TreeOK /\ CanvasInv
  BY VisitFacts DEF VisitInv
<1>3. /\ f' = f /\ Waiting' = Waiting \ {p} /\ Finished' = Finished \cup {p}
      /\ nodemap' \in [Point -> Int] /\ roots # <<>>
      /\ LevelsOf[t] = level /\ t \in OnStack
  BY <1>1, CurrentIsDone
<1>4. PICK sub : /\ Growing(NodeIds, OnStack, LevelsOf, ParentsOf, nodemap', Finished', Waiting', sub)
                 /\ \E q \in sub[t] : f[q] = level
  BY <1>1, CurrentIsDone
<1>5. Seen(Finished', Waiting')
  BY SeenAfter
<1>6. level' < level /\ level' \in Level /\ level' \in Nat /\ level \in Nat
  BY <1>2, ResumedLower, LevelIsNat, LevelsAreNat
<1>7. \A q \in Waiting' : f[q] <= level'
  BY <1>1, <1>3, QueuedNext DEF WaitingIsQueued, Waiting
<1>8. /\ n \in Nat /\ n \notin NodeIds /\ nodes \in Seq(Int) /\ lvlnodes \in Seq(Nat)
      /\ Len(lvlnodes) = n /\ OnStack \subseteq NodeIds /\ t \in NodeIds
      /\ NodeIds \subseteq Int
  <2>1. /\ nodes \in Seq(Int) /\ lvlnodes \in Seq(Nat) /\ Len(lvlnodes) = n
    BY <1>1, <1>2 DEF TreeOK, LowerParents
  <2>2. n \in Nat /\ n \notin NodeIds /\ NodeIds \subseteq Int
    BY <2>1 DEF NodeIds
  <2>3. OnStack \subseteq NodeIds
    BY <1>1, <1>2, StackNodes
  <2>4. QED
    BY <1>3, <2>1, <2>2, <2>3
<1>9. /\ rest \in Seq(Entries)
      /\ {rest[a].id : a \in 1 .. Len(rest)} = OnStack \ {t}
      /\ \A i \in OnStack : i = t \/ LevelsOf[i] < level
  <2>1. roots \in Seq(Entries) /\ Last(roots).level = level
    BY <1>1, <1>2 DEF StackInv, StackTyped, RootsMirrorRecursion
  <2>2. QED
    BY <1>1, <1>2, <1>3, <2>1, StackTop, FrontAndLast
(* The level that is resumed is not below that of the next node of the stack. *)
<1>10. \A i \in OnStack : i = t \/ LevelsOf[i] <= level'
  <2> SUFFICES ASSUME NEW i \in OnStack, i # t PROVE LevelsOf[i] <= level'
    OBVIOUS
  <2>1. PICK a \in 1 .. Len(roots) : i = roots[a].id
    BY DEF OnStack
  <2>2. roots[a].level \in Level /\ ~IsEmpty(roots[a].level) /\ LevelsOf[i] = roots[a].level
    BY <1>1, <1>2, <2>1, StackLevels, StackNodes
  <2>3. roots[a].level # level /\ Pop
    BY <1>1, <1>2, <1>3, <1>9, <2>1, <2>2, LevelsAreNat DEF FinishPoint
  <2>4. roots[a].level <= cur'
    BY <1>1, <1>2, <2>2, <2>3, PopKeepsWaiting
  <2>5. QED
    BY <1>1, <2>2, <2>4
<1>15. e.id = n
  OBVIOUS
<1> HIDE DEF t, rest, n, e
<1>11. ASSUME rest # <<>>, Last(rest).level = level',
              nodes' = [nodes EXCEPT ![t + 1] = Last(rest).id],
              roots' = rest, lvlnodes' = lvlnodes
       PROVE  TreeGrows'
  <2> DEFINE b == Last(rest).id
  <2>1. b \in OnStack /\ b # t /\ LevelsOf[b] = level' /\ b \in NodeIds /\ b \in Int
    <3>1. Last(rest) = rest[Len(rest)] /\ Len(rest) \in 1 .. Len(rest)
      <4>1. rest \in Seq(Entries) /\ rest # <<>>
        BY <1>9, <1>11
      <4>2. Last(rest) = rest[Len(rest)] /\ Len(rest) \in Nat \ {0}
        BY <4>1, FrontAndLast, Zenon
      <4>3. QED
        BY <4>2
    <3>2. b \in OnStack /\ b # t
      BY <1>9, <3>1
    <3>3. PICK a \in 1 .. Len(roots) : Last(rest) = roots[a]
      <4>1. /\ Len(rest) = Len(roots) - 1 /\ Len(roots) \in Nat
            /\ \A i \in 1 .. Len(roots) - 1 : rest[i] = roots[i]
        BY <1>2, <1>3, FrontAndLast DEF rest, StackInv, StackTyped
      <4>2. QED
        BY <3>1, <4>1
    <3>4. LevelsOf[b] = level'
      BY <1>1, <1>2, <1>11, <3>3, StackNodes
    <3>5. b \in NodeIds /\ b \in Int
      BY <1>8, <3>2
    <3>6. QED
      BY <3>2, <3>4, <3>5
  <2> HIDE DEF b
  <2>2. nodes' = [nodes EXCEPT ![t + 1] = b]
    BY <1>11 DEF b
  <2>3. /\ Len(nodes') = Len(nodes)
        /\ \A i \in NodeIds : nodes'[i + 1] = IF i = t THEN b ELSE ParentsOf[i]
    BY <1>8, <2>1, <2>2, ParentMoves
  <2>4. NodeIds' = NodeIds /\ LevelsOf' = LevelsOf
    BY <1>11, <2>3 DEF NodeIds, LevelsOf
  <2>5. OnStack' = OnStack \ {t}
    BY <1>9, <1>11 DEF OnStack
  <2>6. \A i \in NodeIds : ParentsOf'[i] = IF i = t THEN b ELSE ParentsOf[i]
    BY <2>3, <2>4 DEF ParentsOf
  <2>7. PICK sub2 : sub2 = [i \in NodeIds |-> IF i = b THEN sub[b] \cup sub[t] ELSE sub[i]]
    OBVIOUS
  <2>8. IsClosing(NodeIds, OnStack, LevelsOf, ParentsOf, Waiting', sub, t, b, ParentsOf', sub2)
    BY <1>3, <1>4, <1>6, <1>7, <1>10, <2>1, <2>6, <2>7 DEF IsClosing
  <2>9. Growing(NodeIds, OnStack \ {t}, LevelsOf, ParentsOf', nodemap', Finished', Waiting', sub2)
    BY <1>2, <1>4, <1>5, <2>8, NodeIsClosed
  <2>10. QED
    BY <1>3, <2>4, <2>5, <2>9, TreeGrowsNext
<1>12. ASSUME nodes' = Append([nodes EXCEPT ![t + 1] = n], -1),
              roots' = Append(rest, e),
              lvlnodes' = Append(lvlnodes, level'),
              ~(rest # <<>> /\ Last(rest).level = level')
       PROVE  TreeGrows'
  <2>1. PICK moved : moved = [nodes EXCEPT ![t + 1] = n]
    OBVIOUS
  <2>2. /\ moved \in Seq(Int) /\ Len(moved) = Len(nodes)
        /\ \A i \in NodeIds : moved[i + 1] = IF i = t THEN n ELSE ParentsOf[i]
    BY <1>8, <2>1, ParentMoves
  <2>3. /\ NodeIds' = NodeIds \cup {n}
        /\ LevelsOf'[n] = level' /\ ParentsOf'[n] = -1
        /\ \A i \in NodeIds : LevelsOf'[i] = LevelsOf[i] /\ ParentsOf'[i] = moved[i + 1]
    BY <1>6, <1>8, <1>12, <2>1, <2>2, ArraysGrow DEF n
  <2>4. OnStack' = (OnStack \ {t}) \cup {n}
    <3>2. OnStack' = {rest[a].id : a \in 1 .. Len(rest)} \cup {e.id}
      <4>1. rest \in Seq(Entries) /\ roots' = Append(rest, e)
        BY <1>9, <1>12
      <4>2. QED
        BY <4>1, EntryIsPushed
    <3>3. QED
      BY <1>9, <1>15, <3>2
  (* The next node of the stack is lower: its level is not the one that is resumed. *)
  <2>5. \A i \in OnStack : i # t => LevelsOf[i] # level'
    <3> SUFFICES ASSUME NEW i \in OnStack, i # t, LevelsOf[i] = level' PROVE FALSE
      OBVIOUS
    <3>1. PICK a \in 1 .. Len(rest) : i = rest[a].id
      BY <1>9
    <3>2. /\ Len(rest) = Len(roots) - 1 /\ Len(roots) \in Nat /\ rest \in Seq(Entries)
          /\ \A j \in 1 .. Len(roots) - 1 : rest[j] = roots[j]
      <4>1. roots \in Seq(Entries) /\ roots # <<>> /\ rest = Front(roots)
        BY <1>2, <1>3 DEF rest, StackInv, StackTyped
      <4>2. QED
        BY <1>9, <4>1, FrontAndLast
    <3>3. rest # <<>>
      BY <3>1
    <3>4. Last(rest) = rest[Len(rest)]
      BY <3>2, <3>3, FrontAndLast
    <3>5. /\ a \in 1 .. Len(roots) /\ Len(rest) \in 1 .. Len(roots) /\ a <= Len(rest)
          /\ Len(rest) \in 1 .. Len(rest)
          /\ rest[a] = roots[a] /\ rest[Len(rest)] = roots[Len(rest)]
      BY <3>1, <3>2
    <3>6. roots[a].level = level'
      BY <1>1, <1>2, <3>1, <3>5, StackNodes
    <3>7. roots[Len(rest)].level # level'
      BY <1>12, <3>3, <3>4, <3>5
    <3>8. a < Len(rest)
      BY <3>2, <3>5, <3>6, <3>7
    <3>9. roots[a].level < roots[Len(rest)].level
      BY <1>2, <3>5, <3>8 DEF StackInv, RootsMirrorRecursion
    <3>10. roots[Len(rest)].id \in OnStack /\ LevelsOf[roots[Len(rest)].id] = roots[Len(rest)].level
      BY <1>1, <1>2, <3>5, StackNodes DEF OnStack
    <3>11. roots[Len(rest)].id # t
      BY <1>9, <3>5
    <3>12. roots[Len(rest)].level <= level' /\ roots[Len(rest)].level \in Nat
      BY <1>1, <1>2, <1>10, <3>5, <3>10, <3>11, StackLevels, LevelsAreNat
    <3>13. QED
      BY <1>6, <3>6, <3>9, <3>12
  <2>6. PICK par : par = [i \in NodeIds \cup {n} |-> IF i = n THEN -1 ELSE ParentsOf[i]]
    OBVIOUS
  <2>7. PICK sub1 : sub1 = [i \in NodeIds \cup {n} |-> IF i = n THEN {} ELSE sub[i]]
    OBVIOUS
  <2>8. IsPushed(NodeIds, OnStack, LevelsOf, ParentsOf, Waiting', sub, n, LevelsOf', par, sub1)
    <3>1. \A i \in OnStack : LevelsOf[i] # level'
      BY <1>3, <1>6, <2>5
    <3>2. \A m \in Level : m <= level' => m <= LevelsOf[t]
      BY <1>3, <1>6, LevelsAreNat
    <3>3. /\ n \notin NodeIds /\ LevelsOf'[n] \in Level /\ sub1[n] = {}
          /\ \A i \in NodeIds : LevelsOf'[i] = LevelsOf[i] /\ par[i] = ParentsOf[i] /\ sub1[i] = sub[i]
      BY <1>6, <1>8, <2>3, <2>6, <2>7
    <3>4. \A m \in Level : m <= LevelsOf'[n] /\ (\A i \in OnStack : ~(m <= LevelsOf[i])) => FALSE
      BY <1>3, <2>3, <3>2
    <3>5. QED
      BY <2>3, <3>1, <3>3, <3>4 DEF IsPushed
  <2>9. Growing(NodeIds', OnStack \cup {n}, LevelsOf', par, nodemap', Finished', Waiting', sub1)
    BY <1>2, <1>4, <2>3, <2>8, NodeIsPushed
  <2>10. PICK sub2 : sub2 = [i \in NodeIds' |-> IF i = n THEN sub1[n] \cup sub1[t] ELSE sub1[i]]
    OBVIOUS
  <2>11. IsClosing(NodeIds', OnStack \cup {n}, LevelsOf', par, Waiting', sub1, t, n, ParentsOf', sub2)
    <3>1. t \in OnStack \cup {n} /\ n \in OnStack \cup {n} /\ t # n /\ LevelsOf'[n] < LevelsOf'[t]
      BY <1>3, <1>6, <1>8, <2>3
    <3>2. \A i \in OnStack \cup {n} : i = t \/ LevelsOf'[i] <= LevelsOf'[n]
      <4>1. LevelsOf'[n] <= LevelsOf'[n]
        BY <1>6, <2>3
      <4>2. \A i \in OnStack : LevelsOf'[i] = LevelsOf[i]
        BY <1>8, <2>3
      <4>3. QED
        BY <1>10, <2>3, <4>1, <4>2
    <3>3. \A q \in Waiting' : f[q] <= LevelsOf'[n]
      BY <1>7, <2>3
    <3>4. \E q \in sub1[t] : f[q] = LevelsOf'[t]
      BY <1>3, <1>4, <1>8, <2>3, <2>7, <3>1
    <3>5. \A i \in NodeIds' : ParentsOf'[i] = IF i = t THEN n ELSE par[i]
      BY <1>8, <2>2, <2>3, <2>6, <3>1
    <3>6. QED
      BY <2>10, <3>1, <3>2, <3>3, <3>4, <3>5 DEF IsClosing
  <2>12. Growing(NodeIds', (OnStack \cup {n}) \ {t}, LevelsOf', ParentsOf', nodemap', Finished', Waiting', sub2)
    BY <1>2, <1>5, <2>9, <2>11, NodeIsClosed
  <2>13. (OnStack \cup {n}) \ {t} = OnStack'
    BY <1>8, <2>4
  <2>14. QED
    BY <1>3, <2>12, <2>13, TreeGrowsNext
<1>13. TreeGrows'
  BY <1>1, <1>11, <1>12 DEF OnFloodEnd, t, rest, n, e
<1>14. QED
  BY <1>1, <1>3, <1>13 DEF EntersAlone

(* The last component is complete: the tree is. *)
LEMMA PeaksDoneLast ==
    ASSUME SymmetricNbh, ConnectedDomain, VisitInv, PeaksInv, MTDoneLast, OnceInv', SeenInv'
    PROVE  TreeIsComplete' /\ nodemap' \in [Point -> Int] /\ pc' = "end"
<1> DEFINE t == Last(roots).id
<1>1. /\ FinishPoint /\ OnDone(p) /\ pc = "scan" /\ pc' = "end" /\ IsEmpty(cur)' /\ Pop /\ ~built
      /\ nodes' = [nodes EXCEPT ![t + 1] = -1] /\ roots' = Front(roots) /\ lvlnodes' = lvlnodes
  BY DEF MTDoneLast, DoneLast, OnLastFloodEnd, FinishPoint, PeaksInv
<1>2. /\ OnceInv /\ TypeOK /\ ImageOK /\ StackInv /\ TreeOK /\ CanvasInv
  BY VisitFacts DEF VisitInv
<1>3. /\ f' = f /\ Waiting' = Waiting \ {p} /\ Finished' = Finished \cup {p}
      /\ nodemap' \in [Point -> Int] /\ roots # <<>>
      /\ LevelsOf[t] = level /\ t \in OnStack
  BY <1>1, CurrentIsDone
<1>4. PICK sub : /\ Growing(NodeIds, OnStack, LevelsOf, ParentsOf, nodemap', Finished', Waiting', sub)
                 /\ \E q \in sub[t] : f[q] = level
  BY <1>1, CurrentIsDone
<1>5. Waiting' = {}
  <2>1. \A m \in Level : IsEmpty(m)'
    BY <1>1, <1>2, PopKeepsWaiting
  <2>2. \A q \in Waiting' : q \in Point /\ begin'[f'[q]] # Len(slots'[f'[q]])
    BY QueuedNext DEF WaitingIsQueued, Waiting, IsEmpty
  <2>3. \A q \in Point : f'[q] \in Level
    BY <1>2, <1>3, LevelsCompare
  <2>4. QED
    BY <2>1, <2>2, <2>3 DEF IsEmpty
<1>6. OnStack = {t}
  <2>1. roots' = <<>>
    BY <1>1, <1>2, MTDoneLastKeeps DEF StackInv, RootsMirrorRecursion
  <2>2. {Front(roots)[a].id : a \in 1 .. Len(Front(roots))} = OnStack \ {t}
    BY <1>1, <1>2, <1>3, StackTop
  <2>3. Front(roots) = <<>>
    BY <1>1, <2>1
  <2>4. Len(Front(roots)) = 0 /\ 1 .. 0 = {}
    BY <2>3
  <2>5. OnStack \ {t} = {}
    BY <2>2, <2>4
  <2>6. QED
    BY <1>3, <2>5
<1>7. Seen(Finished', Waiting')
  BY SeenAfter
<1>8. nodes \in Seq(Int) /\ t \in NodeIds /\ -1 \in Int
  BY <1>1, <1>2, <1>3, StackNodes
<1> HIDE DEF t
<1>9. /\ Len(nodes') = Len(nodes)
      /\ \A i \in NodeIds : nodes'[i + 1] = IF i = t THEN -1 ELSE ParentsOf[i]
  BY <1>1, <1>8, ParentMoves
<1>10. NodeIds' = NodeIds
  BY <1>9 DEF NodeIds
<1>11. \A i \in NodeIds : ParentsOf'[i] = IF i = t THEN -1 ELSE ParentsOf[i]
  BY <1>9, <1>10 DEF ParentsOf
<1>12. Growing(NodeIds, {t}, LevelsOf, ParentsOf, nodemap', Finished', {}, sub) /\ Seen(Finished', {})
  BY <1>4, <1>5, <1>6, <1>7
<1>13. \E q \in sub[t] : f[q] = LevelsOf[t]
  BY <1>3, <1>4
<1>14. IsTree(NodeIds, ParentsOf', nodemap')
  BY <1>2, <1>11, <1>12, <1>13, TreeIsBuilt
<1>15. QED
  BY <1>1, <1>3, <1>10, <1>14, TreeIsCompleteNext

-----------------------------------------------------------------------------
LEMMA PeaksRenumber ==
    ASSUME PeaksInv, Renumber
    PROVE  TreeIsComplete' /\ nodemap' \in [Point -> Int] /\ pc' = "end"
<1>1. /\ nodes' = nodes /\ nodemap' = nodemap /\ f' = f /\ pc = "end" /\ pc' = "end"
  BY DEF Renumber, canvasVars
<1>2. nodemap \in [Point -> Int] /\ IsTree(NodeIds, ParentsOf, nodemap)
  BY <1>1 DEF PeaksInv, TreeIsComplete
<1>3. NodeIds' = NodeIds /\ ParentsOf' = ParentsOf
  BY <1>1 DEF NodeIds, ParentsOf
<1>4. QED
  BY <1>1, <1>2, <1>3, TreeIsCompleteNext

(* The names of the nodes do not matter. *)
IsRenaming(I, par, nm, pm, par2, nm2) ==
    /\ \A i \in I : pm[i] \in I /\ pm[i] \in Nat /\ i \in Nat
    /\ \A v \in I : \E i \in I : pm[i] = v
    /\ \A i, j \in I : pm[i] = pm[j] => i = j
    /\ \A q \in Point : nm2[q] = pm[nm[q]]
    /\ \A i \in I : par[i] = -1 => par2[pm[i]] = -1
    /\ \A i, j \in I : par[i] = j => par2[pm[i]] = pm[j]

LEMMA TreeIsRenamed ==
    ASSUME NEW I, NEW par, NEW nm, IsTree(I, par, nm),
           NEW pm, NEW par2, NEW nm2, IsRenaming(I, par, nm, pm, par2, nm2)
    PROVE  IsTree(I, par2, nm2)
<1>1. \A q \in Point : nm[q] \in I /\ nm2[q] = pm[nm[q]]
  BY DEF IsTree, IsRenaming
<1>2. I = {nm2[q] : q \in Point}
  <2>1. \A q \in Point : nm2[q] \in I
    BY <1>1 DEF IsRenaming
  <2>2. ASSUME NEW v \in I PROVE \E q \in Point : nm2[q] = v
    <3>1. PICK i \in I : pm[i] = v
      BY DEF IsRenaming
    <3>2. PICK q \in Point : nm[q] = i
      BY DEF IsTree
    <3>3. QED
      BY <1>1, <3>1, <3>2
  <2>3. QED
    BY <2>1, <2>2
<1>3. \A q, r \in Point : nm2[q] = nm2[r] <=> nm[q] = nm[r]
  BY <1>1 DEF IsRenaming
<1>4. \A q, r \in Point : nm2[q] = nm2[r] <=> f[q] = f[r] /\ r \in PeakOf(q)
  BY <1>3 DEF IsTree
<1>5. ASSUME NEW q \in Point
      PROVE  IF ParentPeak(q) = {} THEN par2[nm2[q]] = -1
             ELSE \A r \in ParentPeak(q) : par2[nm2[q]] = nm2[r]
  <2>1. CASE ParentPeak(q) = {}
    BY <1>1, <2>1 DEF IsTree, IsRenaming
  <2>2. CASE ParentPeak(q) # {}
    <3> SUFFICES ASSUME NEW r \in ParentPeak(q) PROVE par2[nm2[q]] = nm2[r]
      BY <2>2
    <3>1. r \in Point
      BY DEF ParentPeak, Boundary
    <3>2. par[nm[q]] = nm[r]
      BY <2>2 DEF IsTree
    <3>3. QED
      BY <1>1, <3>1, <3>2 DEF IsRenaming
  <2>3. QED
    BY <2>1, <2>2
<1>6. QED
  BY <1>2, <1>4, <1>5 DEF IsTree

LEMMA PeaksReorder ==
    ASSUME VisitInv, PeaksInv, Reorder
    PROVE  TreeIsComplete' /\ nodemap' \in [Point -> Int] /\ pc' = "end"
<1> DEFINE n == Len(nodes)
           old(i) == CHOOSE j \in NodeIds : perm[j] = i - 1
           new(j) == IF j < 0 THEN j ELSE perm[j]
<1>1. /\ pc = "end" /\ next = n /\ ~built /\ pc' = pc /\ f' = f
      /\ nodes' = [i \in 1 .. n |-> new(nodes[old(i) + 1])]
      /\ nodemap' = [q \in Point |-> new(nodemap[q])]
  BY DEF Reorder, canvasVars
<1>2. nodemap \in [Point -> Int] /\ IsTree(NodeIds, ParentsOf, nodemap)
  BY <1>1 DEF PeaksInv, TreeIsComplete
<1>3. n \in Nat /\ Numbers(nodes, perm) /\ 0 .. n - 1 \subseteq DOMAIN perm
  BY <1>1 DEF VisitInv, NumberInv, NumberOK, TreeOK, LowerParents
<1>4. /\ NodeIds = 0 .. n - 1
      /\ \A i \in NodeIds : perm[i] \in NodeIds /\ perm[i] \in Nat /\ i \in Nat
      /\ \A v \in NodeIds : \E i \in NodeIds : perm[i] = v
  <2>1. NodeIds = 0 .. n - 1 /\ \A i \in NodeIds : i \in Nat
    BY <1>3 DEF NodeIds
  <2>2. /\ \A j \in 0 .. n - 1 : perm[j] \in 0 .. n - 1
        /\ \A v \in 0 .. n - 1 : \E j \in 0 .. n - 1 : perm[j] = v
        /\ \A j \in 0 .. n - 1 :
               nodes[j + 1] # -1 => nodes[j + 1] \in 0 .. n - 1 /\ perm[nodes[j + 1]] < perm[j]
    BY <1>3, AllAreNumbered, Zenon
  <2>3. QED
    BY <2>1, <2>2
<1>5. \A i, j \in NodeIds : perm[i] = perm[j] => i = j
  <2>1. DOMAIN perm = 0 .. n - 1
    BY <1>3 DEF Numbers
  <2>2. QED
    BY <1>3, <1>4, <2>1 DEF Numbers, IsNumbering
<1>6. \A q \in Point : nodemap[q] \in NodeIds
  BY <1>2 DEF IsTree
<1>7. \A j \in NodeIds : new(j) = perm[j]
  BY <1>4
<1>8. ASSUME NEW i \in NodeIds PROVE nodes'[perm[i] + 1] = new(nodes[i + 1])
  <2>1. PICK v \in 0 .. n - 1 : perm[i] = v
    BY <1>4
  <2> DEFINE o == old(v + 1)
  <2>2. v + 1 \in 1 .. n /\ v + 1 - 1 = v
    BY <1>3
  <2>3. \E j \in NodeIds : perm[j] = v + 1 - 1
    BY <2>1, <2>2
  <2>4. o \in 0 .. n - 1 /\ perm[o] = v
    BY <2>2, <2>3 DEF NodeIds
  <2>5. nodes'[v + 1] = new(nodes[o + 1])
    BY <1>1, <2>2
  <2> HIDE DEF o, n
  <2>6. o = i
    BY <1>4, <1>5, <2>1, <2>4
  <2>7. QED
    BY <2>1, <2>5, <2>6
<1>9. Len(nodes') = n
  <2> DEFINE e(i) == new(nodes[old(i) + 1])
  <2>1. nodes' = [i \in 1 .. n |-> e(i)]
    BY <1>1
  <2> HIDE DEF n, e
  <2>2. QED
    BY <1>3, <2>1
<1> HIDE DEF n, old
<1>10. NodeIds' = NodeIds
  BY <1>4, <1>9 DEF NodeIds
<1>11. \A i \in NodeIds : ParentsOf'[perm[i]] = new(ParentsOf[i])
  BY <1>4, <1>8, <1>10 DEF ParentsOf
<1>12. \A q \in Point : nodemap'[q] = perm[nodemap[q]]
  BY <1>1, <1>6, <1>7
<1>13. nodemap' \in [Point -> Int]
  <2>1. \A q \in Point : perm[nodemap[q]] \in Int
    BY <1>4, <1>6
  <2>2. nodemap' = [q \in Point |-> perm[nodemap[q]]]
    BY <1>1, <1>6, <1>7
  <2>3. QED
    BY <2>1, <2>2
<1>14. IsRenaming(NodeIds, ParentsOf, nodemap, perm, ParentsOf', nodemap')
  <2>1. \A i \in NodeIds : ParentsOf[i] = -1 => ParentsOf'[perm[i]] = -1
    BY <1>11
  <2>2. \A i, j \in NodeIds : ParentsOf[i] = j => ParentsOf'[perm[i]] = perm[j]
    BY <1>7, <1>11
  <2>3. QED
    BY <1>4, <1>5, <1>12, <2>1, <2>2 DEF IsRenaming
<1>15. IsTree(NodeIds, ParentsOf', nodemap')
  BY <1>2, <1>14, TreeIsRenamed
<1>16. QED
  BY <1>1, <1>10, <1>13, <1>15, TreeIsCompleteNext

-----------------------------------------------------------------------------
LEMMA PeaksNext ==
    ASSUME NbhFitsStatus, SymmetricNbh, ConnectedDomain, VisitInv, PeaksInv, VisitInv', MTNext
    PROVE  PeaksInv'
<1>1. OnceInv'
  BY DEF VisitInv, FloodInv
<1>2. SeenInv'
  BY CanvasUnderVisitor, SeenNext DEF VisitInv, PeaksInv
<1>3. CASE MTFlood \/ MTScan \/ MTDoneSameLevel \/ MTDoneOtherLevel
  <2>1. TreeGrows' /\ EntersAlone' /\ nodemap' \in [Point -> Int] /\ ~built' /\ pc' # "end"
    BY <1>1, <1>2, <1>3, PeaksFlood, PeaksScan, PeaksDoneSameLevel, PeaksDoneOtherLevel
  <2>2. QED
    BY <1>2, <2>1 DEF PeaksInv
<1>4. CASE MTDoneLast \/ Renumber \/ Reorder
  <2>1. TreeIsComplete' /\ nodemap' \in [Point -> Int] /\ pc' = "end"
    BY <1>1, <1>2, <1>4, PeaksDoneLast, PeaksRenumber, PeaksReorder
  <2>2. QED
    BY <1>2, <2>1 DEF PeaksInv
<1>5. QED
  BY <1>3, <1>4 DEF MTNext

LEMMA PeaksStutter == PeaksInv /\ UNCHANGED vars => PeaksInv'
<1> SUFFICES ASSUME PeaksInv, UNCHANGED vars PROVE PeaksInv'
  OBVIOUS
<1>1. /\ nodes' = nodes /\ lvlnodes' = lvlnodes /\ roots' = roots /\ nodemap' = nodemap /\ built' = built
      /\ pc' = pc /\ f' = f /\ cnt' = cnt /\ status' = status /\ p' = p
  BY DEF vars, canvasVars, treeVars
<1>2. /\ NodeIds' = NodeIds /\ OnStack' = OnStack /\ LevelsOf' = LevelsOf /\ ParentsOf' = ParentsOf
      /\ Finished' = Finished /\ Waiting' = Waiting
  BY <1>1 DEF NodeIds, OnStack, LevelsOf, ParentsOf, Finished, Waiting, Marked
<1>3. SeenInv'
  BY <1>1 DEF PeaksInv, SeenInv, Marked
<1>4. pc # "end" => TreeGrows'
  <2> SUFFICES ASSUME pc # "end" PROVE TreeGrows'
    OBVIOUS
  <2>1. PICK sub : Growing(NodeIds, OnStack, LevelsOf, ParentsOf, nodemap, Finished, Waiting, sub)
    BY TreeGrowsNow DEF PeaksInv
  <2>2. QED
    BY <1>1, <1>2, <2>1, TreeGrowsNext
<1>5. pc = "end" => TreeIsComplete'
  <2> SUFFICES ASSUME pc = "end" PROVE TreeIsComplete'
    OBVIOUS
  <2>1. IsTree(NodeIds, ParentsOf, nodemap)
    BY DEF PeaksInv, TreeIsComplete
  <2>2. QED
    BY <1>1, <1>2, <2>1, TreeIsCompleteNext
<1>6. EntersAlone => EntersAlone'
  BY <1>1, <1>2 DEF EntersAlone
<1>7. QED
  BY <1>1, <1>3, <1>4, <1>5, <1>6 DEF PeaksInv

(* When the tree is returned it is the max-tree. *)
LEMMA CompleteIsMaxTree == NumberInv /\ PeaksInv => IsMaxTree
<1> SUFFICES ASSUME NumberInv, PeaksInv, built PROVE IsMaxTree
  BY DEF IsMaxTree
<1>1. IsTree(NodeIds, ParentsOf, nodemap)
  BY DEF NumberInv, PeaksInv, TreeIsComplete
<1>2. \A q \in Point : nodemap[q] \in NodeIds
  BY <1>1 DEF IsTree
<1>3. \A q \in Point : ParentsOf[nodemap[q]] = nodes[nodemap[q] + 1]
  BY <1>2 DEF ParentsOf
<1>4. QED
  BY <1>1, <1>3 DEF IsTree, IsMaxTree

LEMMA VisitIsKept == ASSUME NbhFitsStatus PROVE MTSpec => []VisitInv
<1>1. MTInit => FloodInv /\ TreeOK /\ NumberInv
  BY OnceInit, ScanInit, NumberInit DEF FloodInv, MTInit
<1>2. FloodInv /\ [MTNext]_vars => FloodInv'
  <2>1. [MTNext]_vars => [Next]_canvasVars
    BY CanvasUnderVisitor DEF vars
  <2>2. QED
    BY <2>1, OnceNext, ScanNext DEF FloodInv
<1>3. CanvasInv /\ StackInv /\ TreeOK /\ NumberInv /\ [MTNext]_vars => TreeOK' /\ NumberInv'
  BY TreeIsNumbered
<1>4. QED
  BY <1>1, <1>2, <1>3, CanvasAndStack, PTL DEF MTSpec, VisitInv

(***************************************************************************)
(* The tree that maxtree returns is the max-tree of the image: its nodes   *)
(* are the peak components, the node of a point is the component at its    *)
(* level, and the parent of a node is the smallest component that strictly *)
(* contains it.  For every image of a connected domain and every symmetric *)
(* neighbourhood whose ranks fit in the status word.                       *)
(***************************************************************************)
THEOREM ResultIsMaxTree ==
    ASSUME NbhFitsStatus, SymmetricNbh, ConnectedDomain
    PROVE  MTSpec => []IsMaxTree
<1>1. VisitInv /\ PeaksInv /\ VisitInv' /\ [MTNext]_vars => PeaksInv'
  BY PeaksNext, PeaksStutter
<1>2. VisitInv /\ PeaksInv => IsMaxTree
  BY CompleteIsMaxTree DEF VisitInv
<1>3. MTInit => PeaksInv
  BY PeaksInit
<1>4. QED
  BY <1>1, <1>2, <1>3, VisitIsKept, PTL DEF MTSpec
=============================================================================
