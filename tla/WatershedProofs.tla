--------------------------- MODULE WatershedProofs ---------------------------
(***************************************************************************)
(* Proofs about the two watershed floodings, for any domain, neighbourhood *)
(* and set of images, from any markers that agree where they touch; and    *)
(* that the hierarchical queue they flood with keeps the promise they rely *)
(* on, for any set of points, any number of levels and both orders.        *)
(***************************************************************************)
EXTENDS Watershed, HPQueue, DataLemmas, SequenceTheorems

(* The pixels the initial scan has passed. *)
Past(q) == \E j \in DOMAIN Raster : j < i /\ Raster[j] = q

(* What the scan has not passed is as the markers left it, and is not queued. *)
ScanOK ==
    pc = "scan" => \A q \in Point :
        /\ ~Past(q) => output[q] >= 0 /\ q \notin Waiting
        /\ Past(q) /\ waterline => output[q] # 0

(* A pixel that waits is marked and touches a basin or, without waterlines, *)
(* is labelled; the neighbours that are queued are those of a labelled one. *)
QueueMarked ==
    /\ waterline => \A q \in Waiting : output[q] = kInqueue /\ Labels(q) # {}
    /\ ~waterline => \A q \in Waiting : output[q] > 0
    /\ waterline /\ pc # "end" => \A q \in Point : output[q] = kInqueue => q \in Waiting
    /\ pc = "expand" => output[p] > 0

(* A pixel of a line has two basins around it. *)
LinesOK ==
    waterline => \A q \in Point : output[q] = kWaterline =>
        /\ pc \in {"flood", "expand"} => \E a, b \in Labels(q) : a # b
        /\ pc = "end" => \A lbl \in Labels(q) : Labels(q) # {lbl}

(* The basin that touches an unlabelled pixel is that of the pixel whose *)
(* neighbours are being queued, and this one is still to come.           *)
NoneForgotten ==
    waterline => \A q \in Point : output[q] = kUnlabeled =>
        \A r \in Around(q) : output[r] > 0 =>
            pc = "expand" /\ r = p /\ \A a \in DOMAIN Nbh[p] : Nbh[p][a] = q => a >= k

WSInv == /\ WSTypeOK
         /\ WaitsOnce
         /\ Separation
         /\ ScanOK
         /\ QueueMarked
         /\ LinesOK
         /\ NoneForgotten

-----------------------------------------------------------------------------
(* The queue. *)

LEMMA LevelTyped == Level \subseteq Nat /\ \A l, m \in Level : Before(l, m) <=> l < m
BY PriorityFifoAssumption, WatershedAssumption DEF Level, Before

LEMMA WaitingAre ==
    /\ \A q : q \in Waiting <=> q \in Point /\ \E l \in Level : \E a \in DOMAIN queue[l] : queue[l][a] = q
    /\ \A q : q \in Waiting' <=> q \in Point /\ \E l \in Level : \E a \in DOMAIN queue'[l] : queue'[l][a] = q
BY DEF Waiting

(* A pixel that is not waiting joins the list of its level. *)
LEMMA PushWaits ==
    ASSUME queue \in [Level -> Seq(Point)], WaitsOnce, f' = f,
           NEW q \in Point \ Waiting, f[q] \in Level, Push(f[q], q)
    PROVE  /\ queue' \in [Level -> Seq(Point)]
           /\ WaitsOnce'
           /\ \A r : r \in Waiting' <=> r \in Waiting \/ r = q
<1> DEFINE l == f[q]
           n == Len(queue[l]) + 1
<1>1. /\ queue' = [queue EXCEPT ![l] = Append(queue[l], q)]
      /\ queue[l] \in Seq(Point)
  BY DEF Push
<1>2. /\ queue' \in [Level -> Seq(Point)]
      /\ queue'[l] = Append(queue[l], q)
      /\ \A m \in Level : m # l => queue'[m] = queue[m]
  BY <1>1
<1>3. /\ DOMAIN queue[l] = 1 .. n - 1 /\ DOMAIN queue'[l] = 1 .. n /\ n \in Nat
      /\ queue'[l][n] = q
      /\ \A a \in 1 .. n - 1 : queue'[l][a] = queue[l][a]
  BY <1>1, <1>2
<1>4. \A m \in Level : \A a \in DOMAIN queue'[m] :
          \/ m = l /\ a = n /\ queue'[m][a] = q
          \/ a \in DOMAIN queue[m] /\ queue'[m][a] = queue[m][a]
  <2> SUFFICES ASSUME NEW m \in Level, NEW a \in DOMAIN queue'[m]
               PROVE  \/ m = l /\ a = n /\ queue'[m][a] = q
                      \/ a \in DOMAIN queue[m] /\ queue'[m][a] = queue[m][a]
    OBVIOUS
  <2>1. CASE m = l
    <3> HIDE DEF l, n
    <3>1. a = n \/ a \in 1 .. n - 1
      BY <1>3, <2>1
    <3>2. QED
      BY <1>3, <2>1, <3>1
  <2>2. CASE m # l
    BY <1>2, <2>2
  <2>3. QED
    BY <2>1, <2>2
<1>5. \A m \in Level : \A a \in DOMAIN queue[m] : a \in DOMAIN queue'[m] /\ queue'[m][a] = queue[m][a]
  <2> SUFFICES ASSUME NEW m \in Level, NEW a \in DOMAIN queue[m]
               PROVE  a \in DOMAIN queue'[m] /\ queue'[m][a] = queue[m][a]
    OBVIOUS
  <2>1. CASE m = l
    <3> HIDE DEF l, n
    <3>1. QED
      BY <1>3, <2>1
  <2>2. CASE m # l
    BY <1>2, <2>2
  <2>3. QED
    BY <2>1, <2>2
<1>6. \A m \in Level : \A a \in DOMAIN queue[m] : queue[m][a] # q
  BY WaitingAre
<1>7. \A r : r \in Waiting' <=> r \in Waiting \/ r = q
  <2>1. \A r : r \in Waiting' => r \in Waiting \/ r = q
    BY <1>4, WaitingAre
  <2>2. \A r : r \in Waiting => r \in Waiting'
    BY <1>5, WaitingAre
  <2>3. q \in Waiting'
    BY <1>3, WaitingAre
  <2>4. QED
    BY <2>1, <2>2, <2>3
<1>8. WaitsOnce'
  <2> SUFFICES ASSUME NEW m \in Level, NEW o \in Level,
                      NEW a \in DOMAIN queue'[m], NEW b \in DOMAIN queue'[o]
               PROVE  /\ f'[queue'[m][a]] = m
                      /\ queue'[m][a] = queue'[o][b] => m = o /\ a = b
    BY DEF WaitsOnce
  <2>1. \/ m = l /\ a = n /\ queue'[m][a] = q
        \/ a \in DOMAIN queue[m] /\ queue'[m][a] = queue[m][a]
    BY <1>4
  <2>2. \/ o = l /\ b = n /\ queue'[o][b] = q
        \/ b \in DOMAIN queue[o] /\ queue'[o][b] = queue[o][b]
    BY <1>4
  <2>3. QED
    BY <1>6, <2>1, <2>2 DEF WaitsOnce
<1>9. QED
  BY <1>2, <1>7, <1>8

(* The top of the queue leaves it. *)
LEMMA TopLeaves ==
    ASSUME queue \in [Level -> Seq(Point)], WaitsOnce, TakeTop
    PROVE  /\ queue' \in [Level -> Seq(Point)]
           /\ level' \in Level
           /\ p' \in Waiting
           /\ WaitsOnce'
           /\ \A r : r \in Waiting' <=> r \in Waiting /\ r # p'
<1>1. PICK l \in Level : IsTopLevel(l) /\ level' = l /\ p' = queue[l][1]
  BY DEF TakeTop
<1>2. PICK m \in Level : IsTopLevel(m) /\ queue' = [queue EXCEPT ![m] = Tail(queue[m])]
  BY DEF TakeTop, Pop
<1>3. l = m
  <2>1. queue[l] # <<>> /\ queue[m] # <<>>
    BY <1>1, <1>2 DEF IsTopLevel
  <2>2. (l = m \/ m < l) /\ (l = m \/ l < m)
    BY <1>1, <1>2, <2>1, LevelTyped DEF IsTopLevel
  <2>3. QED
    BY <2>2, LevelTyped
<1>4. queue[l] \in Seq(Point) /\ queue[l] # <<>>
  BY <1>1 DEF IsTopLevel
<1>5. /\ queue' \in [Level -> Seq(Point)]
      /\ queue'[l] = Tail(queue[l])
      /\ \A o \in Level : o # l => queue'[o] = queue[o]
  BY <1>2, <1>3, <1>4
<1> DEFINE n == Len(queue[l])
<1>6. /\ n \in Nat \ {0} /\ DOMAIN queue[l] = 1 .. n /\ DOMAIN queue'[l] = 1 .. n - 1
      /\ \A a \in 1 .. n - 1 : queue'[l][a] = queue[l][a + 1]
  BY <1>4, <1>5
<1>7. p' \in Waiting
  <2>1. p' \in Point /\ 1 \in DOMAIN queue[l]
    BY <1>1, <1>4, <1>6
  <2>2. QED
    BY <1>1, <2>1, WaitingAre
<1>8. \A o \in Level : \A a \in DOMAIN queue'[o] :
          IF o = l THEN a + 1 \in DOMAIN queue[l] /\ a \in Nat \ {0} /\ queue'[o][a] = queue[l][a + 1]
                   ELSE a \in DOMAIN queue[o] /\ queue'[o][a] = queue[o][a]
  <2> SUFFICES ASSUME NEW o \in Level, NEW a \in DOMAIN queue'[o]
               PROVE  IF o = l THEN /\ a + 1 \in DOMAIN queue[l] /\ a \in Nat \ {0}
                                    /\ queue'[o][a] = queue[l][a + 1]
                               ELSE a \in DOMAIN queue[o] /\ queue'[o][a] = queue[o][a]
    OBVIOUS
  <2>1. CASE o = l
    <3> HIDE DEF n
    <3>1. a \in 1 .. n - 1
      BY <1>6, <2>1
    <3>2. a + 1 \in 1 .. n /\ a \in Nat \ {0}
      BY <1>6, <3>1
    <3>3. QED
      BY <1>6, <2>1, <3>1, <3>2
  <2>2. CASE o # l
    BY <1>5, <2>2
  <2>3. QED
    BY <2>1, <2>2
<1>9. WaitsOnce'
  <2> SUFFICES ASSUME NEW m1 \in Level, NEW o \in Level,
                      NEW a \in DOMAIN queue'[m1], NEW b \in DOMAIN queue'[o]
               PROVE  /\ f'[queue'[m1][a]] = m1
                      /\ queue'[m1][a] = queue'[o][b] => m1 = o /\ a = b
    BY DEF WaitsOnce
  <2>1. f' = f
    BY DEF TakeTop
  <2>2. PICK a1 \in DOMAIN queue[m1] : /\ queue'[m1][a] = queue[m1][a1]
                                       /\ IF m1 = l THEN a \in Nat /\ a1 = a + 1 ELSE a1 = a
    BY <1>8
  <2>3. PICK b1 \in DOMAIN queue[o] : /\ queue'[o][b] = queue[o][b1]
                                      /\ IF o = l THEN b \in Nat /\ b1 = b + 1 ELSE b1 = b
    BY <1>8
  <2>4. /\ f[queue[m1][a1]] = m1
        /\ queue[m1][a1] = queue[o][b1] => m1 = o /\ a1 = b1
    BY DEF WaitsOnce
  <2>5. QED
    BY <2>1, <2>2, <2>3, <2>4
<1>10. \A r : r \in Waiting' <=> r \in Waiting /\ r # p'
  <2>1. ASSUME NEW r, r \in Waiting' PROVE r \in Waiting /\ r # p'
    <3>1. PICK o \in Level : \E a \in DOMAIN queue'[o] : queue'[o][a] = r
      BY <2>1, WaitingAre
    <3>2. PICK a \in DOMAIN queue'[o] : queue'[o][a] = r
      BY <3>1
    <3>3. PICK a1 \in DOMAIN queue[o] : /\ r = queue[o][a1]
                                        /\ o = l => a \in Nat \ {0} /\ a1 = a + 1
      BY <1>8, <3>2
    <3>4. ~(o = l /\ a1 = 1)
      BY <3>3
    <3>5. 1 \in DOMAIN queue[l]
      BY <1>6
    <3>6. r # queue[l][1]
      BY <3>3, <3>4, <3>5 DEF WaitsOnce
    <3>7. QED
      BY <1>1, <2>1, <3>3, <3>6, WaitingAre
  <2>2. ASSUME NEW r, r \in Waiting, r # p' PROVE r \in Waiting'
    <3>1. PICK o \in Level : \E a \in DOMAIN queue[o] : queue[o][a] = r
      BY <2>2, WaitingAre
    <3>2. PICK a \in DOMAIN queue[o] : queue[o][a] = r
      BY <3>1
    <3>3. CASE o # l
      BY <1>5, <2>2, <3>2, <3>3, WaitingAre
    <3>4. CASE o = l
      <4>1. a \in 1 .. n /\ a # 1
        BY <1>1, <1>6, <2>2, <3>2, <3>4
      <4>2. a - 1 \in 1 .. n - 1 /\ (a - 1) + 1 = a
        BY <1>6, <4>1
      <4>3. queue'[l][a - 1] = r
        BY <1>6, <3>2, <3>4, <4>2
      <4>4. QED
        BY <1>6, <2>2, <4>2, <4>3, WaitingAre
    <3>5. QED
      BY <3>3, <3>4
  <2>3. QED
    BY <2>1, <2>2
<1>11. QED
  BY <1>1, <1>5, <1>7, <1>9, <1>10

-----------------------------------------------------------------------------
(* The basins around a pixel. *)

LEMMA AroundIsSymmetric ==
    /\ \A q \in Point : \A r \in Around(q) : r \in Point /\ r # q /\ q \in Around(r)
    /\ \A q \in Point : \A r \in Around(q) : \E a \in DOMAIN Nbh[q] : Nbh[q][a] = r
    /\ \A q, r \in Point : (\E a \in DOMAIN Nbh[q] : Nbh[q][a] = r) => r \in Around(q)
<1>1. \A q, r \in Point : r \in Around(q) <=> <<q, r>> \in Adjacent
  BY DEF Around
<1>2. \A q, r \in Point : <<q, r>> \in Adjacent <=> \E a \in DOMAIN Nbh[q] : Nbh[q][a] = r
  BY DEF Adjacent
<1>3. \A q, r \in Point : <<q, r>> \in Adjacent => q # r /\ <<r, q>> \in Adjacent
  BY WatershedAssumption
<1>4. \A q : Around(q) \subseteq Point
  BY DEF Around
<1>5. QED
  BY <1>1, <1>2, <1>3, <1>4

LEMMA LabelsAre ==
    /\ \A q, v : v \in Labels(q) <=> \E r \in Around(q) : output[r] > 0 /\ v = output[r]
    /\ \A q, v : v \in Labels(q)' <=> \E r \in Around(q) : output'[r] > 0 /\ v = output'[r]
BY DEF Labels

(* Labels that are never taken back are still there after a step. *)
LEMMA LabelsStay ==
    ASSUME \A r \in Point : output[r] > 0 => output'[r] = output[r]
    PROVE  \A q \in Point : \A v \in Labels(q) : v \in Labels(q)'
BY LabelsAre, AroundIsSymmetric

LEMMA LabelsSame ==
    ASSUME \A r \in Point : output[r] > 0 \/ output'[r] > 0 => output'[r] = output[r]
    PROVE  \A q \in Point : Labels(q)' = Labels(q)
<1>1. \A q \in Point : \A v : v \in Labels(q)' <=> v \in Labels(q)
  BY LabelsAre, AroundIsSymmetric
<1>2. QED
  BY <1>1

(* Without new labels the basins are as separate as they were. *)
LEMMA SeparationStays ==
    ASSUME Separation, waterline' = waterline,
           \A r \in Point : output[r] > 0 \/ output'[r] > 0 => output'[r] = output[r]
    PROVE  Separation'
<1>1. \A e \in Adjacent : e[1] \in Point /\ e[2] \in Point
  BY DEF Adjacent
<1>2. QED
  BY <1>1 DEF Separation

-----------------------------------------------------------------------------
LEMMA WSInitOK == WSInit => WSInv
<1> SUFFICES ASSUME WSInit PROVE WSInv
  OBVIOUS
<1>1. /\ queue = [l \in Level |-> <<>>]
      /\ f \in Images /\ waterline \in BOOLEAN /\ output \in Markers(f, waterline)
      /\ pc = "scan" /\ i = 1 /\ level = 0 /\ p \in Point /\ k = 1
  BY DEF WSInit, Init
<1>2. /\ output \in [Point -> Nat]
      /\ \A e \in Adjacent : output[e[1]] > 0 /\ output[e[2]] > 0 => output[e[1]] = output[e[2]]
  BY <1>1, MarkersAssumption
<1>3. 0 \in Level
  BY PriorityFifoAssumption DEF Level
<1>4. \A l \in Level : queue[l] = <<>> /\ DOMAIN queue[l] = {}
  BY <1>1
<1>5. Waiting = {}
  BY <1>4 DEF Waiting
<1>6. WSTypeOK
  <2>1. \A q \in Point : output[q] >= kUnlabeled
    BY <1>2 DEF kUnlabeled
  <2>2. output \in [Point -> Int]
    BY <1>2
  <2>3. queue \in [Level -> Seq(Point)]
    BY <1>1
  <2>4. f \in [Point -> Level]
    BY <1>1, MarkersAssumption
  <2>5. QED
    BY <1>1, <1>3, <2>1, <2>2, <2>3, <2>4 DEF WSTypeOK
<1>7. WaitsOnce
  BY <1>4 DEF WaitsOnce
<1>8. Separation
  BY <1>2 DEF Separation
<1>9. ScanOK
  <2>1. \A j \in DOMAIN Raster : ~(j < 1)
    BY WatershedAssumption
  <2>2. \A q : ~Past(q)
    BY <1>1, <2>1 DEF Past
  <2>3. QED
    BY <1>2, <1>5, <2>2 DEF ScanOK
<1>10. QueueMarked
  BY <1>1, <1>2, <1>5 DEF QueueMarked, kInqueue
<1>11. LinesOK
  BY <1>1 DEF LinesOK
<1>12. NoneForgotten
  BY <1>2 DEF NoneForgotten, kUnlabeled
<1>13. QED
  BY <1>6, <1>7, <1>8, <1>9, <1>10, <1>11, <1>12 DEF WSInv

-----------------------------------------------------------------------------
(* The initial scan. *)

(* The pixel it considers was not passed before; it is when the scan moves on. *)
LEMMA PastMoves ==
    ASSUME WSTypeOK, i <= Len(Raster), i' = i + 1
    PROVE  /\ Scanned \in Point
           /\ ~Past(Scanned)
           /\ \A q : Past(q)' <=> Past(q) \/ q = Scanned
<1>1. /\ Raster \in Seq(Point) /\ DOMAIN Raster = 1 .. Len(Raster) /\ Len(Raster) \in Nat
      /\ i \in Nat \ {0}
  BY WatershedAssumption DEF WSTypeOK
<1>2. i \in DOMAIN Raster
  BY <1>1
<1>3. Scanned \in Point
  BY <1>1, <1>2 DEF Scanned
<1>4. ~Past(Scanned)
  BY <1>1, <1>2, WatershedAssumption DEF Past, Scanned
<1>5. \A q : Past(q)' <=> \E j \in DOMAIN Raster : j < i + 1 /\ Raster[j] = q
  BY DEF Past
<1>6. \A j \in DOMAIN Raster : j < i + 1 <=> j < i \/ j = i
  BY <1>1
<1>7. \A q : Past(q)' <=> Past(q) \/ q = Scanned
  BY <1>2, <1>5, <1>6 DEF Past, Scanned
<1>8. QED
  BY <1>3, <1>4, <1>7

(* A pixel that the scan passes keeps its marker, or takes one of the two *)
(* marks; it is queued or not.                                            *)
LEMMA ScanKeeps ==
    ASSUME WSInv, NextPixel, output' \in [Point -> Int],
           \A q \in Point \ {Scanned} : output'[q] = output[q],
           \/ /\ output'[Scanned] = output[Scanned]
              /\ waterline => output[Scanned] # 0
              /\ UNCHANGED queue
           \/ /\ waterline /\ output[Scanned] = 0 /\ Labels(Scanned) # {}
              /\ output'[Scanned] = kInqueue
              /\ Push(f[Scanned], Scanned)
           \/ /\ waterline /\ output[Scanned] = 0 /\ Labels(Scanned) = {}
              /\ output'[Scanned] = kUnlabeled
              /\ UNCHANGED queue
           \/ /\ ~waterline /\ output[Scanned] > 0
              /\ output'[Scanned] = output[Scanned]
              /\ Push(f[Scanned], Scanned)
    PROVE  WSInv'
<1> DEFINE s == Scanned
<1>1. /\ pc = "scan" /\ pc' = "scan" /\ i <= Len(Raster) /\ i' = i + 1
      /\ f' = f /\ waterline' = waterline /\ level' = level /\ p' = p /\ k' = k
  BY DEF NextPixel
<1>2. /\ WSTypeOK /\ WaitsOnce /\ Separation /\ ScanOK /\ QueueMarked /\ LinesOK /\ NoneForgotten
  BY DEF WSInv
<1>3. s \in Point /\ ~Past(s) /\ \A q : Past(q)' <=> Past(q) \/ q = s
  BY <1>1, <1>2, PastMoves
<1>4. output[s] >= 0 /\ s \notin Waiting /\ output[s] \in Int /\ f[s] \in Level
  BY <1>1, <1>2, <1>3 DEF ScanOK, WSTypeOK
<1>5. /\ queue' \in [Level -> Seq(Point)] /\ WaitsOnce'
      /\ UNCHANGED queue => \A r : r \in Waiting' <=> r \in Waiting
      /\ Push(f[s], s) => \A r : r \in Waiting' <=> r \in Waiting \/ r = s
  <2>1. queue \in [Level -> Seq(Point)] /\ f' = f
    BY <1>1, <1>2 DEF WSTypeOK
  <2>2. ASSUME UNCHANGED queue
        PROVE  /\ queue' \in [Level -> Seq(Point)] /\ WaitsOnce'
               /\ \A r : r \in Waiting' <=> r \in Waiting
    BY <1>2, <2>1, <2>2 DEF WaitsOnce, Waiting
  <2>3. ASSUME Push(f[s], s)
        PROVE  /\ queue' \in [Level -> Seq(Point)] /\ WaitsOnce'
               /\ \A r : r \in Waiting' <=> r \in Waiting \/ r = s
    BY <1>2, <1>3, <1>4, <2>1, <2>3, PushWaits
  <2>4. QED
    BY <2>2, <2>3
<1>6. \A r \in Point : output[r] > 0 \/ output'[r] > 0 => output'[r] = output[r]
  BY <1>3, <1>4 DEF kInqueue, kUnlabeled
<1>7. \A q \in Point : Labels(q)' = Labels(q)
  BY <1>6, LabelsSame
<1>8. WSTypeOK'
  <2>1. \A q \in Point : output'[q] >= kUnlabeled
    <3> SUFFICES ASSUME NEW q \in Point PROVE output'[q] >= kUnlabeled
      OBVIOUS
    <3>1. CASE q = s
      BY <1>4, <3>1 DEF kInqueue, kUnlabeled
    <3>2. CASE q # s
      BY <1>2, <3>2 DEF WSTypeOK
    <3>3. QED
      BY <3>1, <3>2
  <2>2. i' \in Nat \ {0}
    BY <1>1, <1>2 DEF WSTypeOK
  <2>3. QED
    BY <1>1, <1>2, <1>5, <2>1, <2>2 DEF WSTypeOK
<1>9. Separation'
  BY <1>1, <1>2, <1>6, SeparationStays
<1>10. ScanOK'
  <2> SUFFICES ASSUME NEW q \in Point
               PROVE  /\ ~Past(q)' => output'[q] >= 0 /\ q \notin Waiting'
                      /\ Past(q)' /\ waterline => output'[q] # 0
    BY <1>1 DEF ScanOK
  <2>1. CASE q = s
    BY <1>3, <1>4, <2>1 DEF kInqueue, kUnlabeled
  <2>2. CASE q # s
    BY <1>1, <1>2, <1>3, <1>5, <2>2 DEF ScanOK
  <2>3. QED
    BY <2>1, <2>2
<1>11. QueueMarked'
  <2>1. waterline => \A q \in Waiting' : output'[q] = kInqueue /\ Labels(q)' # {}
    <3> SUFFICES ASSUME waterline, NEW q \in Waiting'
                 PROVE  output'[q] = kInqueue /\ Labels(q) # {} /\ q \in Point
      BY <1>7
    <3>1. q \in Point
      BY WaitingAre
    <3>2. CASE q = s
      BY <1>3, <1>4, <1>5, <3>2 DEF kInqueue, kUnlabeled
    <3>3. CASE q # s
      BY <1>2, <1>5, <3>1, <3>3 DEF QueueMarked
    <3>4. QED
      BY <3>1, <3>2, <3>3
  <2>2. ~waterline => \A q \in Waiting' : output'[q] > 0
    <3> SUFFICES ASSUME ~waterline, NEW q \in Waiting'
                 PROVE  output'[q] > 0
      OBVIOUS
    <3>1. q \in Point
      BY WaitingAre
    <3>2. CASE q = s
      BY <1>3, <1>4, <1>5, <3>2
    <3>3. CASE q # s
      BY <1>2, <1>5, <3>1, <3>3 DEF QueueMarked
    <3>4. QED
      BY <3>2, <3>3
  <2>3. waterline => \A q \in Point : output'[q] = kInqueue => q \in Waiting'
    <3> SUFFICES ASSUME waterline, NEW q \in Point, output'[q] = kInqueue
                 PROVE  q \in Waiting'
      OBVIOUS
    <3>1. CASE q = s
      <4>1. Push(f[s], s)
        BY <1>4, <3>1 DEF kInqueue, kUnlabeled
      <4>2. QED
        BY <1>5, <3>1, <4>1
    <3>2. CASE q # s
      BY <1>1, <1>2, <1>5, <3>2 DEF QueueMarked
    <3>3. QED
      BY <3>1, <3>2
  <2>4. QED
    BY <1>1, <2>1, <2>2, <2>3 DEF QueueMarked
<1>12. LinesOK'
  BY <1>1 DEF LinesOK
<1>13. NoneForgotten'
  <2> SUFFICES ASSUME waterline, NEW q \in Point, output'[q] = kUnlabeled,
                      NEW r \in Around(q), output'[r] > 0
               PROVE  FALSE
    BY <1>1 DEF NoneForgotten
  <2>1. r \in Point /\ output[r] > 0
    BY <1>6, AroundIsSymmetric
  <2>2. output[r] \in Labels(q)
    BY <2>1, LabelsAre
  <2>3. CASE q = s
    BY <1>4, <2>2, <2>3 DEF kInqueue, kUnlabeled
  <2>4. CASE q # s
    BY <1>1, <1>2, <2>1, <2>4 DEF NoneForgotten
  <2>5. QED
    BY <2>3, <2>4
<1>14. QED
  BY <1>5, <1>8, <1>9, <1>10, <1>11, <1>12, <1>13 DEF WSInv

LEMMA EndScanKeeps ==
    ASSUME WSInv, EndScan
    PROVE  WSInv'
<1>1. /\ pc = "scan" /\ pc' = "flood" /\ i > Len(Raster)
      /\ UNCHANGED <<queue, f, waterline, output, i, level, p, k>>
  BY DEF EndScan
<1>2. \A q \in Point : Past(q)
  <2>1. Raster \in Seq(Point) /\ i \in Nat
    BY WatershedAssumption DEF WSInv, WSTypeOK
  <2>2. \A j \in DOMAIN Raster : j < i
    BY <1>1, <2>1
  <2>3. QED
    BY <2>2, WatershedAssumption DEF Past
<1>3. WSTypeOK' /\ WaitsOnce' /\ Separation'
  BY <1>1 DEF WSInv, WSTypeOK, WaitsOnce, Separation
<1>4. ScanOK'
  BY <1>1 DEF ScanOK
<1>5. QueueMarked'
  <2>1. \A q \in Point : Labels(q)' = Labels(q)
    BY <1>1, LabelsSame
  <2>2. Waiting' = Waiting /\ Waiting \subseteq Point
    BY <1>1 DEF Waiting
  <2>3. QED
    BY <1>1, <2>1, <2>2 DEF WSInv, QueueMarked
<1>6. LinesOK'
  BY <1>1, <1>2 DEF WSInv, ScanOK, LinesOK, kWaterline
<1>7. NoneForgotten'
  BY <1>1 DEF WSInv, NoneForgotten
<1>8. QED
  BY <1>3, <1>4, <1>5, <1>6, <1>7 DEF WSInv

-----------------------------------------------------------------------------
(* The flooding. *)

(* What the three actions that take a pixel share; v is what it becomes. *)
LEMMA TakeKeeps ==
    ASSUME WSInv, TakeTop, NEW v \in Int, v >= 0,
           output' = [output EXCEPT ![p'] = v],
           pc' \in {"flood", "expand"}, k' \in Nat \ {0},
           ~waterline => v = output[p']
    PROVE  /\ p' \in Point /\ output[p'] # kUnlabeled
           /\ waterline => output[p'] = kInqueue /\ Labels(p') # {}
           /\ ~waterline => output[p'] > 0
           /\ \A r : r \in Waiting' <=> r \in Waiting /\ r # p'
           /\ \A r \in Point : output[r] > 0 => output'[r] = output[r]
           /\ WSTypeOK' /\ WaitsOnce' /\ ScanOK'
           /\ (pc' = "expand" => v > 0) => QueueMarked'
<1>1. /\ WSTypeOK /\ WaitsOnce /\ QueueMarked
      /\ pc = "flood" /\ f' = f /\ waterline' = waterline /\ i' = i
  BY DEF WSInv, TakeTop
<1>2. /\ queue' \in [Level -> Seq(Point)] /\ level' \in Level
      /\ p' \in Waiting /\ WaitsOnce'
      /\ \A r : r \in Waiting' <=> r \in Waiting /\ r # p'
  BY <1>1, TopLeaves DEF WSTypeOK
<1>3. p' \in Point
  BY <1>2, WaitingAre
<1>4. /\ waterline => output[p'] = kInqueue /\ Labels(p') # {}
      /\ ~waterline => output[p'] > 0
  BY <1>1, <1>2 DEF QueueMarked
<1>5. /\ output' \in [Point -> Int] /\ output'[p'] = v
      /\ \A r \in Point : r # p' => output'[r] = output[r]
  BY <1>1, <1>3 DEF WSTypeOK
<1>6. \A r \in Point : output[r] > 0 => output'[r] = output[r]
  BY <1>1, <1>4, <1>5 DEF WSTypeOK, kInqueue
<1>7. WSTypeOK'
  <2>1. \A q \in Point : output'[q] >= kUnlabeled
    BY <1>1, <1>5 DEF WSTypeOK, kUnlabeled
  <2>2. pc' \in {"scan", "flood", "expand", "end"}
    OBVIOUS
  <2>3. QED
    BY <1>1, <1>2, <1>3, <1>5, <2>1, <2>2 DEF WSTypeOK
<1>8. ScanOK'
  BY DEF ScanOK
<1>9. ASSUME pc' = "expand" => v > 0 PROVE QueueMarked'
  <2>1. waterline => \A q \in Waiting' : output'[q] = kInqueue /\ Labels(q)' # {}
    <3> SUFFICES ASSUME waterline, NEW q \in Waiting'
                 PROVE  output'[q] = kInqueue /\ Labels(q)' # {}
      OBVIOUS
    <3>1. q \in Waiting /\ q # p' /\ q \in Point
      BY <1>2, WaitingAre
    <3>2. output[q] = kInqueue /\ Labels(q) # {}
      BY <1>1, <3>1 DEF QueueMarked
    <3>3. Labels(q)' # {}
      BY <1>6, <3>1, <3>2, LabelsStay
    <3>4. QED
      BY <1>5, <3>1, <3>2, <3>3
  <2>2. ~waterline => \A q \in Waiting' : output'[q] > 0
    BY <1>1, <1>2, <1>5, WaitingAre DEF QueueMarked
  <2>3. waterline => \A q \in Point : output'[q] = kInqueue => q \in Waiting'
    BY <1>1, <1>2, <1>5 DEF QueueMarked, kInqueue
  <2>4. pc' = "expand" => output'[p'] > 0
    BY <1>5, <1>9
  <2>5. QED
    BY <1>1, <2>1, <2>2, <2>3, <2>4 DEF QueueMarked
<1>10. output[p'] # kUnlabeled
  BY <1>1, <1>4 DEF kUnlabeled, kInqueue, WSTypeOK
<1>11. QED
  BY <1>2, <1>3, <1>4, <1>6, <1>7, <1>8, <1>9, <1>10

(* The label is that of the only basin around: the basins stay separate. *)
LEMMA LabelPixelKeeps ==
    ASSUME WSInv, LabelPixel
    PROVE  WSInv'
<1>1. PICK lbl \in Labels(p') : Labels(p') = {lbl} /\ output' = [output EXCEPT ![p'] = lbl]
  BY DEF LabelPixel
<1>2. /\ waterline /\ TakeTop /\ pc' = "expand" /\ k' = 1
      /\ waterline' = waterline /\ pc = "flood"
  BY DEF LabelPixel, TakeTop
<1>3. lbl \in Int /\ lbl > 0 /\ lbl >= 0
  <2>1. PICK r \in Around(p') : output[r] > 0 /\ lbl = output[r]
    BY LabelsAre
  <2>2. r \in Point
    BY DEF Around
  <2>3. output[r] \in Int
    BY <2>2 DEF WSInv, WSTypeOK
  <2>4. QED
    BY <2>1, <2>3
<1>4. /\ p' \in Point /\ output[p'] = kInqueue
      /\ \A r \in Point : output[r] > 0 => output'[r] = output[r]
      /\ WSTypeOK' /\ WaitsOnce' /\ ScanOK' /\ QueueMarked'
  <2>1. pc' \in {"flood", "expand"} /\ k' \in Nat \ {0}
    BY <1>2
  <2>2. output' = [output EXCEPT ![p'] = lbl]
    BY <1>1
  <2>3. QED
    BY <1>2, <1>3, <2>1, <2>2, TakeKeeps
<1>5. /\ output'[p'] = lbl
      /\ \A r \in Point : r # p' => output'[r] = output[r]
  BY <1>1, <1>4 DEF WSInv, WSTypeOK
<1>6. \A r \in Around(p') : output[r] > 0 => output[r] = lbl
  BY <1>1, LabelsAre
<1>7. Separation'
  <2> SUFFICES ASSUME NEW e \in Adjacent, output'[e[1]] > 0, output'[e[2]] > 0
               PROVE  output'[e[1]] = output'[e[2]]
    BY DEF Separation
  <2>1. e[1] \in Point /\ e[2] \in Point /\ e[2] \in Around(e[1])
    BY DEF Adjacent, Around
  <2>2. e[1] \in Around(e[2]) /\ e[1] # e[2]
    BY <2>1, AroundIsSymmetric
  <2>3. CASE e[1] = p'
    BY <1>5, <1>6, <2>1, <2>2, <2>3
  <2>4. CASE e[2] = p'
    BY <1>5, <1>6, <2>1, <2>2, <2>4
  <2>5. CASE e[1] # p' /\ e[2] # p'
    BY <1>2, <1>5, <2>1, <2>5 DEF WSInv, Separation
  <2>6. QED
    BY <2>3, <2>4, <2>5
<1>8. LinesOK'
  <2> SUFFICES ASSUME NEW q \in Point, output'[q] = kWaterline
               PROVE  \E a, b \in Labels(q)' : a # b
    BY <1>2 DEF LinesOK
  <2>1. output[q] = kWaterline
    BY <1>3, <1>5 DEF kWaterline
  <2>2. PICK a, b \in Labels(q) : a # b
    BY <1>2, <2>1 DEF WSInv, LinesOK
  <2>3. QED
    BY <1>4, <2>2, LabelsStay
<1>9. NoneForgotten'
  <2> SUFFICES ASSUME NEW q \in Point, output'[q] = kUnlabeled,
                      NEW r \in Around(q), output'[r] > 0
               PROVE  r = p' /\ \A a \in DOMAIN Nbh[p'] : Nbh[p'][a] = q => a >= 1
    BY <1>2 DEF NoneForgotten
  <2>1. output[q] = kUnlabeled /\ r \in Point
    BY <1>3, <1>5, AroundIsSymmetric DEF kUnlabeled
  <2>2. r = p'
    <3> SUFFICES ASSUME r # p' PROVE FALSE
      OBVIOUS
    <3>1. output[r] > 0
      BY <1>5, <2>1
    <3>2. QED
      BY <1>2, <2>1, <3>1 DEF WSInv, NoneForgotten
  <2>3. Nbh[p'] \in Seq(Point \cup Border)
    BY <1>4, WatershedAssumption
  <2>4. QED
    BY <2>2, <2>3
<1>10. QED
  BY <1>4, <1>7, <1>8, <1>9 DEF WSInv

(* Two basins meet. *)
LEMMA DrawWaterlineKeeps ==
    ASSUME WSInv, DrawWaterline
    PROVE  WSInv'
<1>1. /\ waterline /\ TakeTop /\ pc = "flood" /\ pc' = "flood" /\ k' = k
      /\ waterline' = waterline
      /\ output' = [output EXCEPT ![p'] = kWaterline]
      /\ \A lbl \in Labels(p') : Labels(p') # {lbl}
  BY DEF DrawWaterline, TakeTop
<1>2. /\ kWaterline \in Int /\ kWaterline >= 0 /\ k' \in Nat \ {0}
  BY <1>1 DEF kWaterline, WSInv, WSTypeOK
<1>3. /\ p' \in Point /\ output[p'] = kInqueue /\ Labels(p') # {}
      /\ \A r \in Point : output[r] > 0 => output'[r] = output[r]
      /\ WSTypeOK' /\ WaitsOnce' /\ ScanOK' /\ QueueMarked'
  BY <1>1, <1>2, TakeKeeps
<1>4. /\ output'[p'] = kWaterline
      /\ \A r \in Point : r # p' => output'[r] = output[r]
  BY <1>1, <1>3 DEF WSInv, WSTypeOK
<1>5. \A r \in Point : output[r] > 0 \/ output'[r] > 0 => output'[r] = output[r]
  BY <1>3, <1>4 DEF kWaterline
<1>6. Separation'
  BY <1>1, <1>5, SeparationStays DEF WSInv
<1>7. LinesOK'
  <2> SUFFICES ASSUME NEW q \in Point, output'[q] = kWaterline
               PROVE  \E a, b \in Labels(q)' : a # b
    BY <1>1 DEF LinesOK
  <2>1. PICK a, b \in Labels(q) : a # b
    <3>1. CASE q = p'
      BY <1>1, <1>3, <3>1
    <3>2. CASE q # p'
      BY <1>1, <1>4, <3>2 DEF WSInv, LinesOK
    <3>3. QED
      BY <3>1, <3>2
  <2>2. QED
    BY <1>3, <2>1, LabelsStay
<1>8. NoneForgotten'
  <2> SUFFICES ASSUME NEW q \in Point, output'[q] = kUnlabeled,
                      NEW r \in Around(q), output'[r] > 0
               PROVE  FALSE
    BY <1>1 DEF NoneForgotten
  <2>1. output[q] = kUnlabeled /\ r \in Point
    BY <1>4, AroundIsSymmetric DEF kUnlabeled, kWaterline
  <2>2. QED
    BY <1>1, <1>5, <2>1 DEF WSInv, NoneForgotten
<1>9. QED
  BY <1>3, <1>6, <1>7, <1>8 DEF WSInv

LEMMA TakeLabeledKeeps ==
    ASSUME WSInv, TakeLabeled
    PROVE  WSInv'
<1>1. /\ ~waterline /\ TakeTop /\ pc' = "expand" /\ k' = 1
      /\ waterline' = waterline /\ output' = output
  BY DEF TakeLabeled, TakeTop
<1>2. p' \in Waiting
  BY <1>1, TopLeaves DEF WSInv, WSTypeOK
<1>3. p' \in Point /\ output[p'] > 0 /\ output[p'] \in Int
  BY <1>1, <1>2, WaitingAre DEF WSInv, QueueMarked, WSTypeOK
<1>4. output' = [output EXCEPT ![p'] = output[p']]
  BY <1>1, <1>3 DEF WSInv, WSTypeOK
<1>5. WSTypeOK' /\ WaitsOnce' /\ ScanOK' /\ QueueMarked'
  <2>1. pc' \in {"flood", "expand"} /\ k' \in Nat \ {0} /\ output[p'] >= 0
    BY <1>1, <1>3
  <2>2. QED
    BY <1>1, <1>3, <1>4, <2>1, TakeKeeps
<1>6. Separation' /\ LinesOK' /\ NoneForgotten'
  BY <1>1 DEF Separation, LinesOK, NoneForgotten
<1>7. QED
  BY <1>5, <1>6 DEF WSInv

-----------------------------------------------------------------------------
(* The loop over the neighbours. *)

(* What the loop has not seen of the neighbours of p after one step. *)
LEMMA NextNeighbourTyped ==
    ASSUME WSInv, NextNeighbour
    PROVE  /\ pc = "expand" /\ pc' = "expand" /\ p' = p /\ k' = k + 1 /\ k \in Nat \ {0}
           /\ f' = f /\ waterline' = waterline /\ i' = i /\ level' = level
           /\ p \in Point /\ output[p] > 0 /\ DOMAIN Nbh[p] \subseteq Nat /\ k \in DOMAIN Nbh[p]
           /\ N \in Point => N \in Around(p)
<1>1. /\ pc = "expand" /\ pc' = "expand" /\ p' = p /\ k' = k + 1 /\ k <= Len(Nbh[p])
      /\ f' = f /\ waterline' = waterline /\ i' = i /\ level' = level
  BY DEF NextNeighbour
<1>2. p \in Point /\ k \in Nat \ {0} /\ output[p] > 0
  BY <1>1 DEF WSInv, WSTypeOK, QueueMarked
<1>3. Nbh[p] \in Seq(Point \cup Border)
  BY <1>2, WatershedAssumption
<1>4. DOMAIN Nbh[p] = 1 .. Len(Nbh[p]) /\ k \in DOMAIN Nbh[p]
  BY <1>1, <1>2, <1>3
<1>5. N \in Point => N \in Around(p)
  BY <1>2, <1>4, AroundIsSymmetric DEF N
<1>6. QED
  BY <1>1, <1>2, <1>4, <1>5

LEMMA SpreadKeeps ==
    ASSUME WSInv, Spread
    PROVE  WSInv'
<1>1. /\ NextNeighbour /\ N \in Point /\ output[N] = Untouched /\ Push(f[N], N)
      /\ output' = [output EXCEPT ![N] = IF waterline THEN kInqueue ELSE output[p]]
  BY DEF Spread
<1>2. /\ pc = "expand" /\ pc' = "expand" /\ p' = p /\ k' = k + 1 /\ k \in Nat \ {0}
      /\ f' = f /\ waterline' = waterline /\ i' = i /\ level' = level
      /\ p \in Point /\ output[p] > 0 /\ DOMAIN Nbh[p] \subseteq Nat /\ k \in DOMAIN Nbh[p]
      /\ N \in Around(p)
  BY <1>1, NextNeighbourTyped
<1>3. WSTypeOK /\ WaitsOnce /\ Separation /\ QueueMarked /\ LinesOK /\ NoneForgotten
  BY DEF WSInv
<1>4. /\ output' \in [Point -> Int]
      /\ output'[N] = IF waterline THEN kInqueue ELSE output[p]
      /\ \A r \in Point : r # N => output'[r] = output[r]
  BY <1>1, <1>2, <1>3 DEF WSTypeOK, kInqueue
<1>5. /\ waterline => output[N] = kUnlabeled
      /\ ~waterline => output[N] = 0
  BY <1>1 DEF Untouched
<1>6. N \notin Waiting
  BY <1>3, <1>5 DEF QueueMarked, kInqueue, kUnlabeled
<1>7. /\ queue' \in [Level -> Seq(Point)] /\ WaitsOnce'
      /\ \A r : r \in Waiting' <=> r \in Waiting \/ r = N
  BY <1>1, <1>2, <1>3, <1>6, PushWaits DEF WSTypeOK
<1>8. \A r \in Point : output[r] > 0 => output'[r] = output[r]
  BY <1>4, <1>5 DEF kUnlabeled
<1>9. waterline => \A r \in Point : output'[r] > 0 => output'[r] = output[r]
  BY <1>4 DEF kInqueue
<1>10. WSTypeOK'
  <2>1. \A q \in Point : output'[q] >= kUnlabeled
    <3> SUFFICES ASSUME NEW q \in Point PROVE output'[q] >= kUnlabeled
      OBVIOUS
    <3>1. CASE q = N
      BY <1>2, <1>3, <1>4, <3>1 DEF WSTypeOK, kInqueue, kUnlabeled
    <3>2. CASE q # N
      BY <1>3, <1>4, <3>2 DEF WSTypeOK
    <3>3. QED
      BY <3>1, <3>2
  <2>2. k' \in Nat \ {0}
    BY <1>2
  <2>3. QED
    BY <1>2, <1>3, <1>4, <1>7, <2>1, <2>2 DEF WSTypeOK
<1>11. Separation'
  <2>1. CASE waterline
    BY <1>2, <1>3, <1>8, <1>9, <2>1, SeparationStays
  <2>2. CASE ~waterline
    BY <1>2, <2>2 DEF Separation
  <2>3. QED
    BY <2>1, <2>2
<1>12. ScanOK'
  BY <1>2 DEF ScanOK
<1>13. QueueMarked'
  <2>1. waterline => \A q \in Waiting' : output'[q] = kInqueue /\ Labels(q)' # {}
    <3> SUFFICES ASSUME waterline, NEW q \in Waiting'
                 PROVE  output'[q] = kInqueue /\ Labels(q)' # {}
      OBVIOUS
    <3>1. CASE q = N
      <4>1. p \in Around(N) /\ p # N
        BY <1>2, AroundIsSymmetric
      <4>2. output'[p] > 0
        BY <1>2, <1>4, <4>1
      <4>3. Labels(q)' # {}
        <5>1. q = N
          BY <3>1
        <5>2. output'[p] \in {output'[r] : r \in {r \in Around(N) : output'[r] > 0}}
          BY <4>1, <4>2
        <5>3. Labels(q)' = {output'[r] : r \in {r \in Around(q) : output'[r] > 0}}
          BY DEF Labels
        <5>4. QED
          BY <5>1, <5>2, <5>3
      <4>4. QED
        BY <1>4, <3>1, <4>3
    <3>2. CASE q # N
      <4>1. q \in Waiting /\ q \in Point
        BY <1>7, <3>2, WaitingAre
      <4>2. output[q] = kInqueue /\ Labels(q) # {}
        BY <1>3, <4>1 DEF QueueMarked
      <4>3. Labels(q)' # {}
        BY <1>8, <4>1, <4>2, LabelsStay
      <4>4. QED
        BY <1>4, <3>2, <4>1, <4>2, <4>3
    <3>3. QED
      BY <3>1, <3>2
  <2>2. ~waterline => \A q \in Waiting' : output'[q] > 0
    BY <1>2, <1>3, <1>4, <1>7, WaitingAre DEF QueueMarked
  <2>3. waterline => \A q \in Point : output'[q] = kInqueue => q \in Waiting'
    BY <1>2, <1>3, <1>4, <1>7 DEF QueueMarked
  <2>4. output'[p'] > 0
    BY <1>2, <1>8
  <2>5. QED
    BY <1>2, <2>1, <2>2, <2>3, <2>4 DEF QueueMarked
<1>14. LinesOK'
  <2> SUFFICES ASSUME waterline, NEW q \in Point, output'[q] = kWaterline
               PROVE  \E a, b \in Labels(q)' : a # b
    BY <1>2 DEF LinesOK
  <2>1. output[q] = kWaterline
    BY <1>4 DEF kWaterline, kInqueue
  <2>2. PICK a, b \in Labels(q) : a # b
    BY <1>2, <1>3, <2>1 DEF LinesOK
  <2>3. QED
    BY <1>8, <2>2, LabelsStay
<1>15. NoneForgotten'
  <2> SUFFICES ASSUME waterline, NEW q \in Point, output'[q] = kUnlabeled,
                      NEW r \in Around(q), output'[r] > 0
               PROVE  r = p /\ \A a \in DOMAIN Nbh[p] : Nbh[p][a] = q => a >= k + 1
    BY <1>2 DEF NoneForgotten
  <2>1. q # N /\ output[q] = kUnlabeled
    BY <1>4 DEF kInqueue, kUnlabeled
  <2>2. r \in Point /\ output[r] > 0
    BY <1>9, AroundIsSymmetric
  <2>3. r = p /\ \A a \in DOMAIN Nbh[p] : Nbh[p][a] = q => a >= k
    BY <1>3, <2>1, <2>2 DEF NoneForgotten
  <2>4. Nbh[p][k] # q
    BY <2>1 DEF N
  <2>5. QED
    BY <1>2, <2>3, <2>4
<1>16. QED
  BY <1>7, <1>10, <1>11, <1>12, <1>13, <1>14, <1>15 DEF WSInv

LEMMA SkipNeighbourKeeps ==
    ASSUME WSInv, SkipNeighbour
    PROVE  WSInv'
<1>1. /\ NextNeighbour /\ ~(N \in Point /\ output[N] = Untouched)
      /\ queue' = queue /\ output' = output
  BY DEF SkipNeighbour
<1>2. /\ pc = "expand" /\ pc' = "expand" /\ p' = p /\ k' = k + 1 /\ k \in Nat \ {0}
      /\ f' = f /\ waterline' = waterline /\ i' = i /\ level' = level
      /\ DOMAIN Nbh[p] \subseteq Nat
  BY <1>1, NextNeighbourTyped
<1>3. WSTypeOK'
  <2>1. k' \in Nat \ {0}
    BY <1>2
  <2>2. QED
    BY <1>1, <1>2, <2>1 DEF WSInv, WSTypeOK
<1>4. WaitsOnce' /\ Separation' /\ ScanOK'
  BY <1>1, <1>2 DEF WSInv, WaitsOnce, Separation, ScanOK
<1>5. QueueMarked' /\ LinesOK'
  <2>1. \A q \in Point : Labels(q)' = Labels(q)
    BY <1>1, LabelsSame
  <2>2. Waiting' = Waiting /\ Waiting \subseteq Point
    BY <1>1 DEF Waiting
  <2>3. QueueMarked'
    BY <1>1, <1>2, <2>1, <2>2 DEF WSInv, QueueMarked
  <2>4. LinesOK'
    BY <1>1, <1>2, <2>1 DEF WSInv, LinesOK
  <2>5. QED
    BY <2>3, <2>4
<1>6. NoneForgotten'
  <2> SUFFICES ASSUME waterline, NEW q \in Point, output[q] = kUnlabeled,
                      NEW r \in Around(q), output[r] > 0
               PROVE  r = p /\ \A a \in DOMAIN Nbh[p] : Nbh[p][a] = q => a >= k + 1
    BY <1>1, <1>2 DEF NoneForgotten
  <2>1. r = p /\ \A a \in DOMAIN Nbh[p] : Nbh[p][a] = q => a >= k
    BY DEF WSInv, NoneForgotten
  <2>2. Nbh[p][k] # q
    BY <1>1 DEF N, Untouched
  <2>3. QED
    BY <1>2, <2>1, <2>2
<1>7. QED
  BY <1>3, <1>4, <1>5, <1>6 DEF WSInv

(* All the neighbours of p were considered: none is forgotten. *)
LEMMA EndExpandKeeps ==
    ASSUME WSInv, EndExpand
    PROVE  WSInv'
<1>1. /\ pc = "expand" /\ pc' = "flood" /\ k > Len(Nbh[p])
      /\ UNCHANGED <<queue, f, waterline, output, i, level, p, k>>
  BY DEF EndExpand
<1>2. p \in Point /\ k \in Nat
  BY DEF WSInv, WSTypeOK
<1>3. \A a \in DOMAIN Nbh[p] : ~(a >= k)
  <2>1. Nbh[p] \in Seq(Point \cup Border)
    BY <1>2, WatershedAssumption
  <2>2. QED
    BY <1>1, <1>2, <2>1
<1>4. WSTypeOK' /\ WaitsOnce' /\ Separation' /\ ScanOK'
  BY <1>1 DEF WSInv, WSTypeOK, WaitsOnce, Separation, ScanOK
<1>5. QueueMarked'
  <2>1. \A q \in Point : Labels(q)' = Labels(q)
    BY <1>1, LabelsSame
  <2>2. Waiting' = Waiting /\ Waiting \subseteq Point
    BY <1>1 DEF Waiting
  <2>3. QED
    BY <1>1, <2>1, <2>2 DEF WSInv, QueueMarked
<1>6. LinesOK'
  <2>1. \A q \in Point : Labels(q)' = Labels(q)
    BY <1>1, LabelsSame
  <2>2. QED
    BY <1>1, <2>1 DEF WSInv, LinesOK
<1>7. NoneForgotten'
  <2> SUFFICES ASSUME waterline, NEW q \in Point, output[q] = kUnlabeled,
                      NEW r \in Around(q), output[r] > 0
               PROVE  FALSE
    BY <1>1 DEF NoneForgotten
  <2>1. r = p /\ \A a \in DOMAIN Nbh[p] : Nbh[p][a] = q => a >= k
    BY DEF WSInv, NoneForgotten
  <2>2. q \in Around(p)
    BY <2>1, AroundIsSymmetric
  <2>3. QED
    BY <1>2, <1>3, <2>1, <2>2, AroundIsSymmetric
<1>8. QED
  BY <1>4, <1>5, <1>6, <1>7 DEF WSInv

-----------------------------------------------------------------------------
(* What is left is given to the lines: no basin touches it. *)
LEMMA FinishKeeps ==
    ASSUME WSInv, Finish
    PROVE  WSInv'
<1>1. /\ pc = "flood" /\ pc' = "end" /\ AllEmpty
      /\ UNCHANGED <<queue, f, waterline, i, level, p, k>>
      /\ output' = IF waterline
                   THEN [q \in Point |-> IF output[q] < 0 THEN kWaterline ELSE output[q]]
                   ELSE output
  BY DEF Finish
<1>2. /\ WSTypeOK /\ WaitsOnce /\ Separation /\ QueueMarked /\ LinesOK /\ NoneForgotten
  BY DEF WSInv
<1>3. Waiting = {} /\ Waiting' = {}
  BY <1>1 DEF AllEmpty, Waiting
<1>4. /\ output' \in [Point -> Int]
      /\ \A q \in Point : output'[q] = IF waterline /\ output[q] < 0 THEN kWaterline ELSE output[q]
  BY <1>1, <1>2 DEF WSTypeOK, kWaterline
<1>5. \A r \in Point : output[r] > 0 \/ output'[r] > 0 => output'[r] = output[r]
  BY <1>2, <1>4 DEF WSTypeOK, kWaterline
<1>6. \A q \in Point : Labels(q)' = Labels(q)
  BY <1>5, LabelsSame
<1>7. WSTypeOK'
  <2>1. \A q \in Point : output'[q] >= kUnlabeled
    <3> SUFFICES ASSUME NEW q \in Point PROVE output'[q] >= kUnlabeled
      OBVIOUS
    <3>1. output[q] >= kUnlabeled /\ kWaterline >= kUnlabeled
      BY <1>2 DEF WSTypeOK, kWaterline, kUnlabeled
    <3>2. QED
      BY <1>4, <3>1
  <2>2. QED
    BY <1>1, <1>2, <1>4, <2>1 DEF WSTypeOK
<1>8. WaitsOnce' /\ Separation'
  BY <1>1, <1>2, <1>5, SeparationStays DEF WaitsOnce
<1>9. ScanOK' /\ QueueMarked'
  BY <1>1, <1>3 DEF ScanOK, QueueMarked
<1>10. LinesOK'
  <2> SUFFICES ASSUME waterline, NEW q \in Point, output'[q] = kWaterline, NEW lbl \in Labels(q)
               PROVE  Labels(q) # {lbl}
    BY <1>1, <1>6 DEF LinesOK
  <2>1. CASE output[q] < 0
    <3>1. output[q] = kInqueue \/ output[q] = kUnlabeled
      BY <1>2, <2>1 DEF WSTypeOK, kInqueue, kUnlabeled
    <3>2. output[q] # kInqueue
      BY <1>1, <1>2, <1>3 DEF QueueMarked
    <3>3. PICK r \in Around(q) : output[r] > 0
      BY LabelsAre
    <3>4. QED
      BY <1>1, <1>2, <3>1, <3>2, <3>3 DEF NoneForgotten
  <2>2. CASE ~(output[q] < 0)
    <3>1. output[q] = kWaterline
      BY <1>4, <2>2
    <3>2. PICK a, b \in Labels(q) : a # b
      BY <1>1, <1>2, <3>1 DEF LinesOK
    <3>3. QED
      BY <3>2
  <2>3. QED
    BY <2>1, <2>2
<1>11. NoneForgotten'
  BY <1>1, <1>2, <1>4 DEF NoneForgotten, WSTypeOK, kWaterline, kUnlabeled
<1>12. QED
  BY <1>7, <1>8, <1>9, <1>10, <1>11 DEF WSInv

-----------------------------------------------------------------------------
LEMMA WSNextOK == WSInv /\ [WSNext]_vars => WSInv'
<1> SUFFICES ASSUME WSInv, [WSNext]_vars PROVE WSInv'
  OBVIOUS
<1>1. output \in [Point -> Int]
  BY DEF WSInv, WSTypeOK
<1>2. ASSUME NextPixel PROVE Scanned \in Point
  BY <1>2, PastMoves DEF NextPixel, WSInv
<1>3. CASE ScanMarker
  BY <1>1, <1>3, ScanKeeps DEF ScanMarker
<1>4. CASE ScanNextToMarker
  <2>1. output' = [output EXCEPT ![Scanned] = kInqueue] /\ kInqueue \in Int
    BY <1>4 DEF ScanNextToMarker, kInqueue
  <2>2. output' \in [Point -> Int] /\ output'[Scanned] = kInqueue
    BY <1>1, <1>2, <1>4, <2>1 DEF ScanNextToMarker
  <2>3. \A q \in Point \ {Scanned} : output'[q] = output[q]
    BY <1>1, <2>1
  <2>4. QED
    BY <1>4, <2>2, <2>3, ScanKeeps DEF ScanNextToMarker
<1>5. CASE ScanFar
  <2>1. output' = [output EXCEPT ![Scanned] = kUnlabeled] /\ kUnlabeled \in Int
    BY <1>5 DEF ScanFar, kUnlabeled
  <2>2. output' \in [Point -> Int] /\ output'[Scanned] = kUnlabeled
    BY <1>1, <1>2, <1>5, <2>1 DEF ScanFar
  <2>3. \A q \in Point \ {Scanned} : output'[q] = output[q]
    BY <1>1, <2>1
  <2>4. QED
    BY <1>5, <2>2, <2>3, ScanKeeps DEF ScanFar
<1>6. CASE ScanFrontier
  BY <1>1, <1>6, ScanKeeps DEF ScanFrontier
<1>7. CASE ScanOther
  BY <1>1, <1>7, ScanKeeps DEF ScanOther
<1>8. CASE EndScan
  BY <1>8, EndScanKeeps
<1>9. CASE LabelPixel
  BY <1>9, LabelPixelKeeps
<1>10. CASE DrawWaterline
  BY <1>10, DrawWaterlineKeeps
<1>11. CASE TakeLabeled
  BY <1>11, TakeLabeledKeeps
<1>12. CASE Spread
  BY <1>12, SpreadKeeps
<1>13. CASE SkipNeighbour
  BY <1>13, SkipNeighbourKeeps
<1>14. CASE EndExpand
  BY <1>14, EndExpandKeeps
<1>15. CASE Finish
  BY <1>15, FinishKeeps
<1>16. CASE UNCHANGED vars
  <2>1. UNCHANGED <<queue, f, waterline, output, pc, i, level, p, k>>
    BY <1>16 DEF vars
  <2>2. Waiting' = Waiting /\ Waiting \subseteq Point /\ \A q \in Point : Labels(q)' = Labels(q)
    BY <2>1, LabelsSame DEF Waiting
  <2>3. \A q : Past(q)' <=> Past(q)
    BY <2>1 DEF Past
  <2>4. WSTypeOK' /\ WaitsOnce' /\ Separation' /\ NoneForgotten'
    BY <2>1 DEF WSInv, WSTypeOK, WaitsOnce, Separation, NoneForgotten
  <2>5. ScanOK'
    BY <2>1, <2>2, <2>3 DEF WSInv, ScanOK
  <2>6. QueueMarked'
    BY <2>1, <2>2 DEF WSInv, QueueMarked
  <2>7. LinesOK'
    BY <2>1, <2>2 DEF WSInv, LinesOK
  <2>8. QED
    BY <2>4, <2>5, <2>6, <2>7 DEF WSInv
<1>17. QED
  BY <1>3, <1>4, <1>5, <1>6, <1>7, <1>8, <1>9, <1>10, <1>11, <1>12, <1>13, <1>14, <1>15, <1>16 DEF WSNext

LEMMA WSInvariant == WSSpec => []WSInv
BY WSInitOK, WSNextOK, PTL DEF WSSpec

-----------------------------------------------------------------------------
(***************************************************************************)
(* The variables of the flooding keep their types; in particular no pixel  *)
(* ever holds a value that is neither a label nor one of the three marks.  *)
(***************************************************************************)
THEOREM WSTypeCorrect == WSSpec => []WSTypeOK
<1>1. WSInv => WSTypeOK
  BY DEF WSInv
<1>2. QED
  BY <1>1, WSInvariant, PTL

(***************************************************************************)
(* The waterlines separate: at no time do two adjacent pixels carry the    *)
(* labels of two basins, for every image and neighbourhood, and whatever   *)
(* the order in which the queue yields the pixels of a level.              *)
(***************************************************************************)
THEOREM BasinsAreSeparate == WSSpec => []Separation
<1>1. WSInv => Separation
  BY DEF WSInv
<1>2. QED
  BY <1>1, WSInvariant, PTL

(***************************************************************************)
(* No pixel is in the queue twice, which the queue over linked lists       *)
(* requires of its client: a second push would overwrite a link in use.    *)
(***************************************************************************)
THEOREM PixelsWaitOnce == WSSpec => []WaitsOnce
<1>1. WSInv => WaitsOnce
  BY DEF WSInv
<1>2. QED
  BY <1>1, WSInvariant, PTL

(***************************************************************************)
(* The assertion of the flooding loop: what leaves the queue is marked in  *)
(* queue, and it touches a basin.                                          *)
(***************************************************************************)
THEOREM QueueIsMarked == WSSpec => []InqueueMarksQueue
<1>1. Waiting \subseteq Point
  BY DEF Waiting
<1>2. WSInv => InqueueMarksQueue
  BY <1>1 DEF WSInv, QueueMarked, InqueueMarksQueue
<1>3. QED
  BY <1>2, WSInvariant, PTL

(***************************************************************************)
(* No pixel next to a basin is forgotten by the marking of the queue.      *)
(***************************************************************************)
THEOREM NoPixelForgotten == WSSpec => []NothingForgotten
<1>1. WSInv => NothingForgotten
  <2> SUFFICES ASSUME WSInv, pc \in {"flood", "end"}, waterline,
                      NEW q \in Point, output[q] = kUnlabeled
               PROVE  Labels(q) = {}
    BY DEF NothingForgotten
  <2>1. \A r \in Around(q) : ~(output[r] > 0)
    BY DEF WSInv, NoneForgotten
  <2>2. \A v : v \notin Labels(q)
    BY <2>1, LabelsAre
  <2>3. QED
    BY <2>2
<1>2. QED
  BY <1>1, WSInvariant, PTL

(***************************************************************************)
(* In the result a pixel of the lines never touches exactly one basin.     *)
(***************************************************************************)
THEOREM LinesTouchTwoBasins == WSSpec => []LinesSeparate
<1>1. WSInv => LinesSeparate
  BY DEF WSInv, LinesOK, LinesSeparate
<1>2. QED
  BY <1>1, WSInvariant, PTL

LEMMA LabelsAreKept ==
    WSInv /\ WSNext => \A q \in Point : output[q] > 0 => output'[q] = output[q]
<1> SUFFICES ASSUME WSInv, WSNext
             PROVE  \A q \in Point : output[q] > 0 => output'[q] = output[q]
  OBVIOUS
<1>1. output \in [Point -> Int]
  BY DEF WSInv, WSTypeOK
<1>2. CASE UNCHANGED output
  BY <1>2
<1>3. ASSUME NEW v, ScanNextToMarker \/ ScanFar, output' = [output EXCEPT ![Scanned] = v]
      PROVE  \A q \in Point : output[q] > 0 => output'[q] = output[q]
  BY <1>1, <1>3 DEF ScanNextToMarker, ScanFar
<1>4. ASSUME NEW v, TakeTop, waterline, output' = [output EXCEPT ![p'] = v]
      PROVE  \A q \in Point : output[q] > 0 => output'[q] = output[q]
  <2>1. p' \in Waiting
    BY <1>4, TopLeaves DEF WSInv, WSTypeOK
  <2>2. output[p'] = kInqueue
    BY <1>4, <2>1 DEF WSInv, QueueMarked
  <2>3. ~(output[p'] > 0)
    BY <2>2 DEF kInqueue
  <2>4. QED
    BY <1>1, <1>4, <2>3
<1>5. CASE ScanNextToMarker \/ ScanFar
  BY <1>3, <1>5 DEF ScanNextToMarker, ScanFar
<1>6. CASE LabelPixel \/ DrawWaterline
  BY <1>4, <1>6 DEF LabelPixel, DrawWaterline
<1>7. CASE Spread
  <2>1. output' = [output EXCEPT ![N] = IF waterline THEN kInqueue ELSE output[p]]
    BY <1>7 DEF Spread
  <2>2. ~(output[N] > 0)
    BY <1>7 DEF Spread, Untouched, kUnlabeled
  <2>3. QED
    BY <1>1, <2>1, <2>2
<1>8. CASE Finish
  BY <1>1, <1>8 DEF Finish
<1>9. QED
  BY <1>2, <1>5, <1>6, <1>7, <1>8
     DEF WSNext, ScanMarker, ScanFrontier, ScanOther, EndScan, TakeLabeled, SkipNeighbour, EndExpand

(***************************************************************************)
(* A label is never taken back or changed, those of the markers included.  *)
(***************************************************************************)
THEOREM LabelsForEver == WSSpec => LabelsAreFinal
<1>1. WSInv /\ [WSNext]_vars => [\A q \in Point : output[q] > 0 => output'[q] = output[q]]_vars
  BY LabelsAreKept
<1>2. QED
  BY <1>1, WSInvariant, PTL DEF WSSpec, LabelsAreFinal

-----------------------------------------------------------------------------
(***************************************************************************)
(* The basins.  A region is a set that no smaller set is a part of without *)
(* a pair of neighbours leaving it: a point next to a region extends it.   *)
(***************************************************************************)
Linked(S) == \A T : T \subseteq S /\ T # {} /\ NoPairLeaves(T, S, Adjacent) => T = S

BasinsOK == \A lbl \in Nat \ {0} : Linked(Labelled(output, lbl))

LEMMA LinkedIsRegion ==
    ASSUME NEW S \in SUBSET Point
    PROVE  Linked(S) <=> IsRegion(S)
<1>1. IsFiniteSet(S)
  BY PriorityFifoAssumption, FS_Subset
<1>2. \A q \in S : IsComponent(Component(S, q, Adjacent), S, q, Adjacent)
  BY <1>1, ComponentIs
<1>3. ASSUME Linked(S), NEW q \in S PROVE Component(S, q, Adjacent) = S
  BY <1>2, <1>3 DEF IsComponent, Linked
<1>4. ASSUME IsRegion(S), NEW T, T \subseteq S, T # {}, NoPairLeaves(T, S, Adjacent) PROVE T = S
  <2>1. PICK q \in T : q \in S
    BY <1>4
  <2>2. Component(S, q, Adjacent) = S
    BY <1>4, <2>1 DEF IsRegion
  <2>3. S \subseteq T
    BY <1>2, <1>4, <2>1, <2>2 DEF IsComponent
  <2>4. QED
    BY <1>4, <2>3
<1>5. QED
  BY <1>3, <1>4 DEF Linked, IsRegion

LEMMA PointExtends ==
    ASSUME NEW S \in SUBSET Point, Linked(S), NEW o \in S, NEW r \in Point, <<r, o>> \in Adjacent
    PROVE  Linked(S \cup {r})
<1> DEFINE S2 == S \cup {r}
<1>1. <<o, r>> \in Adjacent
  BY WatershedAssumption
<1> SUFFICES ASSUME NEW T, T \subseteq S2, T # {}, NoPairLeaves(T, S2, Adjacent) PROVE T = S2
  BY DEF Linked
<1>2. T \cap S # {}
  <2>1. CASE r \in T
    BY <2>1 DEF NoPairLeaves
  <2>2. CASE r \notin T
    BY <2>2
  <2>3. QED
    BY <2>1, <2>2
<1>3. NoPairLeaves(T \cap S, S, Adjacent)
  BY DEF NoPairLeaves
<1>4. T \cap S = S
  BY <1>2, <1>3 DEF Linked
<1>5. r \in T
  BY <1>1, <1>4 DEF NoPairLeaves
<1>6. QED
  BY <1>4, <1>5

LEMMA BasinsStay ==
    ASSUME BasinsOK, \A r \in Point : output[r] > 0 \/ output'[r] > 0 => output'[r] = output[r]
    PROVE  BasinsOK'
<1>1. ASSUME NEW lbl \in Nat \ {0} PROVE Labelled(output', lbl) = Labelled(output, lbl)
  <2>1. \A r \in Point : output'[r] = lbl <=> output[r] = lbl
    BY <1>1
  <2>2. QED
    BY <2>1 DEF Labelled
<1>2. QED
  BY <1>1 DEF BasinsOK

LEMMA BasinGrows ==
    ASSUME BasinsOK, NEW r \in Point, NEW o \in Around(r), ~(output[r] > 0),
           output[o] > 0, output'[r] = output[o],
           \A q \in Point : q # r => output'[q] = output[q]
    PROVE  BasinsOK'
<1> SUFFICES ASSUME NEW lbl \in Nat \ {0} PROVE Linked(Labelled(output', lbl))
  BY DEF BasinsOK
<1>1. Linked(Labelled(output, lbl)) /\ Labelled(output, lbl) \subseteq Point
  BY DEF BasinsOK, Labelled
<1>2. lbl > 0 /\ output[r] # lbl
  OBVIOUS
<1>3. CASE output[o] = lbl
  <2>1. Labelled(output', lbl) = Labelled(output, lbl) \cup {r}
    BY <1>2, <1>3 DEF Labelled
  <2>2. o \in Labelled(output, lbl) /\ <<r, o>> \in Adjacent
    BY <1>3 DEF Labelled, Around
  <2>3. QED
    BY <1>1, <2>1, <2>2, PointExtends
<1>4. CASE output[o] # lbl
  <2>1. Labelled(output', lbl) = Labelled(output, lbl)
    BY <1>2, <1>4 DEF Labelled
  <2>2. QED
    BY <1>1, <2>1
<1>5. QED
  BY <1>3, <1>4

LEMMA BasinsNext == WSInv /\ BasinsOK /\ WSNext => BasinsOK'
<1> SUFFICES ASSUME WSInv, BasinsOK, WSNext PROVE BasinsOK'
  OBVIOUS
<1>1. output \in [Point -> Int]
  BY DEF WSInv, WSTypeOK
<1>2. CASE UNCHANGED output
  BY <1>2, BasinsStay
<1>3. CASE ScanNextToMarker \/ ScanFar
  <2>1. PICK v \in {kInqueue, kUnlabeled} : output' = [output EXCEPT ![Scanned] = v]
    BY <1>3 DEF ScanNextToMarker, ScanFar
  <2>2. ~(v > 0) /\ output[Scanned] = 0
    BY <1>3 DEF ScanNextToMarker, ScanFar, kInqueue, kUnlabeled
  <2>3. QED
    BY <1>1, <2>1, <2>2, BasinsStay
<1>4. ASSUME waterline, TakeTop
      PROVE  p' \in Point /\ ~(output[p'] > 0)
  <2>1. p' \in Waiting
    BY <1>4, TopLeaves DEF WSInv, WSTypeOK
  <2>2. output[p'] = kInqueue
    BY <1>4, <2>1 DEF WSInv, QueueMarked
  <2>3. QED
    BY <2>1, <2>2, WaitingAre DEF kInqueue
<1>5. CASE LabelPixel
  <2>1. PICK lbl \in Labels(p') : output' = [output EXCEPT ![p'] = lbl]
    BY <1>5 DEF LabelPixel
  <2>2. p' \in Point /\ ~(output[p'] > 0)
    BY <1>4, <1>5 DEF LabelPixel
  <2>3. PICK o \in Around(p') : output[o] > 0 /\ lbl = output[o]
    BY LabelsAre
  <2>4. output'[p'] = output[o] /\ \A q \in Point : q # p' => output'[q] = output[q]
    BY <1>1, <2>1, <2>2, <2>3
  <2>5. QED
    BY <2>2, <2>3, <2>4, BasinGrows
<1>6. CASE DrawWaterline
  <2>1. output' = [output EXCEPT ![p'] = kWaterline] /\ ~(kWaterline > 0)
    BY <1>6 DEF DrawWaterline, kWaterline
  <2>2. p' \in Point /\ ~(output[p'] > 0)
    BY <1>4, <1>6 DEF DrawWaterline
  <2>3. QED
    BY <1>1, <2>1, <2>2, BasinsStay
<1>7. CASE Spread
  <2>1. /\ NextNeighbour /\ N \in Point /\ ~(output[N] > 0)
        /\ output' = [output EXCEPT ![N] = IF waterline THEN kInqueue ELSE output[p]]
    BY <1>7 DEF Spread, Untouched, kUnlabeled
  <2>2. p \in Point /\ output[p] > 0 /\ N \in Around(p)
    BY <2>1, NextNeighbourTyped
  <2>3. CASE waterline
    <3>1. ~(kInqueue > 0)
      BY DEF kInqueue
    <3>2. QED
      BY <1>1, <2>1, <2>3, <3>1, BasinsStay
  <2>4. CASE ~waterline
    <3>1. p \in Around(N)
      BY <2>2, AroundIsSymmetric
    <3>2. output'[N] = output[p] /\ \A q \in Point : q # N => output'[q] = output[q]
      BY <1>1, <2>1, <2>4
    <3>3. QED
      BY <2>1, <2>2, <3>1, <3>2, BasinGrows
  <2>5. QED
    BY <2>3, <2>4
<1>8. CASE Finish
  BY <1>1, <1>8, BasinsStay DEF Finish, kWaterline
<1>9. QED
  BY <1>2, <1>3, <1>5, <1>6, <1>7, <1>8
     DEF WSNext, ScanMarker, ScanFrontier, ScanOther, EndScan, TakeLabeled, SkipNeighbour, EndExpand

LEMMA BasinsInit == WSInit => BasinsOK
<1> SUFFICES ASSUME WSInit, NEW lbl \in Nat \ {0} PROVE Linked(Labelled(output, lbl))
  BY DEF BasinsOK
<1>1. f \in Images /\ waterline \in BOOLEAN /\ output \in Markers(f, waterline)
  BY DEF WSInit
<1>2. CASE Labelled(output, lbl) = {}
  BY <1>2 DEF Linked
<1>3. CASE Labelled(output, lbl) # {}
  <2>1. lbl \in {output[q] : q \in Point} \ {0}
    BY <1>3 DEF Labelled
  <2>2. IsRegion(Labelled(output, lbl))
    BY <1>1, <2>1, MarkersAssumption
  <2>3. Labelled(output, lbl) \subseteq Point
    BY DEF Labelled
  <2>4. QED
    BY <2>2, <2>3, LinkedIsRegion
<1>4. QED
  BY <1>2, <1>3

-----------------------------------------------------------------------------
(***************************************************************************)
(* Without waterlines.  A labelled pixel next to one that is not waits in  *)
(* the queue, is still to be scanned, or is the one whose neighbours are   *)
(* considered; from any pixel a labelled one is reached without going up;  *)
(* and what is left to flood is not lower than the water.                  *)
(***************************************************************************)
FrontierOK ==
    ~waterline => \A q \in Point : output[q] > 0 => \A r \in Around(q) : output[r] = 0 =>
        \/ q \in Waiting
        \/ pc = "scan" /\ ~Past(q)
        \/ pc = "expand" /\ q = p /\ \A a \in DOMAIN Nbh[p] : Nbh[p][a] = r => a >= k

NotHigher(q) == {o \in Point : f[o] <= f[q]}

ReachOK ==
    ~waterline => \A q \in Point :
        \E r \in Component(NotHigher(q), q, Adjacent) : output[r] > 0

WaterOK ==
    ~waterline =>
        /\ \A q \in Point : output[q] >= 0
        /\ pc = "scan" => level = 0
        /\ \A q \in Point : q \in Waiting \/ output[q] = 0 => f[q] >= level
        /\ pc = "end" => \A q \in Point : output[q] > 0

FloodInv == BasinsOK /\ FrontierOK /\ ReachOK /\ WaterOK

LEMMA LevelsAreNat == WSInv => \A q \in Point : f[q] \in Level /\ f[q] \in Nat /\ f[q] \in Int
<1>1. WSInv => \A q \in Point : f[q] \in Level
  BY DEF WSInv, WSTypeOK
<1>2. \A l \in Level : l \in Nat /\ l \in Int
  BY LevelTyped
<1>3. QED
  BY <1>1, <1>2

(* While a pixel is not labelled, one that is not higher waits. *)
LEMMA LowerWaits ==
    ASSUME WSInv, FrontierOK, ReachOK, WaterOK, ~waterline, pc = "flood",
           NEW q \in Point, output[q] = 0
    PROVE  \E r \in Waiting : f[r] <= f[q]
<1> DEFINE S == NotHigher(q)
           C == Component(S, q, Adjacent)
           T == {o \in C : output[o] = 0}
<1>1. S \subseteq Point /\ IsFiniteSet(S) /\ q \in S
  <2>1. f[q] \in Int
    BY LevelsAreNat
  <2>2. S \in SUBSET Point /\ q \in S
    BY <2>1 DEF NotHigher
  <2>3. QED
    BY <2>2, FS_Subset, PriorityFifoAssumption
<1> HIDE DEF S
<1>2. IsComponent(C, S, q, Adjacent)
  BY <1>1, ComponentIs
<1>3. PICK r \in C : output[r] > 0
  BY DEF ReachOK, S
<1> HIDE DEF C
<1>4. r \notin T /\ q \in T
  BY <1>2, <1>3 DEF IsComponent
<1>5. ~NoPairLeaves(T, S, Adjacent)
  BY <1>2, <1>3, <1>4 DEF IsComponent
<1>6. PICK o \in T, s \in S : <<o, s>> \in Adjacent /\ s \notin T
  BY <1>5 DEF NoPairLeaves
<1>7. s \in C /\ o \in C
  BY <1>2, <1>6 DEF IsComponent, NoPairLeaves
<1>8. s \in Point /\ o \in Point
  BY <1>1, <1>2, <1>7 DEF IsComponent
<1>9. output[s] > 0
  <2>1. output[s] # 0 /\ output[s] >= 0 /\ output[s] \in Int
    BY <1>6, <1>7, <1>8 DEF WaterOK, WSInv, WSTypeOK
  <2>2. QED
    BY <2>1
<1>10. o \in Around(s) /\ output[o] = 0
  BY <1>6, <1>8, AroundIsSymmetric DEF Around
<1>11. s \in Waiting
  BY <1>8, <1>9, <1>10 DEF FrontierOK
<1>12. f[s] <= f[q]
  BY <1>1, <1>6 DEF S, NotHigher
<1>13. QED
  BY <1>11, <1>12

(* The pixel that is taken is at the lowest level of the queue. *)
LEMMA LowestIsTaken ==
    ASSUME WSInv, TakeTop
    PROVE  \A q \in Waiting : level' <= f[q]
<1>1. PICK l \in Level : IsTopLevel(l) /\ level' = l
  BY DEF TakeTop
<1>2. SUFFICES ASSUME NEW q \in Waiting PROVE l <= f[q]
  BY <1>1
<1>3. PICK m \in Level : \E a \in DOMAIN queue[m] : queue[m][a] = q
  BY WaitingAre
<1>4. f[q] = m
  BY <1>3 DEF WSInv, WaitsOnce
<1>5. queue[m] # <<>>
  BY <1>3
<1>6. m = l \/ l < m
  BY <1>1, <1>5, LevelTyped DEF IsTopLevel
<1>7. l \in Nat /\ m \in Nat
  BY LevelTyped
<1>8. QED
  BY <1>4, <1>6, <1>7

LEMMA FloodInit == WSInit => FloodInv
<1> SUFFICES ASSUME WSInit PROVE FloodInv
  OBVIOUS
<1>1. /\ f \in Images /\ waterline \in BOOLEAN /\ output \in Markers(f, waterline)
      /\ pc = "scan" /\ i = 1 /\ level = 0
  BY DEF WSInit
<1>2. f \in [Point -> Level] /\ output \in [Point -> Nat]
  BY <1>1, MarkersAssumption
<1>3. \A q : ~Past(q)
  <2>1. \A j \in DOMAIN Raster : ~(j < 1)
    BY WatershedAssumption
  <2>2. QED
    BY <1>1, <2>1 DEF Past
<1>4. FrontierOK
  BY <1>1, <1>3 DEF FrontierOK
<1>5. ReachOK
  BY <1>1, MarkersAssumption DEF ReachOK, NotHigher
<1>6. WaterOK
  <2>1. \A q \in Point : f[q] \in Nat /\ output[q] \in Nat
    BY <1>2, LevelTyped
  <2>2. QED
    BY <1>1, <2>1 DEF WaterOK
<1>7. QED
  BY <1>4, <1>5, <1>6, BasinsInit DEF FloodInv

-----------------------------------------------------------------------------
(* The steps of the flooding without waterlines. *)

LEMMA ScanFrontierFloods ==
    ASSUME WSInv, FrontierOK, WaterOK, ScanFrontier
    PROVE  FrontierOK' /\ WaterOK'
<1>1. /\ ~waterline /\ NextPixel /\ output[Scanned] > 0 /\ Push(f[Scanned], Scanned)
      /\ output' = output /\ pc = "scan" /\ pc' = "scan" /\ f' = f /\ level' = level
      /\ waterline' = waterline /\ i <= Len(Raster) /\ i' = i + 1
  BY DEF ScanFrontier, NextPixel
<1>2. Scanned \in Point /\ ~Past(Scanned) /\ \A q : Past(q)' <=> Past(q) \/ q = Scanned
  BY <1>1, PastMoves DEF WSInv
<1>3. Scanned \notin Waiting
  BY <1>1, <1>2 DEF WSInv, ScanOK
<1>4. \A r : r \in Waiting' <=> r \in Waiting \/ r = Scanned
  <2>1. f[Scanned] \in Level /\ queue \in [Level -> Seq(Point)] /\ WaitsOnce
    BY <1>2 DEF WSInv, WSTypeOK
  <2>2. QED
    BY <1>1, <1>2, <1>3, <2>1, PushWaits
<1>5. FrontierOK'
  BY <1>1, <1>2, <1>4 DEF FrontierOK
<1>6. \A q \in Point : f[q] \in Nat
  BY LevelTyped DEF WSInv, WSTypeOK
<1>7. WaterOK'
  BY <1>1, <1>4, <1>6 DEF WaterOK
<1>8. QED
  BY <1>5, <1>7

LEMMA ScanOtherFloods ==
    ASSUME WSInv, FrontierOK, WaterOK, ScanOther
    PROVE  FrontierOK' /\ WaterOK'
<1>1. /\ ~waterline /\ NextPixel /\ ~(output[Scanned] > 0 /\ HasUnlabeledNeighbour(Scanned))
      /\ queue' = queue
      /\ output' = output /\ pc = "scan" /\ pc' = "scan" /\ f' = f /\ level' = level
      /\ waterline' = waterline /\ i <= Len(Raster) /\ i' = i + 1
  BY DEF ScanOther, NextPixel
<1>2. Scanned \in Point /\ ~Past(Scanned) /\ \A q : Past(q)' <=> Past(q) \/ q = Scanned
  BY <1>1, PastMoves DEF WSInv
<1>3. Waiting' = Waiting
  BY <1>1 DEF Waiting
<1>4. FrontierOK'
  BY <1>1, <1>2, <1>3 DEF FrontierOK, HasUnlabeledNeighbour
<1>5. WaterOK'
  BY <1>1, <1>3 DEF WaterOK
<1>6. QED
  BY <1>4, <1>5

LEMMA EndScanFloods ==
    ASSUME WSInv, FrontierOK, WaterOK, EndScan
    PROVE  FrontierOK' /\ WaterOK'
<1>1. /\ pc = "scan" /\ pc' = "flood" /\ i > Len(Raster)
      /\ UNCHANGED <<queue, f, waterline, output, i, level, p, k>>
  BY DEF EndScan
<1>2. \A q \in Point : Past(q)
  <2>1. Raster \in Seq(Point) /\ i \in Nat
    BY WatershedAssumption DEF WSInv, WSTypeOK
  <2>2. \A j \in DOMAIN Raster : j < i
    BY <1>1, <2>1
  <2>3. QED
    BY <2>2, WatershedAssumption DEF Past
<1>3. Waiting' = Waiting
  BY <1>1 DEF Waiting
<1>4. FrontierOK'
  BY <1>1, <1>2, <1>3 DEF FrontierOK
<1>5. WaterOK'
  BY <1>1, <1>3 DEF WaterOK
<1>6. QED
  BY <1>4, <1>5

LEMMA TakeLabeledFloods ==
    ASSUME WSInv, FrontierOK, ReachOK, WaterOK, TakeLabeled
    PROVE  FrontierOK' /\ WaterOK' /\ level' >= level
<1>1. /\ ~waterline /\ TakeTop /\ pc = "flood" /\ pc' = "expand" /\ k' = 1
      /\ waterline' = waterline /\ output' = output /\ f' = f
  BY DEF TakeLabeled, TakeTop
<1>2. /\ p' \in Waiting /\ level' \in Level
      /\ \A r : r \in Waiting' <=> r \in Waiting /\ r # p'
  BY <1>1, TopLeaves DEF WSInv, WSTypeOK
<1>3. Waiting \subseteq Point
  BY DEF Waiting
<1>4. FrontierOK'
  <2> SUFFICES ASSUME NEW q \in Point, output[q] > 0, NEW r \in Around(q), output[r] = 0
               PROVE  \/ q \in Waiting'
                      \/ q = p' /\ \A a \in DOMAIN Nbh[p'] : Nbh[p'][a] = r => a >= 1
    BY <1>1 DEF FrontierOK
  <2>1. q \in Waiting
    BY <1>1 DEF FrontierOK
  <2>2. \A a \in DOMAIN Nbh[q] : a >= 1
    <3>1. Nbh[q] \in Seq(Point \cup Border)
      BY WatershedAssumption
    <3>2. QED
      BY <3>1
  <2>3. QED
    BY <1>2, <2>1, <2>2
<1>5. \A q \in Point : f[q] \in Nat /\ level' \in Nat
  BY <1>2, LevelTyped DEF WSInv, WSTypeOK
<1>6. \A q \in Waiting : level' <= f[q]
  BY <1>1, LowestIsTaken
<1>7. \A q \in Point : output[q] = 0 => level' <= f[q]
  <2> SUFFICES ASSUME NEW q \in Point, output[q] = 0 PROVE level' <= f[q]
    OBVIOUS
  <2>1. PICK r \in Waiting : f[r] <= f[q]
    BY <1>1, LowerWaits
  <2>2. level' <= f[r] /\ r \in Point
    BY <1>3, <1>6
  <2>3. QED
    BY <1>5, <2>1, <2>2
<1>8. WaterOK'
  <2>1. \A q \in Point : q \in Waiting' \/ output'[q] = 0 => f'[q] >= level'
    BY <1>1, <1>2, <1>5, <1>6, <1>7
  <2>2. \A q \in Point : output'[q] >= 0
    BY <1>1 DEF WaterOK
  <2>3. QED
    BY <1>1, <2>1, <2>2 DEF WaterOK
<1>9. level' >= level
  <2>1. PICK l \in Level : IsTopLevel(l) /\ level' = l /\ p' = queue[l][1]
    BY <1>1 DEF TakeTop
  <2>2. f[p'] = level'
    <3>1. queue[l] \in Seq(Point) /\ queue[l] # <<>>
      BY <2>1 DEF IsTopLevel, WSInv, WSTypeOK
    <3>2. 1 \in DOMAIN queue[l]
      BY <3>1
    <3>3. QED
      BY <2>1, <3>2 DEF WSInv, WaitsOnce
  <2>3. f[p'] >= level
    BY <1>1, <1>2, <1>3 DEF WaterOK
  <2>4. QED
    BY <2>2, <2>3
<1>10. QED
  BY <1>4, <1>8, <1>9

LEMMA SpreadFloods ==
    ASSUME WSInv, FrontierOK, WaterOK, Spread, ~waterline
    PROVE  FrontierOK' /\ WaterOK'
<1>1. /\ NextNeighbour /\ N \in Point /\ output[N] = 0 /\ Push(f[N], N)
      /\ output' = [output EXCEPT ![N] = output[p]]
  BY DEF Spread, Untouched
<1>2. /\ pc = "expand" /\ pc' = "expand" /\ p' = p /\ k' = k + 1 /\ k \in Nat \ {0}
      /\ f' = f /\ waterline' = waterline /\ i' = i /\ level' = level
      /\ p \in Point /\ output[p] > 0 /\ DOMAIN Nbh[p] \subseteq Nat
  BY <1>1, NextNeighbourTyped
<1>3. N \notin Waiting
  BY <1>1 DEF WSInv, QueueMarked
<1>4. \A r : r \in Waiting' <=> r \in Waiting \/ r = N
  <2>1. f[N] \in Level /\ queue \in [Level -> Seq(Point)] /\ WaitsOnce
    BY <1>1 DEF WSInv, WSTypeOK
  <2>2. QED
    BY <1>1, <1>2, <1>3, <2>1, PushWaits
<1>5. output'[N] = output[p] /\ \A q \in Point : q # N => output'[q] = output[q]
  BY <1>1 DEF WSInv, WSTypeOK
<1>6. FrontierOK'
  <2> SUFFICES ASSUME NEW q \in Point, output'[q] > 0, NEW r \in Around(q), output'[r] = 0,
                      q \notin Waiting'
               PROVE  q = p /\ \A a \in DOMAIN Nbh[p] : Nbh[p][a] = r => a >= k + 1
    BY <1>2 DEF FrontierOK
  <2>1. q # N /\ q \notin Waiting
    BY <1>4
  <2>2. r \in Point /\ r # N
    BY <1>2, <1>5, AroundIsSymmetric
  <2>3. output[q] > 0 /\ output[r] = 0
    BY <1>5, <2>1, <2>2
  <2>4. q = p /\ \A a \in DOMAIN Nbh[p] : Nbh[p][a] = r => a >= k
    BY <1>2, <2>1, <2>3 DEF FrontierOK
  <2>5. Nbh[p][k] # r
    BY <2>2 DEF N
  <2>6. QED
    BY <1>2, <2>4, <2>5
<1>7. WaterOK'
  <2>1. \A q \in Point : output'[q] >= 0
    BY <1>1, <1>2, <1>5 DEF WaterOK, WSInv, WSTypeOK
  <2>2. \A q \in Point : q \in Waiting' \/ output'[q] = 0 => f[q] >= level
    BY <1>1, <1>2, <1>4, <1>5 DEF WaterOK
  <2>3. QED
    BY <1>2, <2>1, <2>2 DEF WaterOK
<1>8. QED
  BY <1>6, <1>7

LEMMA SkipNeighbourFloods ==
    ASSUME WSInv, FrontierOK, WaterOK, SkipNeighbour
    PROVE  FrontierOK' /\ WaterOK'
<1>1. /\ NextNeighbour /\ ~(N \in Point /\ output[N] = Untouched)
      /\ queue' = queue /\ output' = output
  BY DEF SkipNeighbour
<1>2. /\ pc = "expand" /\ pc' = "expand" /\ p' = p /\ k' = k + 1 /\ k \in Nat \ {0}
      /\ f' = f /\ waterline' = waterline /\ i' = i /\ level' = level
      /\ DOMAIN Nbh[p] \subseteq Nat
  BY <1>1, NextNeighbourTyped
<1>3. Waiting' = Waiting
  BY <1>1 DEF Waiting
<1>4. FrontierOK'
  <2> SUFFICES ASSUME ~waterline, NEW q \in Point, output[q] > 0, NEW r \in Around(q), output[r] = 0,
                      q \notin Waiting
               PROVE  q = p /\ \A a \in DOMAIN Nbh[p] : Nbh[p][a] = r => a >= k + 1
    BY <1>1, <1>2, <1>3 DEF FrontierOK
  <2>1. q = p /\ \A a \in DOMAIN Nbh[p] : Nbh[p][a] = r => a >= k
    BY <1>2 DEF FrontierOK
  <2>2. Nbh[p][k] # r
    BY <1>1, AroundIsSymmetric DEF N, Untouched
  <2>3. QED
    BY <1>2, <2>1, <2>2
<1>5. WaterOK'
  BY <1>1, <1>2, <1>3 DEF WaterOK
<1>6. QED
  BY <1>4, <1>5

LEMMA EndExpandFloods ==
    ASSUME WSInv, FrontierOK, WaterOK, EndExpand
    PROVE  FrontierOK' /\ WaterOK'
<1>1. /\ pc = "expand" /\ pc' = "flood" /\ k > Len(Nbh[p])
      /\ UNCHANGED <<queue, f, waterline, output, i, level, p, k>>
  BY DEF EndExpand
<1>2. p \in Point /\ k \in Nat
  BY DEF WSInv, WSTypeOK
<1>3. \A a \in DOMAIN Nbh[p] : ~(a >= k)
  <2>1. Nbh[p] \in Seq(Point \cup Border)
    BY <1>2, WatershedAssumption
  <2>2. QED
    BY <1>1, <1>2, <2>1
<1>4. Waiting' = Waiting
  BY <1>1 DEF Waiting
<1>5. FrontierOK'
  <2> SUFFICES ASSUME ~waterline, NEW q \in Point, output[q] > 0, NEW r \in Around(q), output[r] = 0,
                      q \notin Waiting
               PROVE  FALSE
    BY <1>1, <1>4 DEF FrontierOK
  <2>1. q = p /\ \A a \in DOMAIN Nbh[p] : Nbh[p][a] = r => a >= k
    BY <1>1 DEF FrontierOK
  <2>2. QED
    BY <1>2, <1>3, <2>1, AroundIsSymmetric
<1>6. WaterOK'
  BY <1>1, <1>4 DEF WaterOK
<1>7. QED
  BY <1>5, <1>6

(* The queue is empty: no pixel is left. *)
LEMMA FinishFloods ==
    ASSUME WSInv, FrontierOK, ReachOK, WaterOK, Finish, ~waterline
    PROVE  FrontierOK' /\ WaterOK'
<1>1. /\ pc = "flood" /\ pc' = "end" /\ AllEmpty /\ output' = output
      /\ UNCHANGED <<queue, f, waterline, i, level, p, k>>
  BY DEF Finish
<1>2. Waiting = {} /\ Waiting' = {}
  BY <1>1 DEF AllEmpty, Waiting
<1>3. \A q \in Point : output[q] > 0
  <2> SUFFICES ASSUME NEW q \in Point PROVE output[q] > 0
    OBVIOUS
  <2>1. output[q] # 0
    BY <1>1, <1>2, LowerWaits
  <2>2. output[q] >= 0 /\ output[q] \in Int
    BY DEF WaterOK, WSInv, WSTypeOK
  <2>3. QED
    BY <2>1, <2>2
<1>4. FrontierOK'
  BY <1>1, <1>2 DEF FrontierOK
<1>5. WaterOK'
  BY <1>1, <1>2, <1>3 DEF WaterOK
<1>6. QED
  BY <1>4, <1>5

LEMMA FloodNext == WSInv /\ FloodInv /\ [WSNext]_vars => FloodInv' /\ (~waterline => level' >= level)
<1> SUFFICES ASSUME WSInv, FloodInv, [WSNext]_vars PROVE FloodInv' /\ (~waterline => level' >= level)
  OBVIOUS
<1>1. BasinsOK /\ FrontierOK /\ ReachOK /\ WaterOK
  BY DEF FloodInv
<1>2. level \in Int
  BY LevelTyped DEF WSInv, WSTypeOK
<1>3. CASE UNCHANGED vars
  <2>1. UNCHANGED <<queue, f, waterline, output, pc, i, level, p, k>>
    BY <1>3 DEF vars
  <2>2. Waiting' = Waiting /\ (\A q : Past(q)' <=> Past(q)) /\ \A q : NotHigher(q)' = NotHigher(q)
    BY <2>1 DEF Waiting, Past, NotHigher
  <2>3. BasinsOK'
    BY <1>1, <2>1, BasinsStay
  <2>4. FrontierOK' /\ ReachOK' /\ WaterOK'
    BY <1>1, <2>1, <2>2 DEF FrontierOK, ReachOK, WaterOK
  <2>5. QED
    BY <1>2, <2>1, <2>3, <2>4 DEF FloodInv
<1>4. CASE WSNext
  <2>1. f' = f /\ waterline' = waterline
    BY <1>4 DEF WSNext, ScanMarker, ScanNextToMarker, ScanFar, ScanFrontier, ScanOther, EndScan,
                LabelPixel, DrawWaterline, TakeLabeled, Spread, SkipNeighbour, EndExpand, Finish,
                NextPixel, TakeTop, NextNeighbour
  <2>2. BasinsOK'
    BY <1>1, <1>4, BasinsNext
  <2>3. ReachOK'
    <3>1. \A q : NotHigher(q)' = NotHigher(q)
      BY <2>1 DEF NotHigher
    <3>2. \A q \in Point : \A r \in Component(NotHigher(q), q, Adjacent) : r \in Point
      <4> SUFFICES ASSUME NEW q \in Point PROVE Component(NotHigher(q), q, Adjacent) \subseteq Point
        OBVIOUS
      <4>1. f[q] \in Int
        BY LevelsAreNat
      <4>2. NotHigher(q) \in SUBSET Point /\ q \in NotHigher(q)
        BY <4>1 DEF NotHigher
      <4>3. IsFiniteSet(NotHigher(q))
        BY <4>2, FS_Subset, PriorityFifoAssumption
      <4>4. QED
        BY <4>2, <4>3, ComponentIs DEF IsComponent
    <3>3. \A r \in Point : output[r] > 0 => output'[r] = output[r]
      BY <1>4, LabelsAreKept
    <3>4. QED
      BY <1>1, <2>1, <3>1, <3>2, <3>3 DEF ReachOK
  <2>4. CASE waterline
    BY <2>1, <2>2, <2>3, <2>4 DEF FloodInv, FrontierOK, WaterOK
  <2>5. CASE ~waterline
    <3>1. CASE TakeLabeled
      BY <1>1, <2>2, <2>3, <3>1, TakeLabeledFloods DEF FloodInv
    <3>2. ASSUME ~TakeLabeled PROVE level' = level
      BY <1>4, <2>5, <3>2
         DEF WSNext, ScanMarker, ScanNextToMarker, ScanFar, ScanFrontier, ScanOther, EndScan,
             LabelPixel, DrawWaterline, Spread, SkipNeighbour, EndExpand, Finish, NextPixel, NextNeighbour
    <3>3. ASSUME ~TakeLabeled PROVE FrontierOK' /\ WaterOK'
      BY <1>1, <1>4, <2>5, <3>3, ScanFrontierFloods, ScanOtherFloods, EndScanFloods, SpreadFloods,
         SkipNeighbourFloods, EndExpandFloods, FinishFloods
         DEF WSNext, ScanMarker, ScanNextToMarker, ScanFar, LabelPixel, DrawWaterline
    <3>4. QED
      BY <1>2, <2>2, <2>3, <3>1, <3>2, <3>3 DEF FloodInv
  <2>6. QED
    BY <2>4, <2>5
<1>5. QED
  BY <1>3, <1>4

LEMMA FloodInvariant == WSSpec => [](WSInv /\ FloodInv)
BY WSInitOK, WSNextOK, FloodInit, FloodNext, PTL DEF WSSpec

(***************************************************************************)
(* Each basin of the result is one connected region and, without           *)
(* waterlines, every pixel is in a basin: from the minima the flooding     *)
(* reaches the whole domain, whatever the order of the pixels of a level.  *)
(***************************************************************************)
THEOREM RegionsFromMarkers == WSSpec => []BasinsAreRegions
<1>1. WSInv /\ FloodInv => BasinsAreRegions
  <2> SUFFICES ASSUME WSInv, FloodInv, pc = "end"
               PROVE  /\ \A lbl \in {output[q] : q \in Point} :
                             lbl > 0 => IsRegion(Labelled(output, lbl))
                      /\ ~waterline => \A q \in Point : output[q] > 0
    BY DEF BasinsAreRegions
  <2>1. ASSUME NEW q \in Point, output[q] > 0 PROVE IsRegion(Labelled(output, output[q]))
    <3>1. output[q] \in Nat \ {0}
      BY <2>1 DEF WSInv, WSTypeOK
    <3>2. Linked(Labelled(output, output[q]))
      BY <3>1 DEF FloodInv, BasinsOK
    <3>3. Labelled(output, output[q]) \subseteq Point
      BY DEF Labelled
    <3>4. QED
      BY <3>2, <3>3, LinkedIsRegion
  <2>2. ~waterline => \A q \in Point : output[q] > 0
    BY DEF FloodInv, WaterOK
  <2>3. QED
    BY <2>1, <2>2
<1>2. QED
  BY <1>1, FloodInvariant, PTL

(***************************************************************************)
(* Without waterlines the flooding is an immersion: the level of the water *)
(* never goes down, though a pixel may be queued below the pixels of its   *)
(* marker, because the minima are all flooded from the start.              *)
(***************************************************************************)
THEOREM WaterNeverFalls == WSSpec => WaterRises
<1>1. WSInv /\ FloodInv /\ [WSNext]_vars => [~waterline => level' >= level]_vars
  BY FloodNext
<1>2. QED
  BY <1>1, FloodInvariant, PTL DEF WSSpec, WaterRises

-----------------------------------------------------------------------------
(* The hierarchical queue: the places of the list of a level. *)
Places(l) == 1 .. Len(queue[l])

(* A point waits at most once: this is what the shared links rely on. *)
Distinct ==
    \A l, m \in Level : \A a \in Places(l), b \in Places(m) :
        queue[l][a] = queue[m][b] => l = m /\ a = b

(* m_current_level is the top level, or the lowest one if all are empty. *)
CurrentOK ==
    /\ \A l \in Level : Before(l, current) => queue[l] = <<>>
    /\ queue[current] = <<>> => current = Bottom

HPInv == HPTypeOK /\ Represents /\ Distinct /\ CurrentOK

(* Two levels are the same or one comes before the other. *)
LEMMA Ordered ==
    /\ Level \subseteq Nat
    /\ \A l, m \in Level : l = m \/ Before(l, m) \/ Before(m, l)
    /\ \A l, m \in Level : ~(Before(l, m) /\ (l = m \/ Before(m, l)))
    /\ \A l, m, n \in Level : Before(l, m) /\ Before(m, n) => Before(l, n)
    /\ Bottom \in Level /\ \A l \in Level : l = Bottom \/ Before(l, Bottom)
<1>1. MaxLevel \in Nat /\ Reversed \in BOOLEAN
  BY PriorityFifoAssumption
<1>2. CASE Reversed
  BY <1>1, <1>2 DEF Level, Before, Bottom
<1>3. CASE ~Reversed
  BY <1>1, <1>3 DEF Level, Before, Bottom
<1>4. QED
  BY <1>2, <1>3

LEMMA QueueTyped ==
    ASSUME HPTypeOK
    PROVE  \A l \in Level : queue[l] \in Seq(Point) /\ Len(queue[l]) \in Nat /\ size[l] \in Nat
<1>1. \A l \in Level : queue[l] \in Seq(Point) /\ size[l] \in Nat
  BY DEF HPTypeOK
<1>2. QED
  BY <1>1

LEMMA HPInitOK == HPInit => HPInv
<1> SUFFICES ASSUME HPInit PROVE HPInv
  OBVIOUS
<1>1. queue = [l \in Level |-> <<>>] /\ size = [l \in Level |-> 0] /\ current = Bottom
  BY DEF HPInit, Init
<1>2. \A l \in Level : queue[l] = <<>> /\ Len(queue[l]) = 0 /\ size[l] = 0
  BY <1>1
<1>3. HPTypeOK
  BY <1>1, Ordered DEF HPInit, HPTypeOK
<1>4. Represents
  BY <1>2 DEF Represents
<1>5. Distinct
  BY <1>2 DEF Distinct, Places
<1>6. CurrentOK
  BY <1>1, <1>2 DEF CurrentOK
<1>7. QED
  BY <1>3, <1>4, <1>5, <1>6 DEF HPInv

-----------------------------------------------------------------------------
(* The lists after a push: q is the last of its list, nothing else moves. *)
LEMMA PushedLists ==
    ASSUME HPInv, NEW l \in Level, NEW q \in Point, push_last(l, q)
    PROVE  /\ queue' \in [Level -> Seq(Point)]
           /\ \A m \in Level : m # l => queue'[m] = queue[m]
           /\ Len(queue'[l]) = Len(queue[l]) + 1
           /\ \A a \in Places(l) : queue'[l][a] = queue[l][a] /\ queue[l][a] \in Point
           /\ queue'[l][Len(queue[l]) + 1] = q
           /\ \A m \in Level : \A a \in Places(m) : queue[m][a] # q /\ queue[m][a] \in Point
<1>1. queue \in [Level -> Seq(Point)] /\ queue' = [queue EXCEPT ![l] = Append(queue[l], q)]
  BY DEF HPInv, HPTypeOK, push_last, PushBack
<1>2. queue'[l] = Append(queue[l], q) /\ queue[l] \in Seq(Point)
  BY <1>1
<1>3. \A m \in Level : \A a \in Places(m) : queue[m][a] \in Point
  BY <1>1 DEF Places
<1>4. q \notin Waiting
  BY DEF push_last
<1>5. \A m \in Level : \A a \in Places(m) : queue[m][a] # q
  <2> SUFFICES ASSUME NEW m \in Level, NEW a \in Places(m), queue[m][a] = q PROVE FALSE
    OBVIOUS
  <2>1. queue[m] \in Seq(Point)
    BY <1>1
  <2>2. a \in DOMAIN queue[m]
    BY <2>1 DEF Places
  <2>3. QED
    BY <1>4, <2>2 DEF Waiting
<1>6. QED
  BY <1>1, <1>2, <1>3, <1>5 DEF Places

LEMMA PushKeeps ==
    ASSUME HPInv, NEW l \in Level, NEW q \in Point, push_last(l, q)
    PROVE  HPInv'
<1> DEFINE n == Len(queue[l])
<1>1. /\ queue' \in [Level -> Seq(Point)]
      /\ \A m \in Level : m # l => queue'[m] = queue[m]
      /\ Len(queue'[l]) = n + 1
      /\ \A a \in 1 .. n : queue'[l][a] = queue[l][a] /\ queue[l][a] \in Point
      /\ queue'[l][n + 1] = q
      /\ \A m \in Level : \A a \in Places(m) : queue[m][a] # q /\ queue[m][a] \in Point
  BY PushedLists DEF Places
<1>2. HPTypeOK /\ Represents /\ Distinct /\ CurrentOK /\ n \in Nat /\ size[l] = n
  BY QueueTyped DEF HPInv, Represents
<1>3. /\ head' = IF size[l] = 0 THEN [head EXCEPT ![l] = q] ELSE head
      /\ link' = IF size[l] = 0 THEN link ELSE [link EXCEPT ![tail[l]] = q]
      /\ tail' = [tail EXCEPT ![l] = q]
      /\ size' = [size EXCEPT ![l] = size[l] + 1]
      /\ current' = IF Before(l, current) THEN l ELSE current
  BY DEF push_last, PushBack
<1>4. HPTypeOK'
  <2>1. head' \in [Level -> Point \cup {Garbage}] /\ tail' \in [Level -> Point \cup {Garbage}]
    BY <1>2, <1>3 DEF HPTypeOK
  <2>2. size' \in [Level -> Nat] /\ current' \in Level
    BY <1>2, <1>3 DEF HPTypeOK
  <2>3. link' \in [Point -> Point \cup {Garbage}]
    BY <1>2, <1>3 DEF HPTypeOK
  <2>4. QED
    BY <1>1, <2>1, <2>2, <2>3 DEF HPTypeOK
<1>5. /\ size'[l] = n + 1 /\ tail'[l] = q
      /\ head'[l] = IF n = 0 THEN q ELSE head[l]
      /\ \A m \in Level : m # l => size'[m] = size[m] /\ head'[m] = head[m] /\ tail'[m] = tail[m]
  BY <1>2, <1>3 DEF HPTypeOK
<1>6. n > 0 => tail[l] = queue[l][n] /\ head[l] = queue[l][1] /\ n \in Places(l)
  BY <1>2 DEF Represents, Places
<1>7. \A r \in Point : link'[r] = IF n > 0 /\ r = queue[l][n] THEN q ELSE link[r]
  BY <1>2, <1>3, <1>6 DEF HPTypeOK
<1>8. Represents'
  <2>1. \A m \in Level : m # l =>
            /\ size'[m] = Len(queue'[m])
            /\ size'[m] > 0 => head'[m] = queue'[m][1] /\ tail'[m] = queue'[m][size'[m]]
            /\ \A a \in 1 .. size'[m] - 1 : link'[queue'[m][a]] = queue'[m][a + 1]
    <3> SUFFICES ASSUME NEW m \in Level, m # l
                 PROVE  /\ size[m] = Len(queue[m])
                        /\ size[m] > 0 => head[m] = queue[m][1] /\ tail[m] = queue[m][size[m]]
                        /\ \A a \in 1 .. size[m] - 1 : link'[queue[m][a]] = queue[m][a + 1]
      BY <1>1, <1>5
    <3>1. \A a \in 1 .. size[m] - 1 : a \in Places(m)
      BY <1>2, QueueTyped DEF Represents, Places
    <3>2. \A a \in 1 .. size[m] - 1 : ~(n > 0 /\ queue[m][a] = queue[l][n])
      BY <1>2, <1>6, <3>1 DEF Distinct
    <3>3. \A a \in 1 .. size[m] - 1 : link'[queue[m][a]] = link[queue[m][a]]
      BY <1>1, <1>7, <3>1, <3>2
    <3>4. QED
      BY <1>2, <3>3 DEF Represents
  <2>2. \A a \in 1 .. n : link'[queue'[l][a]] = queue'[l][a + 1]
    <3> SUFFICES ASSUME NEW a \in 1 .. n PROVE link'[queue[l][a]] = queue'[l][a + 1]
      BY <1>1
    <3>1. a \in Places(l)
      BY DEF Places
    <3>2. CASE a = n
      BY <1>1, <1>2, <1>7, <3>2
    <3>3. CASE a # n
      <4>1. queue[l][a] # queue[l][n]
        BY <1>2, <1>6, <3>1, <3>3 DEF Distinct
      <4>2. link'[queue[l][a]] = link[queue[l][a]]
        BY <1>1, <1>7, <4>1
      <4>3. a \in 1 .. size[l] - 1 /\ a + 1 \in 1 .. n
        BY <1>2, <3>3
      <4>4. QED
        BY <1>1, <1>2, <4>2, <4>3 DEF Represents
    <3>4. QED
      BY <3>2, <3>3
  <2>3. head'[l] = queue'[l][1]
    BY <1>1, <1>2, <1>5, <1>6
  <2>4. /\ size'[l] = Len(queue'[l]) /\ tail'[l] = queue'[l][size'[l]]
        /\ \A a \in 1 .. size'[l] - 1 : a \in 1 .. n
    BY <1>1, <1>2, <1>5
  <2>5. QED
    BY <2>1, <2>2, <2>3, <2>4 DEF Represents
<1>9. Distinct'
  <2>1. \A m \in Level : \A a \in 1 .. Len(queue'[m]) :
            \/ a \in Places(m) /\ queue'[m][a] = queue[m][a] /\ (m = l => a # n + 1)
            \/ m = l /\ a = n + 1 /\ queue'[m][a] = q
    BY <1>1, <1>2 DEF Places
  <2> SUFFICES ASSUME NEW m \in Level, NEW o \in Level,
                      NEW a \in 1 .. Len(queue'[m]), NEW b \in 1 .. Len(queue'[o]),
                      queue'[m][a] = queue'[o][b]
               PROVE  m = o /\ a = b
    BY DEF Distinct, Places
  <2>2. CASE a \in Places(m) /\ queue'[m][a] = queue[m][a] /\ b \in Places(o) /\ queue'[o][b] = queue[o][b]
    <3>1. a \in Places(m) /\ b \in Places(o) /\ queue[m][a] = queue[o][b]
      BY <2>2
    <3>2. QED
      BY <1>2, <3>1 DEF Distinct
  <2>3. \A c \in Level : \A d \in Places(c) : queue[c][d] # q
    BY <1>1
  <2>4. QED
    BY <2>1, <2>2, <2>3
<1>10. CurrentOK'
  <2>1. current \in Level /\ current' \in Level
    BY <1>2, <1>4 DEF HPTypeOK
  <2>2. ~Before(l, current') /\ (Before(l, current) => current' = l)
    BY <1>3, <2>1, Ordered
  <2>3. \A m \in Level : Before(m, current') => m # l /\ queue'[m] = <<>>
    <3> SUFFICES ASSUME NEW m \in Level, Before(m, current') PROVE m # l /\ queue'[m] = <<>>
      OBVIOUS
    <3>1. m # l
      BY <2>2
    <3>2. Before(m, current)
      BY <1>3, <2>1, Ordered
    <3>3. queue[m] = <<>>
      BY <1>2, <3>2 DEF CurrentOK
    <3>4. QED
      BY <1>1, <3>1, <3>3
  <2>4. queue'[l] # <<>>
    BY <1>1, <1>2
  <2>5. queue'[current'] = <<>> => current' = Bottom
    BY <1>1, <1>2, <1>3, <2>1, <2>4 DEF CurrentOK
  <2>6. QED
    BY <2>3, <2>5 DEF CurrentOK, Before, Bottom
<1>11. QED
  BY <1>4, <1>8, <1>9, <1>10 DEF HPInv
-----------------------------------------------------------------------------
(* The lists after a pop: the first point of the current level is gone. *)
LEMMA PoppedLists ==
    ASSUME HPInv, pop
    PROVE  /\ current \in Level /\ size[current] \in Nat \ {0}
           /\ size[current] = Len(queue[current])
           /\ queue' \in [Level -> Seq(Point)]
           /\ \A m \in Level : m # current => queue'[m] = queue[m]
           /\ queue'[current] = Tail(queue[current])
           /\ Len(queue'[current]) = Len(queue[current]) - 1
           /\ \A a \in 1 .. Len(queue[current]) - 1 : queue'[current][a] = queue[current][a + 1]
           /\ \A a \in Places(current) : queue[current][a] \in Point
<1>1. HPTypeOK /\ queue \in [Level -> Seq(Point)] /\ current \in Level
  BY DEF HPInv, HPTypeOK
<1>2. queue' = [queue EXCEPT ![current] = Tail(queue[current])]
  BY DEF pop, PopFront
<1>3. size[current] \in Nat \ {0} /\ size[current] = Len(queue[current])
  BY <1>1, QueueTyped DEF pop, empty, HPInv, Represents
<1>4. queue[current] \in Seq(Point) /\ queue[current] # <<>>
  BY <1>1, <1>3
<1>5. queue'[current] = Tail(queue[current]) /\ \A m \in Level : m # current => queue'[m] = queue[m]
  BY <1>1, <1>2
<1>6. /\ Tail(queue[current]) \in Seq(Point)
      /\ Len(Tail(queue[current])) = Len(queue[current]) - 1
      /\ \A a \in 1 .. Len(queue[current]) - 1 : Tail(queue[current])[a] = queue[current][a + 1]
      /\ \A a \in 1 .. Len(queue[current]) : queue[current][a] \in Point
  BY <1>4
<1>7. QED
  BY <1>1, <1>2, <1>3, <1>5, <1>6 DEF Places

LEMMA PopKeeps ==
    ASSUME HPInv, pop
    PROVE  HPInv'
<1> DEFINE n == Len(queue[current])
<1>1. /\ current \in Level /\ n \in Nat \ {0} /\ size[current] = n
      /\ queue' \in [Level -> Seq(Point)]
      /\ \A m \in Level : m # current => queue'[m] = queue[m]
      /\ Len(queue'[current]) = n - 1
      /\ \A a \in 1 .. n - 1 : queue'[current][a] = queue[current][a + 1]
      /\ \A a \in 1 .. n : queue[current][a] \in Point
  BY PoppedLists DEF Places
<1>2. HPTypeOK /\ Represents /\ Distinct /\ CurrentOK
  BY DEF HPInv
<1>3. /\ head' = [head EXCEPT ![current] = link[head[current]]]
      /\ size' = [size EXCEPT ![current] = size[current] - 1]
      /\ tail' = tail /\ link' = link /\ current' \in Level
  BY DEF pop, PopFront
<1>4. head[current] = queue[current][1] /\ head[current] \in Point
  BY <1>1, <1>2 DEF Represents
<1>5. HPTypeOK'
  <2>1. link[head[current]] \in Point \cup {Garbage}
    BY <1>2, <1>4 DEF HPTypeOK
  <2>2. head' \in [Level -> Point \cup {Garbage}]
    BY <1>2, <1>3, <2>1 DEF HPTypeOK
  <2>3. size' \in [Level -> Nat]
    BY <1>1, <1>2, <1>3 DEF HPTypeOK
  <2>4. QED
    BY <1>1, <1>2, <1>3, <2>2, <2>3 DEF HPTypeOK
<1>6. /\ size'[current] = n - 1 /\ head'[current] = link[head[current]]
      /\ \A m \in Level : m # current => size'[m] = size[m] /\ head'[m] = head[m]
  BY <1>1, <1>2, <1>3 DEF HPTypeOK
<1>7. Represents'
  <2>1. n > 1 => link[queue[current][1]] = queue[current][2]
    BY <1>1, <1>2 DEF Represents
  <2>2. n > 1 => head'[current] = queue'[current][1] /\ tail'[current] = queue'[current][n - 1]
    BY <1>1, <1>2, <1>3, <1>4, <1>6, <2>1 DEF Represents
  <2>3. \A a \in 1 .. n - 2 : link'[queue'[current][a]] = queue'[current][a + 1]
    <3> SUFFICES ASSUME NEW a \in 1 .. n - 2
                 PROVE  link[queue'[current][a]] = queue'[current][a + 1]
      BY <1>3
    <3>1. queue'[current][a] = queue[current][a + 1] /\ queue'[current][a + 1] = queue[current][a + 2]
      <4>1. a \in 1 .. n - 1 /\ a + 1 \in 1 .. n - 1 /\ (a + 1) + 1 = a + 2
        BY <1>1
      <4>2. QED
        BY <1>1, <4>1
    <3>2. a + 1 \in 1 .. size[current] - 1
      BY <1>1
    <3>3. (a + 1) + 1 = a + 2
      BY <1>1
    <3>4. link[queue[current][a + 1]] = queue[current][a + 2]
      BY <1>1, <1>2, <3>2, <3>3 DEF Represents
    <3>5. QED
      BY <3>1, <3>4
  <2>4. \A m \in Level : m # current =>
            /\ size'[m] = Len(queue'[m])
            /\ size'[m] > 0 => head'[m] = queue'[m][1] /\ tail'[m] = queue'[m][size'[m]]
            /\ \A a \in 1 .. size'[m] - 1 : link'[queue'[m][a]] = queue'[m][a + 1]
    BY <1>1, <1>2, <1>3, <1>6 DEF Represents
  <2>5. \A a \in 1 .. size'[current] - 1 : a \in 1 .. n - 2
    BY <1>1, <1>6
  <2>6. size'[current] > 0 => n > 1
    BY <1>1, <1>6
  <2>7. QED
    BY <1>1, <1>6, <2>2, <2>3, <2>4, <2>5, <2>6 DEF Represents
<1>8. Distinct'
  <2>1. \A m \in Level : \A a \in 1 .. Len(queue'[m]) :
            \/ m # current /\ a \in Places(m) /\ queue'[m][a] = queue[m][a]
            \/ m = current /\ a \in Nat /\ a + 1 \in Places(m) /\ queue'[m][a] = queue[m][a + 1]
    BY <1>1 DEF Places
  <2> SUFFICES ASSUME NEW m \in Level, NEW o \in Level,
                      NEW a \in 1 .. Len(queue'[m]), NEW b \in 1 .. Len(queue'[o]),
                      queue'[m][a] = queue'[o][b]
               PROVE  m = o /\ a = b
    BY DEF Distinct, Places
  <2>2. a \in Nat /\ b \in Nat
    OBVIOUS
  <2>3. CASE m # current /\ o # current
    <3>1. a \in Places(m) /\ b \in Places(o) /\ queue[m][a] = queue[o][b]
      BY <2>1, <2>3
    <3>2. QED
      BY <1>2, <3>1 DEF Distinct
  <2>4. CASE m = current /\ o # current
    <3>1. a + 1 \in Places(m) /\ b \in Places(o) /\ queue[m][a + 1] = queue[o][b]
      BY <2>1, <2>4
    <3>2. QED
      BY <1>2, <2>4, <3>1 DEF Distinct
  <2>5. CASE m # current /\ o = current
    <3>1. a \in Places(m) /\ b + 1 \in Places(o) /\ queue[m][a] = queue[o][b + 1]
      BY <2>1, <2>5
    <3>2. QED
      BY <1>2, <2>5, <3>1 DEF Distinct
  <2>6. CASE m = current /\ o = current
    <3>1. a + 1 \in Places(m) /\ b + 1 \in Places(o) /\ queue[m][a + 1] = queue[o][b + 1]
      BY <2>1, <2>6
    <3>2. a + 1 = b + 1
      BY <1>2, <3>1 DEF Distinct
    <3>3. QED
      BY <2>2, <2>6, <3>2
  <2>7. QED
    BY <2>3, <2>4, <2>5, <2>6
<1>9. CurrentOK'
  <2>1. /\ current' = current \/ Before(current, current')
        /\ \A l \in Level : (l = current \/ Before(current, l)) /\ Before(l, current') => size'[l] = 0
        /\ size'[current'] # 0 \/ current' = Bottom
    BY DEF pop
  <2>2. \A l \in Level : size'[l] = 0 <=> queue'[l] = <<>>
    BY <1>1, <1>7 DEF Represents
  <2>3. ASSUME NEW l \in Level, Before(l, current') PROVE queue'[l] = <<>>
    <3>1. CASE Before(l, current)
      <4>1. l # current
        BY <1>1, <3>1, Ordered
      <4>2. QED
        BY <1>1, <1>2, <3>1, <4>1 DEF CurrentOK
    <3>2. CASE ~Before(l, current)
      BY <1>1, <2>1, <2>2, <2>3, <3>2, Ordered
    <3>3. QED
      BY <3>1, <3>2
  <2>4. queue'[current'] = <<>> => current' = Bottom
    BY <1>3, <2>1, <2>2
  <2>5. QED
    BY <2>3, <2>4 DEF CurrentOK, Before, Bottom
<1>10. QED
  BY <1>5, <1>7, <1>8, <1>9 DEF HPInv

LEMMA HPNextOK == HPInv /\ [HPNext]_hpvars => HPInv'
<1> SUFFICES ASSUME HPInv, [HPNext]_hpvars PROVE HPInv'
  OBVIOUS
<1>1. CASE UNCHANGED hpvars
  BY <1>1 DEF HPInv, HPTypeOK, Represents, Distinct, Places, CurrentOK, hpvars, pointers
<1>2. QED
  BY <1>1, PushKeeps, PopKeeps DEF HPNext

LEMMA HPInvariant == HPSpec => []HPInv
BY HPInitOK, HPNextOK, PTL DEF HPSpec

-----------------------------------------------------------------------------
(***************************************************************************)
(* The variables of the queue keep their types: an uninitialised link that *)
(* pop_front may read never escapes as a point.                            *)
(***************************************************************************)
THEOREM HPTypeCorrect == HPSpec => []HPTypeOK
<1>1. HPInv => HPTypeOK
  BY DEF HPInv
<1>2. QED
  BY HPInvariant, <1>1, PTL

(***************************************************************************)
(* The lists threaded through one image of links are never cut or spliced. *)
(***************************************************************************)
THEOREM ListsAreIntact == HPSpec => []Represents
<1>1. HPInv => Represents
  BY DEF HPInv
<1>2. QED
  BY HPInvariant, <1>1, PTL

(* The level kept in m_current_level is the top of the whole queue. *)
LEMMA CurrentIsTopLevel ==
    ASSUME HPInv, queue[current] # <<>>
    PROVE  current \in Level /\ IsTopLevel(current)
           /\ \A l \in Level : IsTopLevel(l) => l = current
<1>1. current \in Level /\ CurrentOK
  BY DEF HPInv, HPTypeOK
<1>2. \A m \in Level : queue[m] # <<>> => m = current \/ Before(current, m)
  BY <1>1, Ordered DEF CurrentOK
<1>3. \A l \in Level : IsTopLevel(l) => l = current
  <2> SUFFICES ASSUME NEW l \in Level, IsTopLevel(l) PROVE l = current
    OBVIOUS
  <2>1. l = current \/ Before(current, l)
    BY <1>2 DEF IsTopLevel
  <2>2. current = l \/ Before(l, current)
    BY <1>1 DEF IsTopLevel
  <2>3. QED
    BY <1>1, <2>1, <2>2, Ordered
<1>4. QED
  BY <1>1, <1>2, <1>3 DEF IsTopLevel

(***************************************************************************)
(* top() and empty() look at one level and answer for all of them.         *)
(***************************************************************************)
THEOREM TopIsCorrect == HPSpec => []TopIsRight
<1>1. ASSUME HPInv PROVE TopIsRight
  <2>1. HPTypeOK /\ Represents /\ CurrentOK /\ current \in Level
    BY <1>1 DEF HPInv, HPTypeOK
  <2>2. \A l \in Level : size[l] = 0 <=> queue[l] = <<>>
    BY <2>1, QueueTyped DEF Represents
  <2>3. empty => AllEmpty
    <3> SUFFICES ASSUME empty, NEW l \in Level PROVE queue[l] = <<>>
      BY DEF AllEmpty
    <3>1. queue[current] = <<>> /\ current = Bottom
      BY <2>1, <2>2 DEF empty, CurrentOK
    <3>2. QED
      BY <2>1, <3>1, Ordered DEF CurrentOK
  <2>4. AllEmpty => empty
    BY <2>1, <2>2 DEF AllEmpty, empty
  <2>5. ~empty => IsTopLevel(current) /\ head[current] = queue[current][1]
    <3> SUFFICES ASSUME ~empty PROVE IsTopLevel(current) /\ head[current] = queue[current][1]
      OBVIOUS
    <3>1. queue[current] # <<>> /\ size[current] > 0
      BY <2>1, <2>2, QueueTyped DEF empty
    <3>2. QED
      BY <1>1, <2>1, <3>1, CurrentIsTopLevel DEF Represents
  <2>6. QED
    BY <2>3, <2>4, <2>5 DEF TopIsRight
<1>2. QED
  BY HPInvariant, <1>1, PTL

(* The list that is read from the head, link after link, is the sequence of *)
(* the points that wait: it is the only function that does it.              *)
LEMMA ListOfIs ==
    ASSUME HPTypeOK, Represents, NEW l \in Level
    PROVE  ListOf(l) = queue[l]
<1> DEFINE n == size[l]
           IsList(v) == v = [a \in 1 .. n |-> IF a = 1 THEN head[l] ELSE link[v[a - 1]]]
           list == CHOOSE v : IsList(v)
<1>1. ListOf(l) = list
  BY DEF ListOf
<1>2. /\ n \in Nat /\ queue[l] \in Seq(Point) /\ n = Len(queue[l])
      /\ n > 0 => head[l] = queue[l][1]
      /\ \A a \in 1 .. n - 1 : link[queue[l][a]] = queue[l][a + 1]
  BY DEF HPTypeOK, Represents
<1>3. queue[l] = [a \in 1 .. n |-> queue[l][a]]
  BY <1>2
<1>4. ASSUME NEW a \in 1 .. n
      PROVE  queue[l][a] = IF a = 1 THEN head[l] ELSE link[queue[l][a - 1]]
  <2>1. CASE a = 1
    BY <1>2, <2>1
  <2>2. CASE a # 1
    <3>1. a - 1 \in 1 .. n - 1 /\ (a - 1) + 1 = a
      BY <1>2, <2>2
    <3>2. QED
      BY <1>2, <2>2, <3>1
  <2>3. QED
    BY <2>1, <2>2
<1> HIDE DEF n
<1>5. IsList(queue[l])
  BY <1>3, <1>4
<1>6. IsList(list)
  <2> HIDE DEF IsList
  <2>1. QED
    BY <1>5
<1> HIDE DEF list
<1>7. list = [a \in 1 .. n |-> list[a]]
      /\ \A a \in 1 .. n : list[a] = IF a = 1 THEN head[l] ELSE link[list[a - 1]]
  <2>1. list = [a \in 1 .. n |-> IF a = 1 THEN head[l] ELSE link[list[a - 1]]]
    BY <1>6
  <2> HIDE DEF IsList
  <2>2. \A a \in 1 .. n : list[a] = IF a = 1 THEN head[l] ELSE link[list[a - 1]]
    BY <2>1
  <2>3. DOMAIN list = 1 .. n /\ list = [a \in DOMAIN list |-> list[a]]
    BY <2>1
  <2>4. QED
    BY <2>2, <2>3
<1> DEFINE T == {a \in Nat : a \in 1 .. n => list[a] = queue[l][a]}
<1>8. 0 \in T
  OBVIOUS
<1>9. ASSUME NEW a \in T PROVE a + 1 \in T
  <2>1. SUFFICES ASSUME a + 1 \in 1 .. n PROVE list[a + 1] = queue[l][a + 1]
    OBVIOUS
  <2>2. a \in Nat /\ (a + 1) - 1 = a
    OBVIOUS
  <2>3. CASE a = 0
    BY <1>4, <1>7, <2>1, <2>3
  <2>4. CASE a # 0
    <3>1. a \in 1 .. n /\ a + 1 # 1
      BY <1>2, <2>1, <2>2, <2>4
    <3>2. list[a] = queue[l][a]
      BY <3>1
    <3>3. list[a + 1] = link[list[a]] /\ queue[l][a + 1] = link[queue[l][a]]
      BY <1>4, <1>7, <2>1, <2>2, <3>1
    <3>4. QED
      BY <3>2, <3>3
  <2>5. QED
    BY <2>3, <2>4
<1> HIDE DEF T
<1>10. T = Nat
  BY <1>8, <1>9, SetOfAllNaturals DEF T
<1>11. \A a \in 1 .. n : list[a] = queue[l][a]
  BY <1>10 DEF T
<1>12. QED
  BY <1>1, <1>3, <1>7, <1>11

(* The lists of all the levels, in a state that the invariant allows. *)
Lists == [l \in Level |-> ListOf(l)]

LEMMA ListsAre == HPInv => Lists = queue
<1> SUFFICES ASSUME HPInv PROVE Lists = queue
  OBVIOUS
<1>1. HPTypeOK /\ Represents /\ queue = [l \in Level |-> queue[l]]
  BY DEF HPInv, HPTypeOK
<1>2. \A l \in Level : ListOf(l) = queue[l]
  BY <1>1, ListOfIs
<1>3. QED
  BY <1>1, <1>2 DEF Lists

(***************************************************************************)
(* The queue with pointers implements the FIFO priority queue, the lists   *)
(* being read from the pointers: in every state of the invariant they are  *)
(* those of the history variable, which an operation changes as promised.  *)
(***************************************************************************)
THEOREM ImplementsPromise == HPSpec => ImplementsFifo
<1> DEFINE Promised == \/ \E l \in Level, q \in Point : Lists' = [Lists EXCEPT ![l] = Append(@, q)]
                       \/ \E l \in Level : /\ Lists[l] # <<>>
                                           /\ \A m \in Level : Lists[m] # <<>> => m = l \/ Before(l, m)
                                           /\ Lists' = [Lists EXCEPT ![l] = Tail(@)]
<1>0. (HPInv => Lists = queue)'
  BY ListsAre, PTL
<1>1. HPInit => Lists = [l \in Level |-> <<>>]
  BY HPInitOK, ListsAre DEF HPInit, Init
<1>2. ASSUME HPInv, HPInv', [HPNext]_hpvars PROVE Promised \/ Lists' = Lists
  <2>1. Lists = queue /\ Lists' = queue'
    BY <1>0, <1>2, ListsAre
  <2> HIDE DEF Lists
  <2>2. ASSUME NEW l \in Level, NEW q \in Point, push_last(l, q) PROVE Promised
    BY <2>1, <2>2 DEF push_last, PushBack
  <2>3. ASSUME pop PROVE Promised
    <3>1. current \in Level /\ queue[current] # <<>>
          /\ queue' = [queue EXCEPT ![current] = Tail(queue[current])]
      BY <1>2, <2>3, PoppedLists DEF pop, PopFront
    <3>2. IsTopLevel(current)
      BY <1>2, <3>1, CurrentIsTopLevel
    <3>3. QED
      BY <2>1, <3>1, <3>2 DEF IsTopLevel
  <2>4. CASE UNCHANGED hpvars
    BY <2>1, <2>4 DEF hpvars
  <2>5. QED
    BY <1>2, <2>2, <2>3, <2>4 DEF HPNext
<1>3. Promised => Promise!Next
  BY DEF Promise!Next, Promise!Push, Promise!Pop, Promise!IsTopLevel, Promise!Before, Promise!Level,
         Before, Level, Lists
<1> HIDE DEF Promised
<1>4. HPInit => Promise!Init
  BY <1>1 DEF Promise!Init, Promise!Level, Level, Lists
<1>5. ASSUME HPInv, HPInv', [HPNext]_hpvars PROVE [Promise!Next]_Lists
  BY <1>2, <1>3, <1>5
<1>6. QED
  BY HPInvariant, <1>4, <1>5, PTL DEF HPSpec, ImplementsFifo, Promise!Spec, Lists
=============================================================================
