------------------------------ MODULE Watershed ------------------------------
(***************************************************************************)
(* mln::morpho::watershed: the flooding of an image from labelled markers, *)
(* with waterlines (impl::watershed) or without (watershed_partition).     *)
(* The markers are the regional minima labelled by labeling::local_minima, *)
(* or the seeds labelled by labeling::blobs.                               *)
(***************************************************************************)
EXTENDS PriorityFifo, Connectivity

CONSTANTS Border, \* the pixels of the extension of the output
          Nbh,    \* Nbh[q]: the neighbours of q, in the order nbh(q) yields them
          Raster, \* the points in the order of a scan of the domain
          Images, \* the images considered
          Markers(_, _) \* the labelled markers of an image, with waterlines or not

Adjacent == {e \in Point \X Point : \E i \in DOMAIN Nbh[e[1]] : Nbh[e[1]][i] = e[2]}

ASSUME WatershedAssumption ==
    /\ Reversed = TRUE
    /\ Point \cap Border = {}
    /\ Nbh \in [Point -> Seq(Point \cup Border)]
    /\ \A e \in Adjacent : e[1] # e[2] /\ <<e[2], e[1]>> \in Adjacent
    /\ Raster \in Seq(Point)
    /\ \A q \in Point : \E i \in DOMAIN Raster : Raster[i] = q
    /\ \A i, j \in DOMAIN Raster : Raster[i] = Raster[j] => i = j

(* What the labelling of the markers guarantees.  A marker is a region, and *)
(* two markers that touch are the same one; without waterlines the markers  *)
(* are the regional minima, one of which is reached from any pixel without  *)
(* going up.                                                                *)
IsRegion(S) == \A q \in S : Component(S, q, Adjacent) = S

Labelled(out, lbl) == {q \in Point : out[q] = lbl}

ASSUME MarkersAssumption ==
    /\ Images \subseteq [Point -> Level]
    /\ \A im \in Images, w \in BOOLEAN : \A m \in Markers(im, w) :
           /\ m \in [Point -> Nat]
           /\ \A e \in Adjacent : m[e[1]] > 0 /\ m[e[2]] > 0 => m[e[1]] = m[e[2]]
           /\ \A lbl \in {m[q] : q \in Point} \ {0} : IsRegion(Labelled(m, lbl))
           /\ ~w => \A q \in Point :
                        \E r \in Component({o \in Point : im[o] <= im[q]}, q, Adjacent) : m[r] > 0

(* The values of the output that are not labels of basins. *)
kUnlabeled == -2
kInqueue   == -1
kWaterline == 0

VARIABLES
    f,         \* the input image
    waterline, \* which of the two implementations runs
    output,    \* the labels, markers at first
    pc,        \* "scan", "flood", "expand" or "end"
    i,         \* the rank of the pixel the initial scan considers
    level, p,  \* the last pair taken from the queue
    k          \* the rank of the neighbour of p considered next

vars == <<queue, f, waterline, output, pc, i, level, p, k>>

Around(q) == {r \in Point : <<q, r>> \in Adjacent}

Labels(q) == {output[r] : r \in {r \in Around(q) : output[r] > 0}}

-----------------------------------------------------------------------------
WSInit ==
    /\ Init
    /\ f \in Images
    /\ waterline \in BOOLEAN
    /\ output \in Markers(f, waterline)
    /\ pc = "scan"
    /\ i = 1
    /\ level = 0
    /\ p \in Point /\ p = Raster[1]
    /\ k = 1

(* The initial scan. *)

Scanned == Raster[i]

NextPixel ==
    /\ pc = "scan" /\ i <= Len(Raster)
    /\ i' = i + 1
    /\ UNCHANGED <<f, waterline, pc, level, p, k>>

(* With waterlines: a pixel next to a marker is queued, another one that is *)
(* not a marker is unlabelled.                                             *)
ScanMarker ==
    /\ waterline
    /\ NextPixel
    /\ output[Scanned] # 0
    /\ UNCHANGED <<queue, output>>

(* Mutant: the pixel is not queued. *)
ScanForgets ==
    /\ waterline
    /\ NextPixel
    /\ output[Scanned] = 0 /\ Labels(Scanned) # {}
    /\ output' = [output EXCEPT ![Scanned] = kUnlabeled]
    /\ UNCHANGED queue

ScanNextToMarker ==
    /\ waterline
    /\ NextPixel
    /\ output[Scanned] = 0 /\ Labels(Scanned) # {}
    /\ output' = [output EXCEPT ![Scanned] = kInqueue]
    /\ Push(f[Scanned], Scanned)

ScanFar ==
    /\ waterline
    /\ NextPixel
    /\ output[Scanned] = 0 /\ Labels(Scanned) = {}
    /\ output' = [output EXCEPT ![Scanned] = kUnlabeled]
    /\ UNCHANGED queue

(* Mutant: the test of the neighbours is inverted. *)
HasLabeledNeighbour(q) == \E r \in Around(q) : output[r] # 0

(* Without: the markers that have something to flood are queued. *)
HasUnlabeledNeighbour(q) == \E r \in Around(q) : output[r] = 0

ScanFrontier ==
    /\ ~waterline
    /\ NextPixel
    /\ output[Scanned] > 0 /\ HasUnlabeledNeighbour(Scanned)
    /\ Push(f[Scanned], Scanned)
    /\ UNCHANGED output

ScanOther ==
    /\ ~waterline
    /\ NextPixel
    /\ ~(output[Scanned] > 0 /\ HasUnlabeledNeighbour(Scanned))
    /\ UNCHANGED <<queue, output>>

EndScan ==
    /\ pc = "scan" /\ i > Len(Raster)
    /\ pc' = "flood"
    /\ UNCHANGED <<queue, f, waterline, output, i, level, p, k>>

-----------------------------------------------------------------------------
(* The flooding: the lowest pixel, the oldest of its level, leaves the queue. *)

TakeTop ==
    /\ pc = "flood"
    /\ \E l \in Level : IsTopLevel(l) /\ level' = l /\ p' = queue[l][1]
    /\ Pop
    /\ UNCHANGED <<f, waterline, i>>

(* Mutant: any label around is taken. *)
LabelPixelWithAny ==
    /\ waterline
    /\ TakeTop
    /\ \E lbl \in Labels(p') : output' = [output EXCEPT ![p'] = lbl]
    /\ pc' = "expand"
    /\ k' = 1

(* It belongs to the only basin around it. *)
LabelPixel ==
    /\ waterline
    /\ TakeTop
    /\ \E lbl \in Labels(p') :
          /\ Labels(p') = {lbl}
          /\ output' = [output EXCEPT ![p'] = lbl]
    /\ pc' = "expand"
    /\ k' = 1

(* Mutant: a line is drawn whatever the number of basins around. *)
DrawWaterlineAlways ==
    /\ waterline
    /\ TakeTop
    /\ output' = [output EXCEPT ![p'] = kWaterline]
    /\ UNCHANGED <<pc, k>>

(* Several basins meet: it is on a waterline. *)
DrawWaterline ==
    /\ waterline
    /\ TakeTop
    /\ \A lbl \in Labels(p') : Labels(p') # {lbl}
    /\ output' = [output EXCEPT ![p'] = kWaterline]
    /\ UNCHANGED <<pc, k>>

(* Without waterlines the pixels in the queue are labelled already. *)
TakeLabeled ==
    /\ ~waterline
    /\ TakeTop
    /\ pc' = "expand"
    /\ k' = 1
    /\ UNCHANGED output

(* The neighbours of a labelled pixel that were never queued join the queue. *)

N == Nbh[p][k]

NextNeighbour ==
    /\ pc = "expand" /\ k <= Len(Nbh[p])
    /\ k' = k + 1
    /\ UNCHANGED <<f, waterline, pc, i, level, p>>

Untouched == IF waterline THEN kUnlabeled ELSE 0

(* Mutant: a neighbour that is labelled is taken again. *)
SpreadOverwrites ==
    /\ NextNeighbour
    /\ N \in Point
    /\ output' = [output EXCEPT ![N] = IF waterline THEN kInqueue ELSE output[p]]
    /\ Push(f[N], N)

Spread ==
    /\ NextNeighbour
    /\ N \in Point /\ output[N] = Untouched
    /\ output' = [output EXCEPT ![N] = IF waterline THEN kInqueue ELSE output[p]]
    /\ Push(f[N], N)

(* Mutant: the scan does not advance. *)
SkipNeighbourStays ==
    /\ pc = "expand" /\ k <= Len(Nbh[p])
    /\ ~(N \in Point /\ output[N] = Untouched)
    /\ UNCHANGED vars

SkipNeighbour ==
    /\ NextNeighbour
    /\ ~(N \in Point /\ output[N] = Untouched)
    /\ UNCHANGED <<queue, output>>

EndExpand ==
    /\ pc = "expand" /\ k > Len(Nbh[p])
    /\ pc' = "flood"
    /\ UNCHANGED <<queue, f, waterline, output, i, level, p, k>>

(* The queue is empty: what was never reached is left to the waterlines. *)
Finish ==
    /\ pc = "flood" /\ AllEmpty
    /\ output' = IF waterline
                 THEN [q \in Point |-> IF output[q] < 0 THEN kWaterline ELSE output[q]]
                 ELSE output
    /\ pc' = "end"
    /\ UNCHANGED <<queue, f, waterline, i, level, p, k>>

WSNext ==
    \/ ScanMarker \/ ScanNextToMarker \/ ScanFar
    \/ ScanFrontier \/ ScanOther
    \/ EndScan
    \/ LabelPixel \/ DrawWaterline \/ TakeLabeled
    \/ Spread \/ SkipNeighbour
    \/ EndExpand
    \/ Finish

WSSpec == WSInit /\ [][WSNext]_vars /\ WF_vars(WSNext)

-----------------------------------------------------------------------------
WSTypeOK ==
    /\ queue \in [Level -> Seq(Point)]
    /\ f \in [Point -> Level]
    /\ waterline \in BOOLEAN
    /\ output \in [Point -> Int]
    /\ \A q \in Point : output[q] >= kUnlabeled
    /\ pc \in {"scan", "flood", "expand", "end"}
    /\ i \in Nat \ {0}
    /\ level \in Level
    /\ p \in Point
    /\ k \in Nat \ {0}

(***************************************************************************)
(* The watershed lines separate: two adjacent pixels never carry the       *)
(* labels of two different basins, at any time of the flooding.            *)
(***************************************************************************)
Separation ==
    waterline => \A e \in Adjacent :
                     output[e[1]] > 0 /\ output[e[2]] > 0 => output[e[1]] = output[e[2]]

(***************************************************************************)
(* A pixel waits at most once in the queue, at its own level: the lists    *)
(* share one image of links and a second push would corrupt them.          *)
(***************************************************************************)
WaitsOnce ==
    \A l, m \in Level : \A a \in DOMAIN queue[l], b \in DOMAIN queue[m] :
        /\ f[queue[l][a]] = l
        /\ queue[l][a] = queue[m][b] => l = m /\ a = b

(***************************************************************************)
(* With waterlines, the pixels marked in queue are the pixels in the queue *)
(* (the assertion of the flooding loop) and each one touches a basin.      *)
(***************************************************************************)
InqueueMarksQueue ==
    waterline /\ pc # "end" =>
        /\ \A q \in Point : output[q] = kInqueue <=> q \in Waiting
        /\ \A q \in Waiting : Labels(q) # {}

(***************************************************************************)
(* Between two pixels of the flooding, a pixel next to a basin is never    *)
(* forgotten: it is labelled, on a line, or in the queue.                  *)
(***************************************************************************)
NothingForgotten ==
    pc \in {"flood", "end"} /\ waterline =>
        \A q \in Point : output[q] = kUnlabeled => Labels(q) = {}

(***************************************************************************)
(* In the result a pixel of the lines either separates two basins or       *)
(* touches none (it is enclosed by other lines).                           *)
(***************************************************************************)
LinesSeparate ==
    pc = "end" /\ waterline =>
        \A q \in Point : output[q] = kWaterline => \A lbl \in Labels(q) : Labels(q) # {lbl}

(***************************************************************************)
(* A label is for ever: no step changes the label of a pixel of a basin,   *)
(* the pixels of the markers included.                                     *)
(***************************************************************************)
LabelsAreFinal == [][\A q \in Point : output[q] > 0 => output'[q] = output[q]]_vars

(***************************************************************************)
(* In the result each basin is one connected region, whatever the order    *)
(* its pixels were reached in, and without waterlines the basins cover the *)
(* domain.                                                                 *)
(***************************************************************************)
BasinsAreRegions ==
    pc = "end" => /\ \A lbl \in {output[q] : q \in Point} : lbl > 0 => IsRegion(Labelled(output, lbl))
                  /\ ~waterline => \A q \in Point : output[q] > 0

(***************************************************************************)
(* Without waterlines the flooding is an immersion: from the minima, the   *)
(* water never comes back to a level lower than one it has reached.        *)
(***************************************************************************)
WaterRises == [][~waterline => level' >= level]_vars

(* The flooding terminates. *)
Termination == <>(pc = "end")
=============================================================================
