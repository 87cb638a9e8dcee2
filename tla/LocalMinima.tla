----------------------------- MODULE LocalMinima -----------------------------
(***************************************************************************)
(* mln::labeling::impl::local_minima: the regional minima of an image are  *)
(* found in one scan that links the flat zones with a union-find, and are  *)
(* labelled by a second scan.  The watershed starts from its result.       *)
(***************************************************************************)
EXTENDS UnionFind, Connectivity, Sequences

CONSTANTS Point,         \* the pixels of the domain
          NbhBefore,     \* NbhBefore[p]: the neighbours that nbh.before(p) yields
          Raster,        \* the points in the order of a scan of the domain
          Precedes(_, _),\* operator< of the points
          cmp(_, _),     \* the order of the levels: less for the minima
          Images,        \* the images considered
          Nowhere        \* what a point of the parent image holds before it is written

IsBefore(a, b) == \E r \in DOMAIN NbhBefore[b] : NbhBefore[b][r] = a

Adjacent == {e \in {<<x, y>> : x \in Point, y \in Point} :
                 IsBefore(e[1], e[2]) \/ IsBefore(e[2], e[1])}

Values == UNION {{im[x] : x \in Point} : im \in Images}

(* The levels are weakly ordered, and the neighbours that nbh.before yields *)
(* are those that the scan has met.                                         *)
ASSUME LocalMinimaAssumption ==
    /\ Raster \in Seq(Point) /\ Raster # <<>>
    /\ \A x \in Point : \E a \in DOMAIN Raster : Raster[a] = x
    /\ \A a, b \in DOMAIN Raster : Precedes(Raster[a], Raster[b]) <=> a < b
    /\ \A x \in Point : /\ DOMAIN NbhBefore[x] = 1 .. Len(NbhBefore[x])
                        /\ Len(NbhBefore[x]) \in Nat
                        /\ \A y \in Point : IsBefore(y, x) => Precedes(y, x)
    /\ \A u, v \in Values : ~(cmp(u, v) /\ cmp(v, u))
    /\ \A u, v, w \in Values :
           ~cmp(u, v) /\ ~cmp(v, u) /\ ~cmp(v, w) /\ ~cmp(w, v) => ~cmp(u, w)

kUnseen == -1

VARIABLES
    f,        \* the input image
    output,   \* -1, then whether the point may be in a minimum (0 or 1), then the labels
    parent,   \* the forest of the flat zones
    pc,       \* "scan", "label" or "end"
    i,        \* the rank of the pixel considered
    k,        \* the rank of the neighbour considered
    root,     \* the root of the zone of the pixel
    possible, \* is_possible_minimum
    n_label

vars == <<f, output, parent, pc, i, k, root, possible, n_label>>

p == Raster[i]
q == NbhBefore[p][k]

Flag(b) == IF b THEN 1 ELSE 0

-----------------------------------------------------------------------------
Init ==
    /\ f \in Images
    /\ output = [x \in Point |-> kUnseen]
    /\ parent = [x \in Point |-> Nowhere]
    /\ pc = "scan"
    /\ i = 1
    /\ k = 1
    /\ root = Raster[1]
    /\ possible = TRUE
    /\ n_label = 0

NextNeighbour ==
    /\ pc = "scan" /\ k <= Len(NbhBefore[p])
    /\ k' = k + 1
    /\ UNCHANGED <<f, pc, i, n_label>>

Seen == q \in Point /\ output[q] # kUnseen

ScanExtension ==
    /\ NextNeighbour
    /\ ~Seen
    /\ UNCHANGED <<output, parent, root, possible>>

(* A lower neighbour: p is not in a minimum. *)
ScanLower ==
    /\ NextNeighbour
    /\ Seen /\ cmp(f[q], f[p])
    /\ possible' = FALSE
    /\ UNCHANGED <<output, parent, root>>

(* A higher neighbour: its zone is not a minimum. *)
ScanHigher ==
    /\ NextNeighbour
    /\ Seen /\ cmp(f[p], f[q])
    /\ output' = [output EXCEPT ![zfindroot(parent, q)] = 0]
    /\ parent' = Compressed(parent, q)
    /\ UNCHANGED <<root, possible>>

(* A neighbour of the same level: the two zones are linked under the root *)
(* that comes first.                                                      *)
ScanFlat ==
    /\ NextNeighbour
    /\ Seen /\ ~cmp(f[q], f[p]) /\ ~cmp(f[p], f[q])
    /\ LET q_root == zfindroot(parent, q)
           first  == IF Precedes(q_root, root) THEN q_root ELSE root
           second == IF Precedes(q_root, root) THEN root ELSE q_root
       IN  IF q_root = root
           THEN parent' = Compressed(parent, q) /\ UNCHANGED <<root, possible>>
           ELSE /\ possible' = (possible /\ output[q_root] # 0)
                /\ parent' = [Compressed(parent, q) EXCEPT ![second] = first]
                /\ root' = first
    /\ UNCHANGED output

(* Mutant: the flag of the root is left alone. *)
EndPixelOwnFlag ==
    /\ pc = "scan" /\ k > Len(NbhBefore[p])
    /\ parent' = [parent EXCEPT ![p] = root]
    /\ output' = [output EXCEPT ![p] = Flag(possible)]
    /\ k' = 1
    /\ possible' = TRUE
    /\ IF i < Len(Raster) THEN i' = i + 1 /\ root' = Raster[i + 1] /\ UNCHANGED pc
                          ELSE i' = 1 /\ root' = root /\ pc' = "label"
    /\ UNCHANGED <<f, n_label>>

(* All the neighbours are seen: the pixel joins its zone, whose root keeps *)
(* the flag, and the scan moves on.                                        *)
EndPixel ==
    /\ pc = "scan" /\ k > Len(NbhBefore[p])
    /\ parent' = [parent EXCEPT ![p] = root]
    /\ output' = [output EXCEPT ![p] = Flag(possible), ![root] = Flag(possible)]
    /\ k' = 1
    /\ possible' = TRUE
    /\ IF i < Len(Raster) THEN i' = i + 1 /\ root' = Raster[i + 1] /\ UNCHANGED pc
                          ELSE i' = 1 /\ root' = root /\ pc' = "label"
    /\ UNCHANGED <<f, n_label>>

-----------------------------------------------------------------------------
NextLabel ==
    /\ pc = "label"
    /\ IF i < Len(Raster) THEN i' = i + 1 /\ UNCHANGED pc
                          ELSE i' = i /\ pc' = "end"
    /\ UNCHANGED <<f, k, root, possible>>

LabelNone ==
    /\ NextLabel
    /\ output[p] = 0
    /\ UNCHANGED <<output, parent, n_label>>

(* The root of a minimum: it is met before the other points of its zone. *)
LabelRoot ==
    /\ NextLabel
    /\ output[p] # 0 /\ p = parent[p]
    /\ n_label' = n_label + 1
    /\ output' = [output EXCEPT ![p] = n_label + 1]
    /\ UNCHANGED parent

(* The flag of a point that is not a root may be stale: the root's decides. *)
LabelOther ==
    /\ NextLabel
    /\ output[p] # 0 /\ p # parent[p]
    /\ output' = [output EXCEPT ![p] = output[zfindroot(parent, p)]]
    /\ parent' = Compressed(parent, p)
    /\ UNCHANGED n_label

Next ==
    \/ ScanExtension \/ ScanLower \/ ScanHigher \/ ScanFlat
    \/ EndPixel
    \/ LabelNone \/ LabelRoot \/ LabelOther

Spec == Init /\ [][Next]_vars

-----------------------------------------------------------------------------
(* The flat zone of x among the points of S, and whether it is a minimum of *)
(* S; adj is Adjacent, evaluated once.                                      *)
ZoneOf(x, S, adj) == Component({y \in S : ~cmp(f[x], f[y]) /\ ~cmp(f[y], f[x])}, x, adj)

IsMinimum(zone, S, adj) ==
    \A e \in adj : e[1] \in zone /\ e[2] \in S => ~cmp(f[e[2]], f[e[1]])

(***************************************************************************)
(* The result: exactly the points of the regional minima have a label, two *)
(* points have the same one iff they are in the same minimum, and the      *)
(* labels are 1 .. n_label.  It is what the flooding of the watershed      *)
(* takes for granted.                                                      *)
(***************************************************************************)
LabelsAreMinima ==
    pc = "end" =>
        /\ {output[x] : x \in Point} \ {0} = 1 .. n_label
        /\ \E adj \in {Adjacent} : \A x \in Point :
              \E zone \in {ZoneOf(x, Point, adj)} :
                IF IsMinimum(zone, Point, adj)
                THEN output[x] # 0 /\ \A y \in Point : output[y] = output[x] <=> y \in zone
                ELSE output[x] = 0
=============================================================================
