-------------------------------- MODULE Blobs --------------------------------
(***************************************************************************)
(* mln::labeling::blobs: the connected components of a binary image are    *)
(* labelled one after the other, each one by a search with a stack.        *)
(***************************************************************************)
EXTENDS Connectivity, SequencesExt

CONSTANTS Point,   \* the pixels of the domain
          Nbh,     \* Nbh[q]: the neighbours of q, in the order nbh(q) yields them
          Raster,  \* the points in the order of a scan of the domain
          LBL_MAX  \* the greatest value of the type of the labels

VARIABLES
    ima,    \* the input image, of Booleans
    out,    \* the labels, 0 at first
    pc,     \* "blobs", "labelled" or "overflow"
    i,      \* the rank of the pixel the scan considers
    stack,  \* the points of the component whose neighbours are not seen yet
    nlabel

p == Raster[i]

BlobsInit ==
    /\ out = [x \in Point |-> 0]
    /\ pc = "blobs"
    /\ i = 1
    /\ stack = <<>>
    /\ nlabel = 0

Scanning == pc = "blobs" /\ stack = <<>> /\ i <= Len(Raster)

Skip ==
    /\ Scanning
    /\ ~ima[p] \/ out[p] > 0
    /\ i' = i + 1
    /\ UNCHANGED <<ima, out, pc, stack, nlabel>>

(* Mutant: the last label is not used. *)
FullTooEarly == nlabel + 1 >= LBL_MAX

(* The exception: LBL_MAX is the label of the extension, and that of the *)
(* last component there may be.                                          *)
Full == nlabel >= LBL_MAX

NewComponent ==
    /\ Scanning
    /\ ima[p] /\ out[p] = 0
    /\ nlabel' = nlabel + 1
    /\ stack' = <<p>>
    /\ IF Full THEN pc' = "overflow" /\ UNCHANGED <<out, i>>
               ELSE out' = [out EXCEPT ![p] = nlabel'] /\ i' = i + 1 /\ UNCHANGED pc
    /\ UNCHANGED ima

(* The elements of s that are in T, in their order. *)
Selected(s, T) ==
    LET kept[m \in 0 .. Len(s)] ==
            IF m = 0 THEN <<>>
            ELSE IF s[m] \in T THEN Append(kept[m - 1], s[m]) ELSE kept[m - 1]
    IN  kept[Len(s)]

(* The neighbours in the extension are out of bounds, or have a label. *)
Visit ==
    /\ pc = "blobs" /\ stack # <<>>
    /\ LET found == Selected(Nbh[Last(stack)], {n \in Point : out[n] = 0 /\ ima[n]})
       IN  /\ out' = [x \in Point |-> IF x \in Range(found) THEN nlabel ELSE out[x]]
           /\ stack' = Front(stack) \o found
    /\ UNCHANGED <<ima, pc, i, nlabel>>

Finish ==
    /\ pc = "blobs" /\ stack = <<>> /\ i > Len(Raster)
    /\ pc' = "labelled"
    /\ UNCHANGED <<ima, out, i, stack, nlabel>>

BlobsNext == Skip \/ NewComponent \/ Visit \/ Finish

-----------------------------------------------------------------------------
Neighbours == {e \in {<<x, y>> : x \in Point, y \in Point} : e[2] \in Range(Nbh[e[1]])}

Components ==
    UNION {{Component(on, x, adj) : x \in on} :
               on \in {{x \in Point : ima[x]}}, adj \in {Neighbours}}

(***************************************************************************)
(* The labels 1 .. nlabel are those of the connected components and of     *)
(* them only, as many as LBL_MAX if need be, though this is the label of   *)
(* the extension; the overflow is detected when there are more, and then   *)
(* only.                                                                   *)
(***************************************************************************)
BlobsAreComponents ==
    /\ pc = "labelled" =>
          {{x \in Point : out[x] = l} : l \in 1 .. nlabel} = Components
    /\ pc = "overflow" => Cardinality(Components) > LBL_MAX
=============================================================================
