-------------------------- MODULE MCTiledDilation --------------------------
(***************************************************************************)
(* The dilations that are checked: images of a few pixels, with tiles that *)
(* do not divide them, so that the last ones are cut, and both executions. *)
(***************************************************************************)
EXTENDS TiledDilation

Job(in, out, tw, th, se) == [in : {in}, out : {out}, tw : {tw}, th : {th}, se : {se}, parallel : BOOLEAN]

(* The whole image, padded. *)
Whole(w, h, tw, th, se) == Job(Box(0, 0, w, h), Box(0, 0, w, h), tw, th, se)

(* Boxes of two directions, of one and of a single point; lines that are     *)
(* longer than the image, or than a tile; discs that decompose into lines,   *)
(* with one that is larger than the image, and one that does not; an image   *)
(* that is larger than its output, where nothing is padded.                  *)
MCJobs == UNION {
    Whole(4, 2, 2, 1, Rect(3, 3)),
    Whole(3, 3, 2, 2, Rect(2, 1)),
    Whole(3, 2, 2, 2, Rect(1, 1)),
    Whole(9, 1, 9, 1, Rect(7, 1)),
    Whole(1, 9, 1, 4, Rect(1, 5)),
    Whole(4, 4, 4, 2, Disc(3, FALSE)),
    Whole(3, 2, 2, 2, Disc(11, FALSE)),
    Whole(4, 3, 3, 2, Disc(2, TRUE)),
    Job(Box(-1, -1, 6, 4), Box(0, 0, 4, 2), 2, 2, Rect(3, 3))}
=============================================================================
