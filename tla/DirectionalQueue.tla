-------------------------- MODULE DirectionalQueue --------------------------
(***************************************************************************)
(* mln::morpho::details::directional_hqueue: for each direction of the     *)
(* neighbourhood, and for each level, a stack of the points whose edge in  *)
(* this direction has this weight (hvectors_unbounded).  The direction and *)
(* the level of the next edge are cached.                                  *)
(***************************************************************************)
EXTENDS Integers, SequencesExt

CONSTANTS NDir,    \* the number of directions
          NLevels  \* the number of levels

(* An empty queue; the cached level is not initialised, and not read. *)
EmptyHQueue ==
    [cells |-> [d \in 1 .. NDir |-> [l \in 0 .. NLevels - 1 |-> <<>>]],
     dir |-> 0, level |-> 0, size |-> 0]

(* push_front, with the update of the cache. *)
Insert(hq, d, w, x) ==
    LET lower == hq.size = 0 \/ w < hq.level
    IN  [cells |-> [hq.cells EXCEPT ![d][w] = Append(@, x)],
         dir   |-> IF lower THEN d ELSE hq.dir,
         level |-> IF lower THEN w ELSE hq.level,
         size  |-> hq.size + 1]

FrontPoint(hq) == Last(hq.cells[hq.dir][hq.level])

(* The first level from l whose stack is not empty, NLevels if there is none. *)
LowerBound(lists, l) ==
    CHOOSE m \in l .. NLevels :
        /\ m = NLevels \/ lists[m] # <<>>
        /\ \A n \in l .. m - 1 : lists[n] = <<>>

(* Mutant: the directions are searched from the level that follows. *)
PopFrontNextLevel(hq) ==
    LET cells  == [hq.cells EXCEPT ![hq.dir][hq.level] = Front(@)]
        low(d) == LowerBound(cells[d], hq.level + 1)
        best   == CHOOSE d \in 1 .. NDir :
                      /\ \A e \in 1 .. NDir : low(d) <= low(e)
                      /\ \A e \in 1 .. d - 1 : low(d) < low(e)
        moves  == hq.size > 1 /\ cells[hq.dir][hq.level] = <<>>
    IN  [cells |-> cells,
         dir   |-> IF moves THEN best ELSE hq.dir,
         level |-> IF moves THEN low(best) ELSE hq.level,
         size  |-> hq.size - 1]

(* When the stack is exhausted, the next one is that of the lowest level,  *)
(* in the first direction that has it.                                     *)
PopFront(hq) ==
    LET cells  == [hq.cells EXCEPT ![hq.dir][hq.level] = Front(@)]
        low(d) == LowerBound(cells[d], hq.level)
        best   == CHOOSE d \in 1 .. NDir :
                      /\ \A e \in 1 .. NDir : low(d) <= low(e)
                      /\ \A e \in 1 .. d - 1 : low(d) < low(e)
        moves  == hq.size > 1 /\ cells[hq.dir][hq.level] = <<>>
    IN  [cells |-> cells,
         dir   |-> IF moves THEN best ELSE hq.dir,
         level |-> IF moves THEN low(best) ELSE hq.level,
         size  |-> hq.size - 1]
=============================================================================
