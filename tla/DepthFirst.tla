----------------------------- MODULE DepthFirst -----------------------------
(***************************************************************************)
(* The canvas mln::morpho::canvas::depthfirst: the flooding of an image    *)
(* from a start point, a recursion turned into gotos over a hierarchical   *)
(* FIFO queue (hpqueue over hvectors) and an 8-bit status image.  The      *)
(* visitor is left open: whether it answers that a level is already being  *)
(* flooded is a free choice, so what holds here holds for every visitor.   *)
(***************************************************************************)
EXTENDS Integers, Sequences, FiniteSets

CONSTANTS Point,    \* the pixels of the image's domain
          Border,   \* the pixels of its extension
          Nbh,      \* Nbh[p]: the neighbours of p, in the order nbh(p) yields them
          Start,    \* the point the flooding starts from
          MaxLevel, \* the greatest grey level
          Images    \* the images considered

Level == 0 .. MaxLevel

ASSUME DepthFirstAssumption ==
    /\ IsFiniteSet(Point)
    /\ Start \in Point
    /\ MaxLevel \in Nat
    /\ Point \cap Border = {}
    /\ Nbh \in [Point -> Seq(Point \cup Border)]
    /\ \A q \in Point : \A i \in DOMAIN Nbh[q] : Nbh[q][i] # q
    /\ Images \subseteq [Point -> Level]

(* A status is the set of the bits of a uint8_t that are set. *)
StatusBits == 0 .. 7
NONE    == {}
INQUEUE == {0}
DONE    == StatusBits

(* What is left of an int when it is assigned to a uint8_t. *)
ToStatus(s) == s \cap StatusBits

VARIABLES
    f,       \* the image
    status,  \* the status image
    slots,   \* hvectors: for each level, the points written to its bucket
    begin,   \* hvectors: for each level, how many of them have been popped
    cur,     \* hpqueue: m_current_level
    p,       \* the point being processed
    level,   \* current_level
    pstatus, \* the local status word of p (an int)
    k,       \* the rank of the neighbour the scan considers next
    pc,      \* the label reached: "flood", "scan" (keep_flooding) or "end"
    cnt      \* how many times on_done was called for each point

queueVars  == <<slots, begin, cur>>
canvasVars == <<f, status, queueVars, p, level, pstatus, k, pc, cnt>>

-----------------------------------------------------------------------------
(***************************************************************************)
(* The queue.  A bucket is sized by the histogram of the image; its two    *)
(* pointers only advance.                                                  *)
(***************************************************************************)
Capacity(l) == Cardinality({q \in Point : f[q] = l})

IsEmpty(l) == begin[l] = Len(slots[l])

TopPoint == slots[cur][begin[cur] + 1]

Queued == {q \in Point : \E l \in Level : \E i \in begin[l] + 1 .. Len(slots[l]) : slots[l][i] = q}

Push(l, q) ==
    /\ slots' = [slots EXCEPT ![l] = Append(@, q)]
    /\ cur' = IF l > cur THEN l ELSE cur
    /\ begin' = begin

(* m_current_level after a pop: the first level that is not empty on the *)
(* way down from the current one, or 0 when there is none.               *)
GoDown(c) ==
    \/ /\ c \in 0 .. cur
       /\ ~IsEmpty(c)'
       /\ \A l \in c + 1 .. cur : IsEmpty(l)'
    \/ /\ c = 0
       /\ \A l \in 0 .. cur : IsEmpty(l)'

Pop ==
    /\ slots' = slots
    /\ begin' = [begin EXCEPT ![cur] = @ + 1]
    /\ \E c \in 0 .. cur : cur' = c /\ GoDown(c)

-----------------------------------------------------------------------------
Init ==
    /\ f \in Images
    /\ status = [q \in Point |-> IF q = Start THEN INQUEUE ELSE NONE]
    /\ slots = [l \in Level |-> IF l = f[Start] THEN <<Start>> ELSE <<>>]
    /\ begin = [l \in Level |-> 0]
    /\ cur = f[Start]
    /\ p = Start
    /\ level = f[Start]
    /\ pstatus = {}
    /\ k = 1
    /\ pc = "flood"
    /\ cnt = [q \in Point |-> 0]

(* flood: a peak component is entered at p. *)
Flood ==
    /\ pc = "flood"
    /\ pstatus' = {}
    /\ k' = 1
    /\ pc' = "scan"
    /\ UNCHANGED <<f, status, queueVars, p, level, cnt>>

Scanning == pc = "scan" /\ k <= Len(Nbh[p])

(* The neighbour under consideration. *)
N == Nbh[p][k]

(* status.at(n): the extension of the status image is filled with DONE. *)
IsNew(n) == n \in Point /\ status[n] = NONE

(* Mutant: the scan does not advance. *)
SkipStays ==
    /\ Scanning
    /\ k \in pstatus \/ ~IsNew(N)
    /\ UNCHANGED canvasVars

Skip ==
    /\ Scanning
    /\ k \in pstatus \/ ~IsNew(N)
    /\ k' = k + 1
    /\ UNCHANGED <<f, status, queueVars, p, level, pstatus, pc, cnt>>

(* Mutant: the postponed neighbour is not marked. *)
PostponeUnmarked ==
    /\ Scanning
    /\ k \notin pstatus /\ IsNew(N)
    /\ f[N] <= level
    /\ Push(f[N], N)
    /\ pstatus' = pstatus \cup {k}
    /\ k' = k + 1
    /\ UNCHANGED <<f, status, p, level, pc, cnt>>

(* A neighbour that is not higher waits in the queue. *)
Postpone ==
    /\ Scanning
    /\ k \notin pstatus /\ IsNew(N)
    /\ f[N] <= level
    /\ status' = [status EXCEPT ![N] = INQUEUE]
    /\ Push(f[N], N)
    /\ pstatus' = pstatus \cup {k}
    /\ k' = k + 1
    /\ UNCHANGED <<f, p, level, pc, cnt>>

(* Mutants: a neighbour of the same level is flooded at once; the neighbour *)
(* is not marked.                                                           *)
ClimbTo(marked, low) ==
    /\ Scanning
    /\ k \notin pstatus /\ IsNew(N)
    /\ f[N] >= low
    /\ status' = [q \in Point |-> IF q = p THEN ToStatus(pstatus \cup {k})
                                  ELSE IF q \in marked THEN INQUEUE ELSE status[q]]
    /\ Push(f[N], N)
    /\ level' = f[N]
    /\ p' = N
    /\ pc' = "flood"
    /\ UNCHANGED <<f, pstatus, k, cnt>>

ClimbOnEqual == ClimbTo({N}, level)

ClimbUnmarked == ClimbTo({}, level + 1)

(* A higher neighbour is flooded at once; p stays in the queue. *)
Climb ==
    /\ Scanning
    /\ k \notin pstatus /\ IsNew(N)
    /\ f[N] > level
    /\ status' = [status EXCEPT ![N] = INQUEUE, ![p] = ToStatus(pstatus \cup {k})]
    /\ Push(f[N], N)
    /\ level' = f[N]
    /\ p' = N
    /\ pc' = "flood"
    /\ UNCHANGED <<f, pstatus, k, cnt>>

(* Mutant: the last neighbour is not considered. *)
FinishPointEarly ==
    /\ pc = "scan" /\ k >= Len(Nbh[p])
    /\ cnt' = [cnt EXCEPT ![p] = @ + 1]
    /\ Pop
    /\ UNCHANGED <<f, status>>

(* All the neighbours are seen: p is done and leaves the queue. *)
FinishPoint ==
    /\ pc = "scan" /\ k > Len(Nbh[p])
    /\ cnt' = [cnt EXCEPT ![p] = @ + 1]
    /\ Pop
    /\ UNCHANGED <<f, status>>

(* The queue's top is processed next. *)
TakeTop ==
    /\ ~IsEmpty(cur)'
    /\ level' = cur'
    /\ p' = TopPoint'
    /\ pstatus' = status[p']
    /\ k' = 1

(* The component of the current level goes on. *)
DoneSameLevel ==
    /\ FinishPoint
    /\ TakeTop
    /\ level' = level
    /\ pc' = "scan"

(* The component is complete; the flooding goes on at another level, which *)
(* the visitor says is already being flooded or not.                       *)
DoneOtherLevel(hasStarted) ==
    /\ FinishPoint
    /\ TakeTop
    /\ level' # level
    /\ pc' = IF hasStarted THEN "scan" ELSE "flood"

(* The queue is empty: the whole image is processed. *)
DoneLast ==
    /\ FinishPoint
    /\ IsEmpty(cur)'
    /\ pc' = "end"
    /\ UNCHANGED <<p, level, pstatus, k>>

Next ==
    \/ Flood
    \/ Skip
    \/ Postpone
    \/ Climb
    \/ DoneSameLevel
    \/ \E hasStarted \in BOOLEAN : DoneOtherLevel(hasStarted)
    \/ DoneLast

Spec == Init /\ [][Next]_canvasVars /\ WF_canvasVars(Next)

-----------------------------------------------------------------------------
TypeOK ==
    /\ f \in [Point -> Level]
    /\ status \in [Point -> SUBSET StatusBits]
    /\ slots \in [Level -> Seq(Point)]
    /\ begin \in [Level -> Nat]
    /\ cur \in Level
    /\ p \in Point
    /\ level \in Level
    /\ pstatus \in SUBSET Nat
    /\ k \in Nat \ {0}
    /\ pc \in {"flood", "scan", "end"}
    /\ cnt \in [Point -> Nat]

(***************************************************************************)
(* The canvas calls queue.pop() for the point it has just finished without *)
(* looking at what it removes: that point must be the queue's top, though  *)
(* other points were pushed, popped and processed since it was entered.    *)
(***************************************************************************)
CurrentIsTop ==
    pc # "end" => /\ cur = level
                  /\ ~IsEmpty(cur)
                  /\ TopPoint = p

(***************************************************************************)
(* push_back never writes past the end of the bucket hvectors::init cut    *)
(* for the level: the histogram bounds the points ever pushed there.       *)
(***************************************************************************)
BucketsNeverOverflow == \A l \in Level : Len(slots[l]) <= Capacity(l)

(***************************************************************************)
(* on_done is called at most once for a point, as expected by              *)
(* tests/morpho/depthfirst.cpp (all_of(viz.cnt == 1)).                     *)
(***************************************************************************)
DoneOnce == \A q \in Point : cnt[q] <= 1

(***************************************************************************)
(* A level that is resumed from the queue is lower than the one that has   *)
(* just been completed (the assertion of maxtree's on_flood_end).          *)
(***************************************************************************)
OnlyFloodClimbs ==
    [][(\E b \in BOOLEAN : DoneOtherLevel(b)) => level' < level]_canvasVars

(* The canvas implements the flooding it promises. *)
Adjacent == {e \in Point \X Point : \E i \in DOMAIN Nbh[e[1]] : Nbh[e[1]][i] = e[2]}

Peak == INSTANCE PeakFlood WITH
            seen <- {q \in Point : status[q] # NONE},
            finished <- {q \in Point : cnt[q] > 0}

(***************************************************************************)
(* Each step of the canvas discovers a neighbour of an open point,         *)
(* finishes a highest open point whose neighbours are all discovered, or   *)
(* is invisible.                                                           *)
(***************************************************************************)
ImplementsPeakFlood == Peak!Spec

(* The flooding of a finite image terminates. *)
Termination == <>(pc = "end")
=============================================================================
