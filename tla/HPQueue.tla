------------------------------- MODULE HPQueue -------------------------------
(***************************************************************************)
(* mln::morpho::detail::hpqueue over hlinked_lists: one list per level,    *)
(* all threaded through a single image of links, and the level of the top  *)
(* kept in m_current_level.  The variable queue of PriorityFifo is a       *)
(* history variable here: it records what each list should hold, level by  *)
(* level, and never decides what an operation does.                        *)
(***************************************************************************)
EXTENDS PriorityFifo

CONSTANT Garbage \* what an uninitialised point holds

ASSUME GarbageAssumption == Garbage \notin Point

VARIABLES
    head,   \* m_lists[l].head
    tail,   \* m_lists[l].tail
    size,   \* m_lists[l].size
    link,   \* m_next
    current \* m_current_level

pointers == <<head, tail, size, link, current>>
hpvars == <<queue, pointers>>

(* The lowest priority: where m_current_level starts and where pop stops. *)
Bottom == IF Reversed THEN MaxLevel ELSE 0

empty == size[current] = 0

HPInit ==
    /\ Init
    /\ head = [l \in Level |-> Garbage]
    /\ tail = [l \in Level |-> Garbage]
    /\ size = [l \in Level |-> 0]
    /\ link = [q \in Point |-> Garbage]
    /\ current = Bottom

(* Mutant: the tail of a list that is not empty is not moved. *)
PushBackKeepsTail(l, q) ==
    /\ queue' = [queue EXCEPT ![l] = Append(@, q)]
    /\ head' = IF size[l] = 0 THEN [head EXCEPT ![l] = q] ELSE head
    /\ link' = IF size[l] = 0 THEN link ELSE [link EXCEPT ![tail[l]] = q]
    /\ tail' = IF size[l] = 0 THEN [tail EXCEPT ![l] = q] ELSE tail
    /\ size' = [size EXCEPT ![l] = @ + 1]

(* Mutant: the point enters at the front, as push_front does. *)
PushBackInFront(l, q) ==
    /\ queue' = [queue EXCEPT ![l] = Append(@, q)]
    /\ head' = [head EXCEPT ![l] = q]
    /\ link' = IF size[l] = 0 THEN link ELSE [link EXCEPT ![q] = head[l]]
    /\ tail' = IF size[l] = 0 THEN [tail EXCEPT ![l] = q] ELSE tail
    /\ size' = [size EXCEPT ![l] = @ + 1]

(* push_back of the list of a level. *)
PushBack(l, q) ==
    /\ queue' = [queue EXCEPT ![l] = Append(@, q)]
    /\ head' = IF size[l] = 0 THEN [head EXCEPT ![l] = q] ELSE head
    /\ link' = IF size[l] = 0 THEN link ELSE [link EXCEPT ![tail[l]] = q]
    /\ tail' = [tail EXCEPT ![l] = q]
    /\ size' = [size EXCEPT ![l] = @ + 1]

(* pop_front: the link of the last point of a list is read though it may  *)
(* never have been written.                                               *)
PopFront(l) ==
    /\ queue' = [queue EXCEPT ![l] = Tail(@)]
    /\ head' = [head EXCEPT ![l] = link[head[l]]]
    /\ size' = [size EXCEPT ![l] = @ - 1]
    /\ UNCHANGED <<tail, link>>

(* Mutant: the current level is not raised. *)
PushKeepsLevel(l, q) ==
    /\ q \notin Waiting
    /\ PushBack(l, q)
    /\ current' = current

(* The clients mark a point before they push it: a point that waits in the *)
(* queue is never pushed again.                                            *)
push_last(l, q) ==
    /\ q \notin Waiting
    /\ PushBack(l, q)
    /\ current' = IF Before(l, current) THEN l ELSE current

(* pop: the front of the current level goes, then the levels are scanned   *)
(* from the current one until one is not empty or there is no other.       *)
pop ==
    /\ ~empty
    /\ PopFront(current)
    /\ current' \in Level
    /\ current' = current \/ Before(current, current')
    /\ \A l \in Level :
           (l = current \/ Before(current, l)) /\ Before(l, current') => size'[l] = 0
    /\ size'[current'] # 0 \/ current' = Bottom

HPNext == \/ \E l \in Level, q \in Point : push_last(l, q)
          \/ pop

HPSpec == HPInit /\ [][HPNext]_hpvars

-----------------------------------------------------------------------------
HPTypeOK ==
    /\ queue \in [Level -> Seq(Point)]
    /\ head \in [Level -> Point \cup {Garbage}]
    /\ tail \in [Level -> Point \cup {Garbage}]
    /\ size \in [Level -> Nat]
    /\ link \in [Point -> Point \cup {Garbage}]
    /\ current \in Level

(***************************************************************************)
(* The pointers represent the queue: the list of a level has its points in *)
(* order and, though all lists share the image of links and links are      *)
(* never reset, no list is cut or spliced into another.                    *)
(***************************************************************************)
Represents ==
    \A l \in Level :
        /\ size[l] = Len(queue[l])
        /\ size[l] > 0 => /\ head[l] = queue[l][1]
                          /\ tail[l] = queue[l][size[l]]
        /\ \A i \in 1 .. size[l] - 1 : link[queue[l][i]] = queue[l][i + 1]

(***************************************************************************)
(* top() and empty(), which only look at m_current_level, answer for the   *)
(* whole queue.                                                            *)
(***************************************************************************)
TopIsRight ==
    /\ empty <=> AllEmpty
    /\ ~empty => IsTopLevel(current) /\ head[current] = queue[current][1]

(* The points of a level, as the pointers give them to who follows the     *)
(* links from the head, one for each point that the size counts.           *)
ListOf(l) ==
    LET at[i \in 1 .. size[l]] == IF i = 1 THEN head[l] ELSE link[at[i - 1]]
    IN  at

(***************************************************************************)
(* The queue with pointers implements the promised one.  The lists are     *)
(* those the pointers give, not the ones the history variable remembers:   *)
(* an operation on a level changes the list of that level at one end, and  *)
(* leaves those of the other levels, which share the links, as they were;  *)
(* the point that a pop takes is the oldest one of the top level.          *)
(***************************************************************************)
Promise == INSTANCE PriorityFifo WITH queue <- [l \in Level |-> ListOf(l)]
ImplementsFifo == Promise!Spec
=============================================================================
