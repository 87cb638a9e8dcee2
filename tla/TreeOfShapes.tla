---------------------------- MODULE TreeOfShapes ----------------------------
(***************************************************************************)
(* mln::morpho::tos: an image is immersed in a grid twice as large, whose  *)
(* faces hold intervals of values; a front is propagated from a point and  *)
(* gives each face a depth; the max-tree of the depths is the tree of the  *)
(* shapes.  mln::morpho::mtos (module MultivariateShapes) calls it for     *)
(* three channels and for the map of the depths of their shapes: inputs is *)
(* the sequence of the images it is called on.                             *)
(***************************************************************************)
EXTENDS Integers, Sequences, FiniteSetsExt, Functions

CONSTANTS Nbh(_),    \* the neighbours of a face, in the order nbh(p) yields them
          MaxLevel,  \* the greatest value of an image
          Inputs     \* the sequences of images considered, each with its start point

Level == 0 .. MaxLevel

UNPROCESSED == -1
PROCESSED   == 0

VARIABLES
    inputs,         \* the images, of which the last one may be computed on the way
    pstart,         \* the point the propagation starts from
    c,              \* the rank of the image considered
    stage,          \* "immerse", "pop", "visit", "maxtree" or "tos_end", or what mtos adds
    inf, sup,       \* the interval of each face
    ord,            \* -1, 0 for a face that waits, then the depth of each face
    lists,          \* pset: for each level, the stack of the faces that wait
    previous_level, \* the level of the last front
    cur_level,      \* the level of the front
    p,              \* the face that is visited
    depth,
    depth2lvl,      \* the level at each depth (of depth d at rank d + 1)
    trees           \* the trees computed: [parent, values, node_map]

propagationVars ==
    <<stage, inf, sup, ord, lists, previous_level, cur_level, p, depth, depth2lvl>>

tosVars == <<inputs, pstart, c, propagationVars, trees>>

Faces == DOMAIN ord

(* The elements of s that are in S, in the order of s. *)
Among(s, S) ==
    LET kept[a \in 0 .. Len(s)] ==
            IF a = 0 THEN <<>>
            ELSE IF s[a] \in S THEN Append(kept[a - 1], s[a]) ELSE kept[a - 1]
    IN  kept[Len(s)]

(* The region of S that is connected to q. *)
Region(S, q) ==
    LET spread[e \in (SUBSET S) \X (SUBSET S)] ==
            IF e[2] = {} THEN e[1]
            ELSE UNION {spread[<<e[1] \cup next, next>>] :
                            next \in {(S \cap UNION {Range(Nbh(o)) : o \in e[2]}) \ e[1]}}
    IN  spread[<<{q}, {q}>>]

-----------------------------------------------------------------------------
(***************************************************************************)
(* The immersion: a face between two, or four, pixels holds the interval   *)
(* of their values.                                                        *)
(***************************************************************************)
Doubled(box) ==
    LET last == CHOOSE b \in box : \A a \in box : a[1] <= b[1] /\ a[2] <= b[2]
    IN  {<<x, y>> : x \in 0 .. 2 * last[1], y \in 0 .. 2 * last[2]}

(* A box of pixels, the origin first. *)
IsOrigined(box) == \E q \in box : box = (0 .. q[1]) \X (0 .. q[2])

(* The neighbours of a face are distinct and others, and link all the faces. *)
IsNeighbourhood(faces) ==
    \A q \in faces : /\ Nbh(q) \in Seq(Int \X Int) /\ IsInjective(Nbh(q))
                     /\ q \notin Range(Nbh(q))
                     /\ Region(faces, q) = faces

ASSUME TosAssumption ==
    /\ MaxLevel \in Nat
    /\ \A input \in Inputs :
          \E box \in {DOMAIN input.images[1]} :
             /\ IsOrigined(box)
             /\ input.images \in Seq([box -> Level])
             /\ input.start \in Doubled(box)
    /\ \A box \in {DOMAIN input.images[1] : input \in Inputs} :
          IsNeighbourhood(Doubled(box)) /\ IsNeighbourhood(Doubled(Doubled(box)))

Around(q) == {<<x, y>> : x \in {q[1] \div 2, (q[1] + 1) \div 2},
                         y \in {q[2] \div 2, (q[2] + 1) \div 2}}

Immersion ==
    /\ inf' = [q \in Doubled(DOMAIN inputs[c]) |-> Min({inputs[c][r] : r \in Around(q)})]
    /\ sup' = [q \in Doubled(DOMAIN inputs[c]) |-> Max({inputs[c][r] : r \in Around(q)})]

-----------------------------------------------------------------------------
(* pset over hvectors_unbounded: one stack of faces for each level. *)

QueueEmpty == \A l \in Level : lists[l] = <<>>

PushFront(stacks, l, q) == [stacks EXCEPT ![l] = Append(@, q)]

(* The first level from l up that is not empty, or else the first one down. *)
ClosestLevel(l) ==
    LET waiting == {m \in Level : lists[m] # <<>>}
        above   == {m \in waiting : m >= l}
    IN  IF above # {} THEN Min(above) ELSE Max(waiting)

-----------------------------------------------------------------------------
Init ==
    /\ \E input \in Inputs : inputs = input.images /\ pstart = input.start
    /\ c = 1
    /\ stage = "immerse"
    /\ inf = <<>> /\ sup = <<>> /\ ord = <<>>
    /\ lists = [l \in Level |-> <<>>]
    /\ previous_level = 0
    /\ cur_level = 0
    /\ p = pstart
    /\ depth = 0
    /\ depth2lvl = <<>>
    /\ trees = <<>>

(* The immersion and the beginning of the propagation. *)
Immerse ==
    /\ stage = "immerse"
    /\ Immersion
    /\ ord' = [q \in DOMAIN inf' |-> UNPROCESSED]
    /\ previous_level' = inf'[pstart]
    /\ lists' = PushFront(lists, inf'[pstart], pstart)
    /\ depth' = 0
    /\ depth2lvl' = <<inf'[pstart]>>
    /\ stage' = "pop"
    /\ UNCHANGED <<inputs, pstart, c, cur_level, p, trees>>

PopFace ==
    /\ stage = "pop" /\ ~QueueEmpty
    /\ \E l \in {ClosestLevel(previous_level)} :
          /\ cur_level' = l
          /\ p' = lists[l][Len(lists[l])]
          /\ lists' = [lists EXCEPT ![l] = SubSeq(@, 1, Len(@) - 1)]
          /\ IF l # previous_level THEN depth' = depth + 1 /\ depth2lvl' = Append(depth2lvl, l)
                                   ELSE UNCHANGED <<depth, depth2lvl>>
    /\ stage' = "visit"
    /\ UNCHANGED <<inputs, pstart, c, inf, sup, ord, previous_level, trees>>

(* The neighbours that are not processed; the extension of ord is.  A face  *)
(* whose interval holds the level of the front is at this level.            *)
Fresh == Among(Nbh(p), {q \in Faces : ord[q] = UNPROCESSED})

AtLevel(q) == inf[q] <= cur_level /\ cur_level <= sup[q]

(* Mutant: the lowest one. *)
LowestLevelFor(q) == inf[q]

(* The level at which a neighbour waits: the closest one of its interval. *)
LevelFor(q) == IF sup[q] < cur_level THEN sup[q]
               ELSE IF cur_level < inf[q] THEN inf[q] ELSE cur_level

(* Mutant: the faces that are put in the queue are not marked. *)
DepthOnly(waiting) == [q \in Faces |-> IF q = p THEN depth ELSE ord[q]]

(* p gets its depth and the faces put in the queue are marked. *)
Marked(waiting) ==
    [q \in Faces |-> IF q = p THEN depth ELSE IF q \in Range(waiting) THEN PROCESSED ELSE ord[q]]

(***************************************************************************)
(* One round of the inner loop: p gets its depth and its neighbours wait,  *)
(* but for the first one that is at the level of the front, which is       *)
(* visited next and is not marked before that.                             *)
(***************************************************************************)
VisitFace ==
    /\ stage = "visit"
    /\ \E stay \in {Among(Fresh, {q \in Faces : AtLevel(q)})} :
       \E wait \in {Among(Fresh, IF stay = <<>> THEN Faces ELSE Faces \ {stay[1]})} :
          /\ ord' = Marked(wait)
          /\ lists' = [l \in Level |-> lists[l] \o Among(wait, {q \in Faces : LevelFor(q) = l})]
          /\ IF stay # <<>>
             THEN p' = stay[1] /\ UNCHANGED <<stage, previous_level>>
             ELSE p' = p /\ stage' = "pop" /\ previous_level' = cur_level
    /\ UNCHANGED <<inputs, pstart, c, inf, sup, cur_level, depth, depth2lvl, trees>>

EndPropagation ==
    /\ stage = "pop" /\ QueueEmpty
    /\ stage' = "maxtree"
    /\ UNCHANGED <<inputs, pstart, c, inf, sup, ord, lists, previous_level, cur_level, p,
                   depth, depth2lvl, trees>>

-----------------------------------------------------------------------------
(***************************************************************************)
(* What module MaxTree gives for the depths: a node for each peak          *)
(* component, the parents first.  The nodes are numbered by increasing     *)
(* depth, and in the order of the faces within a depth.                    *)
(***************************************************************************)
MaxTreeOfDepths ==
    LET rank(q)    == q[2] * Cardinality(Faces) + q[1]
        key        == [q \in Faces |->
                          <<ord[q], Min({rank(r) : r \in {s \in Region({t \in Faces : ord[t] >= ord[q]}, q) :
                                                             ord[s] = ord[q]}})>>]
        first(a, b) == a[1] < b[1] \/ (a[1] = b[1] /\ a[2] < b[2])
    IN  UNION {
        LET id       == [k \in Range(keys) |-> Cardinality({j \in Range(keys) : first(j, k)})]
            nodes    == 0 .. Cardinality(Range(keys)) - 1
            face(n)  == CHOOSE q \in Faces : id[keys[q]] = n
            rim(n)   == LET peak == Region({t \in Faces : ord[t] >= ord[face(n)]}, face(n))
                        IN  (Faces \cap UNION {Range(Nbh(o)) : o \in peak}) \ peak
            above(n) == CHOOSE q \in rim(n) : \A r \in rim(n) : ord[r] <= ord[q]
        IN  {[parent   |-> [n \in nodes |-> IF rim(n) = {} THEN -1 ELSE id[keys[above(n)]]],
              values   |-> [n \in nodes |-> depth2lvl[ord[face(n)] + 1]],
              node_map |-> [q \in Faces |-> id[keys[q]]]]} : keys \in {key}}

(* The max-tree of the depths, with the levels in the place of the depths. *)
EndTos ==
    /\ stage = "maxtree"
    /\ \E tree \in MaxTreeOfDepths : trees' = Append(trees, tree)
    /\ stage' = "tos_end"
    /\ UNCHANGED <<inputs, pstart, c, inf, sup, ord, lists, previous_level, cur_level, p,
                   depth, depth2lvl>>

TosNext == Immerse \/ PopFace \/ VisitFace \/ EndPropagation \/ EndTos

-----------------------------------------------------------------------------
(***************************************************************************)
(* The level of a face that has its depth is a value of its interval, and  *)
(* a face waits at a value of its interval, in one place, until it gets    *)
(* its depth, though the front moves on and the next face is not marked.   *)
(***************************************************************************)
Waiting(l) == Range(lists[l])

FrontIsSound ==
    stage \in {"pop", "visit"} =>
        /\ \A l \in Level, m \in Level :
             /\ \A q \in Waiting(l) : inf[q] <= l /\ l <= sup[q]
             /\ l # m => Waiting(l) \cap Waiting(m) = {}
        /\ \A l \in Level : Cardinality(Waiting(l)) = Len(lists[l])
        /\ stage = "visit" => /\ AtLevel(p) /\ depth2lvl[depth + 1] = cur_level
                           /\ \A l \in Level : p \notin Waiting(l)
        /\ \A q \in Faces : ord[q] > PROCESSED =>
             /\ \A l \in Level : q \notin Waiting(l)
             /\ inf[q] <= depth2lvl[ord[q] + 1] /\ depth2lvl[ord[q] + 1] <= sup[q]

(* The saturation of a set of faces: what cannot be reached from the start. *)
Saturation(S) == IF pstart \in S THEN Faces ELSE Faces \ Region(Faces \ S, pstart)

Components(S) == {Region(S, q) : q \in S}

(***************************************************************************)
(* An image without saddles: the values of the two diagonals of a square   *)
(* of pixels have intervals that meet.  (On a saddle the face between the  *)
(* four pixels joins both diagonals.)                                      *)
(***************************************************************************)
WellComposed(f) ==
    \A r \in DOMAIN f :
        LET right == <<r[1] + 1, r[2]>>
            below == <<r[1], r[2] + 1>>
            other == <<r[1] + 1, r[2] + 1>>
        IN  other \in DOMAIN f =>
                /\ Min({f[r], f[other]}) <= Max({f[right], f[below]})
                /\ Min({f[right], f[below]}) <= Max({f[r], f[other]})

(***************************************************************************)
(* The regions above the depths of their faces are the shapes: the         *)
(* saturations of the components of the faces that are below, or above, a  *)
(* level.                                                                  *)
(***************************************************************************)
Shapes ==
    {Saturation(C) : C \in UNION {Components({q \in Faces : sup[q] < l}) \cup
                                  Components({q \in Faces : inf[q] >= l}) : l \in 0 .. MaxLevel + 1}}

DepthsAreShapes ==
    stage = "maxtree" /\ WellComposed(inputs[c]) =>
        {Region({r \in Faces : ord[r] >= ord[q]}, q) : q \in Faces} = Shapes \cup {Faces}
=============================================================================
