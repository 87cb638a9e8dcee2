---------------------------- MODULE ComponentTree ----------------------------
(***************************************************************************)
(* The filters of mln::morpho::component_tree.  A tree is an array of      *)
(* parents, where a parent precedes its children and the root is node 0,   *)
(* with the values of the nodes and the image that maps a point to its     *)
(* node.  A filter rewrites the three in place: nodes that are removed     *)
(* keep their place but are no node's parent and no point's node.          *)
(***************************************************************************)
EXTENDS Integers, FiniteSets, FiniteSetsExt, Functions

CONSTANTS Trees,  \* the trees considered: records with fields parent and values
          Modulus \* the number of values of the value type, an unsigned integer

Strategies == {"MIN", "MAX", "DIRECT", "SUBTRACTIVE", "filter_direct"}

ASSUME TreesAssumption ==
    /\ Modulus \in Nat \ {0}
    /\ \A t \in Trees : LET n == Cardinality(DOMAIN t.parent) - 1 IN
           /\ n \in Nat
           /\ t.parent \in [0 .. n -> -1 .. n]
           /\ t.values \in [0 .. n -> 0 .. Modulus - 1]
           /\ t.parent[0] = -1
           /\ \A j \in 1 .. n : t.parent[j] \in 0 .. j - 1

VARIABLES
    tree,     \* the tree before the filter
    strategy, \* which filter runs
    pred,     \* the predicate of the caller, over the nodes or over their values
    byValue,  \* whether it is over the values the tree has when it is called
    parent,   \* the array of the parents
    values,   \* the array of the values
    nodemap,  \* the node of each point (one point for each node of the tree)
    pass,     \* which nodes are kept, as far as is known
    diff,     \* the differences of value between the nodes and their parents
    pc,       \* "start", "up", "down", "direct", "map" or "end"
    i         \* the node considered

input == <<tree, strategy, pred, byValue>>
vars  == <<input, parent, values, nodemap, pass, diff, pc, i>>

Node == DOMAIN tree.parent
last == Cardinality(Node) - 1
Predicate(id) == IF byValue THEN pred[values[id]] ELSE pred[id]

-----------------------------------------------------------------------------
CTInit ==
    /\ tree \in Trees
    /\ strategy \in Strategies
    /\ byValue \in BOOLEAN
    /\ pred \in IF byValue THEN [0 .. Modulus - 1 -> BOOLEAN] ELSE [Node -> BOOLEAN]
    /\ parent = tree.parent
    /\ values = tree.values
    /\ nodemap = [x \in Node |-> x]
    /\ pass = [x \in Node |-> FALSE]
    /\ diff = [x \in Node |-> 0]
    /\ pc = "start"
    /\ i = 0

StartMax ==
    /\ pc = "start" /\ strategy = "MAX"
    /\ pc' = "up"
    /\ i' = last
    /\ UNCHANGED <<input, parent, values, nodemap, pass, diff>>

(* MAX: a node is kept if it passes or one of its descendants does. *)
PropagateUpward ==
    /\ pc = "up" /\ i > 0
    /\ LET own == [pass EXCEPT ![i] = @ \/ Predicate(i)]
       IN  pass' = [own EXCEPT ![parent[i]] = @ \/ own[i]]
    /\ i' = i - 1
    /\ UNCHANGED <<input, parent, values, nodemap, diff, pc>>

(* The root is its own parent while the nodes are filtered. *)
EnterLoop ==
    /\ parent' = [parent EXCEPT ![0] = 0]
    /\ pc' = "down"
    /\ i' = 1
    /\ UNCHANGED <<input, values, nodemap>>

EndUp ==
    /\ pc = "up" /\ i = 0
    /\ EnterLoop
    /\ UNCHANGED <<pass, diff>>

StartOther ==
    /\ pc = "start" /\ strategy \in {"MIN", "DIRECT", "SUBTRACTIVE"}
    /\ EnterLoop
    /\ pass' = [pass EXCEPT ![0] = TRUE]
    /\ diff' = IF strategy = "SUBTRACTIVE"
               THEN [x \in Node |-> IF x = 0 THEN 0
                                    ELSE (values[x] - values[parent[x]]) % Modulus]
               ELSE diff

(* Mutant: the test is on the node in place of its parent. *)
FilterNodeOnOwnPass(isKept) ==
    LET q == parent[i]
    IN  /\ pc = "down" /\ i <= last
        /\ pass' = [pass EXCEPT ![i] = isKept]
        /\ parent' = [parent EXCEPT ![i] = IF isKept THEN q ELSE parent[q]]
        /\ values' = [values EXCEPT ![i] = IF isKept THEN @ ELSE values[q]]
        /\ i' = i + 1
        /\ UNCHANGED <<input, nodemap, diff, pc>>

(* Mutant: the difference of a removed node is not taken off. *)
FilterNodeWithDifference(isKept) ==
    LET q == parent[i]
    IN  /\ pc = "down" /\ i <= last
        /\ pass' = [pass EXCEPT ![i] = isKept]
        /\ parent' = [parent EXCEPT ![i] = IF pass[q] THEN q ELSE parent[q]]
        /\ values' = [values EXCEPT ![i] =
                         IF strategy = "SUBTRACTIVE"
                         THEN (values[q] + diff[i]) % Modulus
                         ELSE IF isKept THEN @ ELSE values[q]]
        /\ i' = i + 1
        /\ UNCHANGED <<input, nodemap, diff, pc>>

(* A node is attached to its parent if that is kept, otherwise to the parent *)
(* of its parent, which was rewritten before.  A node that is removed takes  *)
(* the value of its parent.                                                  *)
FilterNode(isKept) ==
    LET q == parent[i]
    IN  /\ pc = "down" /\ i <= last
        /\ pass' = [pass EXCEPT ![i] = isKept]
        /\ parent' = [parent EXCEPT ![i] = IF pass[q] THEN q ELSE parent[q]]
        /\ values' = [values EXCEPT ![i] =
                         IF strategy = "SUBTRACTIVE"
                         THEN (values[q] + (IF isKept THEN diff[i] ELSE 0)) % Modulus
                         ELSE IF isKept THEN @ ELSE values[q]]
        /\ i' = i + 1
        /\ UNCHANGED <<input, nodemap, diff, pc>>

FilterDirectly == strategy \in {"DIRECT", "SUBTRACTIVE"} /\ FilterNode(Predicate(i))
FilterMin      == strategy = "MIN" /\ FilterNode(Predicate(i) /\ pass[parent[i]])
FilterMax      == strategy = "MAX" /\ FilterNode(pass[i])

EndDown ==
    /\ pc = "down" /\ i > last
    /\ parent' = [parent EXCEPT ![0] = -1]
    /\ pc' = "map"
    /\ UNCHANGED <<input, values, nodemap, pass, diff, i>>

(* Mutant: the nodes that the rule keeps are confused with those that pass. *)
UpdateNodeMapWithPredicate ==
    /\ pc = "map"
    /\ nodemap' = [x \in Node |-> IF nodemap[x] > 0 /\ ~Predicate(nodemap[x])
                                  THEN parent[nodemap[x]] ELSE nodemap[x]]
    /\ pc' = "end"
    /\ UNCHANGED <<input, parent, values, pass, diff, i>>

(* The points of a removed node go to its new parent.  For two strategies *)
(* the predicate is called again, on the tree as it is now.               *)
UpdateNodeMap ==
    LET stays(id) == IF strategy \in {"DIRECT", "SUBTRACTIVE"} THEN Predicate(id) ELSE pass[id]
    IN  /\ pc = "map"
        /\ nodemap' = [x \in Node |-> IF nodemap[x] > 0 /\ ~stays(nodemap[x])
                                      THEN parent[nodemap[x]] ELSE nodemap[x]]
        /\ pc' = "end"
        /\ UNCHANGED <<input, parent, values, pass, diff, i>>

(* filter_direct: only the parents are rewritten. *)
StartDirect ==
    /\ pc = "start" /\ strategy = "filter_direct"
    /\ pc' = "direct"
    /\ i' = 1
    /\ UNCHANGED <<input, parent, values, nodemap, pass, diff>>

FilterParent ==
    /\ pc = "direct" /\ i <= last
    /\ parent' = [parent EXCEPT ![i] = IF @ > 0 /\ ~Predicate(@) THEN parent[@] ELSE @]
    /\ i' = i + 1
    /\ UNCHANGED <<input, values, nodemap, pass, diff, pc>>

EndDirect ==
    /\ pc = "direct" /\ i > last
    /\ pc' = "end"
    /\ UNCHANGED <<input, parent, values, nodemap, pass, diff, i>>

CTNext ==
    \/ StartMax \/ PropagateUpward \/ EndUp
    \/ StartOther
    \/ FilterDirectly \/ FilterMin \/ FilterMax
    \/ EndDown \/ UpdateNodeMap
    \/ StartDirect \/ FilterParent \/ EndDirect

CTSpec == CTInit /\ [][CTNext]_vars

-----------------------------------------------------------------------------
(* The nodes from j up to the root, in the tree before the filter: the     *)
(* least set that holds j and the parents of its nodes.                    *)
Branch(j) ==
    {a \in Node : \A S \in SUBSET Node :
        j \in S /\ (\A b \in S \ {0} : tree.parent[b] \in S) => a \in S}

(* Whether a node passes in the tree before the filter. *)
Passes(id) == IF byValue THEN pred[tree.values[id]] ELSE pred[id]

(* Which nodes a strategy keeps, the root aside: those that pass and whose   *)
(* ancestors all pass, those with a descendant that passes, those that pass. *)
Kept(j) ==
    CASE strategy = "MIN" -> \A a \in Branch(j) : a = 0 \/ Passes(a)
      [] strategy = "MAX" -> \E d \in Node : Passes(d) /\ j \in Branch(d)
      [] OTHER            -> Passes(j)

(* The closest kept node of a part of a branch. *)
Closest(nodes) == Max({a \in nodes : a = 0 \/ Kept(a)})

(***************************************************************************)
(* From the first node on, and when the filter is over, the parent of a    *)
(* node that was considered is its closest ancestor among the nodes the    *)
(* strategy keeps: the array is rewritten while it is read, and so are the *)
(* values a predicate may look at.                                         *)
(***************************************************************************)
ParentsAreKept ==
    pc \in {"down", "direct", "map", "end"} =>
        \A j \in 1 .. i - 1 : parent[j] = Closest(Branch(j) \ {j})

(* What a node adds to its parent, and the sum of it over the kept nodes of *)
(* a branch.                                                                *)
Contribution ==
    [a \in Node |-> tree.values[a] - (IF a = 0 THEN 0 ELSE tree.values[tree.parent[a]])]

SumOfKept(nodes) == SumFunctionOnSet(Contribution, {a \in nodes : a = 0 \/ Kept(a)})

(***************************************************************************)
(* The values: a node has the value of the closest kept node of its        *)
(* branch or, for the subtractive rule, the sum of the differences of the  *)
(* kept nodes of its branch, though the arithmetic wraps.                  *)
(***************************************************************************)
ValuesAreKept ==
    pc \in {"map", "end"} /\ strategy # "filter_direct" =>
        \A j \in Node :
            values[j] = IF strategy = "SUBTRACTIVE"
                        THEN SumOfKept(Branch(j)) % Modulus
                        ELSE tree.values[Closest(Branch(j))]

(***************************************************************************)
(* The node map: a point is mapped to the closest kept node of its branch. *)
(* For the strategies that call the predicate again, this takes one that   *)
(* does not look at the values.                                            *)
(***************************************************************************)
PointsAreKept ==
    pc = "end" /\ strategy # "filter_direct" /\ (byValue => strategy \in {"MIN", "MAX"}) =>
        \A x \in Node : nodemap[x] = Closest(Branch(x))

(***************************************************************************)
(* What the documentation of filter promises of its node map: it points to *)
(* valid nodes, whatever the predicate.                                    *)
(***************************************************************************)
PointsToValidNodes ==
    pc = "end" /\ strategy # "filter_direct" => \A x \in Node : nodemap[x] = 0 \/ Kept(nodemap[x])
=============================================================================
