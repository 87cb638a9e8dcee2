-------------------------- MODULE ComponentTreeProofs --------------------------
(***************************************************************************)
(* The filters of a component tree are run in place: proofs that they give *)
(* what the same filter gives on a copy, for every tree, predicate and     *)
(* number of values.  Then proofs about the trees that mtos computes and   *)
(* fuses: the propagation that gives the faces their depths is sound, and  *)
(* the map of the depths holds the lengths of the longest chains of the    *)
(* shapes of the channels, for every image.                                *)
(***************************************************************************)
EXTENDS ComponentTree, MultivariateShapes, DataLemmas

-----------------------------------------------------------------------------
(* The tree before the filter. *)

LEMMA TreeShape ==
    ASSUME tree \in Trees
    PROVE  /\ Modulus \in Nat \ {0}
           /\ last \in Nat /\ Node = 0 .. last
           /\ tree.parent \in [Node -> -1 .. last] /\ tree.values \in [Node -> 0 .. Modulus - 1]
           /\ tree.parent[0] = -1
           /\ \A j \in 1 .. last : tree.parent[j] \in 0 .. j - 1
<1> DEFINE n == Cardinality(DOMAIN tree.parent) - 1
<1>1. /\ n \in Nat
      /\ tree.parent \in [0 .. n -> -1 .. n] /\ tree.values \in [0 .. n -> 0 .. Modulus - 1]
      /\ tree.parent[0] = -1
      /\ \A j \in 1 .. n : tree.parent[j] \in 0 .. j - 1
  BY TreesAssumption
<1>2. last = n
  BY DEF last, Node
<1> HIDE DEF n
<1>3. Node = 0 .. n
  BY <1>1 DEF Node
<1>4. QED
  BY <1>1, <1>2, <1>3, TreesAssumption

(* A branch is a node, then the branch of its parent; it goes down to the   *)
(* root through nodes that were created before.                             *)
LEMMA BranchHasNode ==
    ASSUME tree \in Trees, NEW j \in Node
    PROVE  j \in Branch(j) /\ \A b \in Branch(j) \ {0} : tree.parent[b] \in Branch(j)
<1>1. ASSUME NEW b \in Branch(j) \ {0} PROVE tree.parent[b] \in Branch(j)
  <2>1. b \in 1 .. last
    BY TreeShape DEF Branch
  <2>2. tree.parent[b] \in Node
    BY <2>1, TreeShape
  <2>3. QED
    BY <2>2 DEF Branch
<1>2. QED
  BY <1>1 DEF Branch

LEMMA BranchIsLeast ==
    ASSUME tree \in Trees, NEW j \in Node, NEW S \in SUBSET Node,
           j \in S, \A b \in S \ {0} : tree.parent[b] \in S
    PROVE  Branch(j) \subseteq S
BY DEF Branch

LEMMA BranchBelow ==
    ASSUME tree \in Trees, NEW j \in Node
    PROVE  Branch(j) \subseteq 0 .. j
<1>1. 0 .. j \in SUBSET Node /\ j \in 0 .. j
  BY TreeShape
<1>2. ASSUME NEW b \in (0 .. j) \ {0} PROVE tree.parent[b] \in 0 .. j
  <2>1. b \in 1 .. last /\ j \in Int
    BY TreeShape
  <2>2. QED
    BY <2>1, TreeShape
<1>3. QED
  BY <1>1, <1>2, BranchIsLeast

LEMMA BranchStep ==
    ASSUME tree \in Trees, NEW j \in 1 .. last
    PROVE  /\ tree.parent[j] \in Node /\ j \in Node
           /\ Branch(j) = {j} \cup Branch(tree.parent[j])
           /\ Branch(j) \ {j} = Branch(tree.parent[j])
           /\ j \notin Branch(tree.parent[j])
<1> DEFINE q == tree.parent[j]
<1>1. q \in 0 .. j - 1 /\ q \in Node /\ j \in Node /\ j # 0
  BY TreeShape
<1> HIDE DEF q
<1>2. Branch(q) \subseteq 0 .. q
  BY <1>1, BranchBelow
<1>3. j \notin Branch(q)
  BY <1>1, <1>2
<1>4. Branch(j) \subseteq {j} \cup Branch(q)
  <2>1. {j} \cup Branch(q) \in SUBSET Node
    BY <1>1 DEF Branch
  <2>2. ASSUME NEW b \in ({j} \cup Branch(q)) \ {0} PROVE tree.parent[b] \in {j} \cup Branch(q)
    BY <1>1, BranchHasNode DEF q
  <2>3. QED
    BY <1>1, <2>1, <2>2, BranchIsLeast
<1>5. {j} \cup Branch(q) \subseteq Branch(j)
  <2>1. j \in Branch(j) /\ q \in Branch(j)
    BY <1>1, BranchHasNode DEF q
  <2>2. Branch(j) \in SUBSET Node
    BY DEF Branch
  <2>3. Branch(q) \subseteq Branch(j)
    BY <1>1, <2>1, <2>2, BranchHasNode, BranchIsLeast
  <2>4. QED
    BY <2>1, <2>3
<1>6. QED
  BY <1>1, <1>3, <1>4, <1>5 DEF q

LEMMA BranchOfRoot ==
    ASSUME tree \in Trees
    PROVE  0 \in Node /\ Branch(0) = {0}
<1>1. 0 \in Node
  BY TreeShape
<1>2. Branch(0) \subseteq 0 .. 0
  BY <1>1, BranchBelow
<1>3. QED
  BY <1>1, <1>2, BranchHasNode

-----------------------------------------------------------------------------
(* Which nodes are kept: what each strategy knows of a node from its parent *)
(* or from its children.                                                    *)

LEMMA KeptMin ==
    ASSUME tree \in Trees, strategy = "MIN", NEW j \in 1 .. last
    PROVE  Kept(j) <=> Passes(j) /\ (tree.parent[j] = 0 \/ Kept(tree.parent[j]))
<1> DEFINE q == tree.parent[j]
<1>1. Kept(j) <=> \A a \in Branch(j) : a = 0 \/ Passes(a)
  BY DEF Kept
<1>2. Kept(q) <=> \A a \in Branch(q) : a = 0 \/ Passes(a)
  BY DEF Kept
<1>3. Branch(j) = {j} \cup Branch(q) /\ j # 0
  BY BranchStep
<1>4. Branch(0) = {0}
  BY BranchOfRoot
<1> HIDE DEF q
<1>5. QED
  BY <1>1, <1>2, <1>3, <1>4 DEF q

LEMMA KeptMax ==
    ASSUME tree \in Trees, strategy = "MAX", NEW j \in Node
    PROVE  Kept(j) <=> Passes(j) \/ \E ch \in 1 .. last : tree.parent[ch] = j /\ Kept(ch)
<1>1. \A a : Kept(a) <=> \E d \in Node : Passes(d) /\ a \in Branch(d)
  BY DEF Kept
<1>2. ASSUME NEW d \in Node, Passes(d), j \in Branch(d), d # j
      PROVE  \E ch \in 1 .. last : tree.parent[ch] = j /\ Kept(ch)
  <2> DEFINE S == {a \in Branch(d) : a = d \/ \E ch \in Branch(d) \ {0} : tree.parent[ch] = a}
  <2>1. S \in SUBSET Node
    BY DEF Branch
  <2>2. d \in S
    BY BranchHasNode
  <2>3. \A b \in S \ {0} : tree.parent[b] \in S
    BY BranchHasNode
  <2> HIDE DEF S
  <2>4. j \in S
    BY <1>2, <2>1, <2>2, <2>3, BranchIsLeast
  <2>5. PICK ch \in Branch(d) \ {0} : tree.parent[ch] = j
    BY <1>2, <2>4 DEF S
  <2>6. ch \in 1 .. last
    BY TreeShape DEF Branch
  <2>7. QED
    BY <1>1, <1>2, <2>5, <2>6
<1>3. ASSUME NEW ch \in 1 .. last, tree.parent[ch] = j, Kept(ch)
      PROVE  Kept(j)
  <2>1. PICK d \in Node : Passes(d) /\ ch \in Branch(d)
    BY <1>1, <1>3
  <2>2. j \in Branch(d)
    BY <1>3, <2>1, BranchHasNode
  <2>3. QED
    BY <1>1, <2>1, <2>2
<1>4. ASSUME Passes(j) PROVE Kept(j)
  BY <1>1, <1>4, BranchHasNode
<1>5. QED
  BY <1>1, <1>2, <1>3, <1>4

LEMMA KeptOther ==
    ASSUME strategy \notin {"MIN", "MAX"}
    PROVE  \A j : Kept(j) <=> Passes(j)
BY DEF Kept

(* The closest kept node. *)
LEMMA MaxIs ==
    ASSUME NEW S \in SUBSET Int, NEW m \in S, \A a \in S : a <= m
    PROVE  Max(S) = m
<1>1. \A x \in S : (\A y \in S : x >= y) => x = m
  OBVIOUS
<1>2. QED
  BY <1>1 DEF Max

LEMMA ClosestIsNode ==
    ASSUME tree \in Trees, NEW j \in Node, j = 0 \/ Kept(j)
    PROVE  Closest(Branch(j)) = j
<1> DEFINE S == {a \in Branch(j) : a = 0 \/ Kept(a)}
<1>1. S \in SUBSET Int /\ \A a \in S : a <= j
  BY BranchBelow, TreeShape
<1>2. j \in S
  BY BranchHasNode
<1> HIDE DEF S
<1>3. Max(S) = j
  BY <1>1, <1>2, MaxIs
<1>4. QED
  BY <1>3 DEF Closest, S

LEMMA ClosestIsAbove ==
    ASSUME tree \in Trees, NEW j \in 1 .. last, ~Kept(j)
    PROVE  Closest(Branch(j)) = Closest(Branch(tree.parent[j]))
<1>1. {a \in Branch(j) : a = 0 \/ Kept(a)} = {a \in Branch(tree.parent[j]) : a = 0 \/ Kept(a)}
  BY BranchStep
<1>2. QED
  BY <1>1 DEF Closest

(* The sum over the kept nodes. *)
LEMMA ContributionIs ==
    ASSUME tree \in Trees
    PROVE  /\ Contribution[0] = tree.values[0]
           /\ \A j \in 1 .. last : Contribution[j] = tree.values[j] - tree.values[tree.parent[j]]
           /\ \A j \in Node : Contribution[j] \in Int
<1>1. 0 \in Node
  BY TreeShape
<1>2. Contribution[0] = tree.values[0]
  <2>1. Contribution[0] = tree.values[0] - 0 /\ tree.values[0] \in Int
    BY <1>1, TreeShape DEF Contribution
  <2>2. QED
    BY <2>1
<1>3. ASSUME NEW j \in 1 .. last
      PROVE  Contribution[j] = tree.values[j] - tree.values[tree.parent[j]]
  <2>1. j \in Node /\ j # 0
    BY TreeShape
  <2>2. QED
    BY <2>1 DEF Contribution
<1>4. \A j \in Node : tree.values[j] \in Int
  BY TreeShape
<1>5. \A j \in Node : j = 0 \/ (j \in 1 .. last /\ tree.parent[j] \in Node)
  BY TreeShape
<1>6. QED
  BY <1>1, <1>2, <1>3, <1>4, <1>5

LEMMA SumAlongBranch ==
    ASSUME tree \in Trees
    PROVE  /\ SumOfKept(Branch(0)) = tree.values[0]
           /\ \A j \in Node : SumOfKept(Branch(j)) \in Int
           /\ \A j \in 1 .. last :
                 SumOfKept(Branch(j)) = (IF Kept(j) THEN Contribution[j] ELSE 0)
                                        + SumOfKept(Branch(tree.parent[j]))
<1> DEFINE K(j) == {a \in Branch(j) : a = 0 \/ Kept(a)}
<1>1. \A j : SumOfKept(Branch(j)) = SumFunctionOnSet(Contribution, K(j))
  BY DEF SumOfKept
<1>2. \A j \in Node : IsFiniteSet(K(j)) /\ \A a \in K(j) : Contribution[a] \in Int
  <2>1. IsFiniteSet(Node)
    BY TreeShape, FS_Interval
  <2>2. \A j \in Node : K(j) \in SUBSET Node
    BY DEF Branch
  <2> HIDE DEF K
  <2>3. QED
    BY <2>1, <2>2, FS_Subset, ContributionIs
<1>3. \A j \in Node : SumFunctionOnSet(Contribution, K(j)) \in Int
  BY <1>2, SumIsInteger
<1>4. SumFunctionOnSet(Contribution, K(0)) = tree.values[0]
  <2>1. K(0) = {0} /\ 0 \in Node
    BY BranchOfRoot
  <2> HIDE DEF K
  <2>2. SumFunctionOnSet(Contribution, K(0)) = Contribution[0] + SumFunctionOnSet(Contribution, K(0) \ {0})
    BY <1>2, <2>1, SumOfElement
  <2>3. K(0) \ {0} = {}
    BY <2>1
  <2>4. SumFunctionOnSet(Contribution, K(0) \ {0}) = 0
    BY <2>3, SumOfNothing
  <2>5. Contribution[0] = tree.values[0] /\ Contribution[0] \in Int
    BY <2>1, ContributionIs
  <2>6. QED
    BY <2>2, <2>4, <2>5
<1>5. ASSUME NEW j \in 1 .. last
      PROVE  SumFunctionOnSet(Contribution, K(j)) = (IF Kept(j) THEN Contribution[j] ELSE 0)
                                           + SumFunctionOnSet(Contribution, K(tree.parent[j]))
  <2>1. j \in Node /\ tree.parent[j] \in Node /\ j # 0
    BY BranchStep, TreeShape
  <2>2. CASE Kept(j)
    <3>1. j \in K(j) /\ K(j) \ {j} = K(tree.parent[j])
      BY <2>1, <2>2, BranchStep, BranchHasNode
    <3> HIDE DEF K
    <3>2. SumFunctionOnSet(Contribution, K(j)) = Contribution[j] + SumFunctionOnSet(Contribution, K(j) \ {j})
      BY <1>2, <2>1, <3>1, SumOfElement
    <3>3. QED
      BY <2>2, <3>1, <3>2
  <2>3. CASE ~Kept(j)
    <3>1. K(j) = K(tree.parent[j])
      BY <2>1, <2>3, BranchStep
    <3> HIDE DEF K
    <3>2. QED
      BY <1>3, <2>1, <2>3, <3>1
  <2>4. QED
    BY <2>2, <2>3
<1>6. QED
  BY <1>1, <1>3, <1>4, <1>5

-----------------------------------------------------------------------------
(* What the arrays must hold for a node. *)

RightParent(j) == Closest(Branch(j) \ {j})

RightValue(j) == IF strategy = "SUBTRACTIVE" THEN SumOfKept(Branch(j)) % Modulus
                 ELSE tree.values[Closest(Branch(j))]

LEMMA RightParentStep ==
    ASSUME tree \in Trees, NEW j \in 1 .. last
    PROVE  /\ RightParent(j) = Closest(Branch(tree.parent[j]))
           /\ RightParent(j) = IF tree.parent[j] = 0 \/ Kept(tree.parent[j]) THEN tree.parent[j]
                              ELSE RightParent(tree.parent[j])
<1> DEFINE q == tree.parent[j]
<1>1. RightParent(j) = Closest(Branch(q)) /\ q \in Node
  BY BranchStep DEF RightParent
<1> HIDE DEF q
<1>2. CASE q = 0 \/ Kept(q)
  BY <1>1, <1>2, ClosestIsNode DEF q
<1>3. CASE q # 0 /\ ~Kept(q)
  <2>1. q \in 1 .. last
    BY <1>1, <1>3, TreeShape
  <2>2. Closest(Branch(q)) = Closest(Branch(tree.parent[q]))
    BY <1>3, <2>1, ClosestIsAbove
  <2>3. RightParent(q) = Closest(Branch(tree.parent[q]))
    BY <2>1, BranchStep DEF RightParent
  <2>4. QED
    BY <1>1, <1>3, <2>2, <2>3 DEF q
<1>4. QED
  BY <1>2, <1>3

LEMMA RightValueOfRoot ==
    ASSUME tree \in Trees
    PROVE  RightValue(0) = tree.values[0]
<1>1. 0 \in Node /\ Closest(Branch(0)) = 0
  BY BranchOfRoot, ClosestIsNode
<1>2. tree.values[0] % Modulus = tree.values[0]
  <2> DEFINE v == tree.values[0]
  <2>1. v \in 0 .. Modulus - 1 /\ Modulus \in Nat \ {0}
    BY <1>1, TreeShape
  <2> HIDE DEF v
  <2>2. v % Modulus = v
    BY <2>1
  <2>3. QED
    BY <2>2 DEF v
<1>3. QED
  BY <1>1, <1>2, SumAlongBranch DEF RightValue

LEMMA RightValueStep ==
    ASSUME tree \in Trees, NEW j \in 1 .. last
    PROVE  RightValue(j) =
             IF strategy = "SUBTRACTIVE"
             THEN (RightValue(tree.parent[j]) + (IF Kept(j) THEN Contribution[j] % Modulus ELSE 0)) % Modulus
             ELSE IF Kept(j) THEN tree.values[j] ELSE RightValue(tree.parent[j])
<1> DEFINE q == tree.parent[j]
           a == SumOfKept(Branch(q))
           b == Contribution[j]
<1>1. j \in Node /\ q \in Node
  BY BranchStep
<1>2. CASE strategy = "SUBTRACTIVE"
  <2>1. a \in Int /\ b \in Int /\ Modulus \in Nat \ {0}
    BY <1>1, SumAlongBranch, ContributionIs, TreeShape
  <2>2. SumOfKept(Branch(j)) = (IF Kept(j) THEN b ELSE 0) + a
    BY SumAlongBranch
  <2>3. RightValue(q) = a % Modulus /\ RightValue(j) = SumOfKept(Branch(j)) % Modulus
    BY <1>2 DEF RightValue
  <2> HIDE DEF q, a, b
  <2>4. a % Modulus \in 0 .. Modulus - 1 /\ (a % Modulus) % Modulus = a % Modulus
    BY <2>1, RemainderOfSum
  <2>5. ((a % Modulus) + (b % Modulus)) % Modulus = (a + b) % Modulus
    BY <2>1, RemainderOfSum
  <2>6. CASE Kept(j)
    <3>1. RightValue(j) = (a + b) % Modulus
      BY <2>1, <2>2, <2>3, <2>6
    <3>2. QED
      BY <1>2, <2>3, <2>5, <2>6, <3>1 DEF q, b
  <2>7. CASE ~Kept(j)
    <3>1. RightValue(j) = a % Modulus
      BY <2>1, <2>2, <2>3, <2>7
    <3>2. (a % Modulus) + 0 = a % Modulus
      BY <2>4
    <3>3. QED
      BY <1>2, <2>3, <2>4, <2>7, <3>1, <3>2 DEF q
  <2>8. QED
    BY <2>6, <2>7
<1>3. CASE strategy # "SUBTRACTIVE"
  BY <1>1, <1>3, ClosestIsNode, ClosestIsAbove DEF RightValue
<1>4. QED
  BY <1>2, <1>3

-----------------------------------------------------------------------------
(***************************************************************************)
(* The inductive invariant.  The nodes from i on are as they were, those   *)
(* before i are as they must be, and pass holds what the strategy knows:   *)
(* on the way up, whether a child that was considered is kept.             *)
(***************************************************************************)
InputOK ==
    /\ tree \in Trees /\ strategy \in Strategies /\ byValue \in BOOLEAN
    /\ pred \in IF byValue THEN [0 .. Modulus - 1 -> BOOLEAN] ELSE [Node -> BOOLEAN]

ArraysOK ==
    /\ parent \in [Node -> -1 .. last]
    /\ values \in [Node -> 0 .. Modulus - 1]
    /\ nodemap \in [Node -> -1 .. last]
    /\ pass \in [Node -> BOOLEAN]
    /\ diff \in [Node -> Int]

ControlOK ==
    \/ pc = "start" /\ i = 0
    \/ pc = "up" /\ i \in 0 .. last /\ strategy = "MAX"
    \/ pc = "down" /\ i \in 1 .. last + 1 /\ strategy # "filter_direct"
    \/ pc = "map" /\ i = last + 1 /\ strategy # "filter_direct"
    \/ pc = "direct" /\ i \in 1 .. last + 1 /\ strategy = "filter_direct"
    \/ pc = "end" /\ i = last + 1

Untouched ==
    /\ pc \in {"start", "up"} => parent = tree.parent
    /\ pc \in {"start", "up", "direct"} => values = tree.values
    /\ pc \in {"down", "direct"} => \A j \in i .. last : parent[j] = tree.parent[j]
    /\ pc = "down" => \A j \in i .. last : values[j] = tree.values[j]
    /\ pc = "down" => parent[0] = 0
    /\ pc # "end" => nodemap = [x \in Node |-> x]

PassMeans ==
    /\ pc = "start" => \A j \in Node : ~pass[j]
    /\ pc = "up" => \A j \in Node :
          pass[j] <=> IF j > i THEN Kept(j)
                      ELSE \E ch \in i + 1 .. last : tree.parent[ch] = j /\ Kept(ch)
    /\ pc \in {"down", "map"} =>
          \A j \in 1 .. last : j < i \/ strategy = "MAX" => (pass[j] <=> Kept(j))
    /\ pc = "down" /\ strategy = "MIN" => pass[0]

DiffMeans ==
    pc = "down" /\ strategy = "SUBTRACTIVE" =>
        \A j \in 1 .. last : diff[j] = Contribution[j] % Modulus

ParentsSoFar ==
    pc \in {"down", "direct", "map", "end"} => \A j \in 1 .. i - 1 : parent[j] = RightParent(j)

ValuesSoFar ==
    pc \in {"down", "map", "end"} /\ strategy # "filter_direct" =>
        \A j \in 0 .. i - 1 : values[j] = RightValue(j)

PointsAtEnd ==
    pc = "end" /\ strategy # "filter_direct" /\ (byValue => strategy \in {"MIN", "MAX"}) =>
        \A x \in Node : nodemap[x] = IF x = 0 \/ Kept(x) THEN x ELSE RightParent(x)

CTInv ==
    /\ InputOK /\ ArraysOK /\ ControlOK /\ Untouched
    /\ PassMeans /\ DiffMeans
    /\ ParentsSoFar /\ ValuesSoFar /\ PointsAtEnd

-----------------------------------------------------------------------------
(* What is said of the tree before the filter does not change. *)
LEMMA InputStays ==
    ASSUME UNCHANGED input, InputOK
    PROVE  /\ InputOK' /\ Node' = Node /\ last' = last
           /\ tree' = tree /\ strategy' = strategy /\ pred' = pred /\ byValue' = byValue
           /\ \A j : Passes(j)' <=> Passes(j)
           /\ \A j : Kept(j)' <=> Kept(j)
           /\ \A j : RightParent(j)' = RightParent(j)
           /\ \A j : RightValue(j)' = RightValue(j)
           /\ Contribution' = Contribution
<1>1. tree' = tree /\ strategy' = strategy /\ pred' = pred /\ byValue' = byValue
  BY DEF input
<1>2. Node' = Node
  BY <1>1 DEF Node
<1>3. last' = last
  BY <1>2 DEF last
<1>4. \A j : Passes(j)' <=> Passes(j)
  BY <1>1 DEF Passes
<1>5. \A j : Branch(j)' = Branch(j)
  BY <1>1, <1>2 DEF Branch
<1>6. \A j : Kept(j)' <=> Kept(j)
  BY <1>1, <1>2, <1>4, <1>5 DEF Kept
<1>7. \A S : Closest(S)' = Closest(S)
  BY <1>6 DEF Closest
<1>8. \A j : RightParent(j)' = RightParent(j)
  BY <1>5, <1>7 DEF RightParent
<1>9. Contribution' = Contribution
  BY <1>1, <1>2 DEF Contribution
<1>10. \A S : SumOfKept(S)' = SumOfKept(S)
  <2>1. \A S : SumOfKept(S) = SumFunctionOnSet(Contribution, {a \in S : a = 0 \/ Kept(a)})
    BY DEF SumOfKept
  <2>2. \A S : SumOfKept(S)' = SumFunctionOnSet(Contribution', {a \in S : a = 0 \/ Kept(a)'})
    BY DEF SumOfKept
  <2>3. \A S : {a \in S : a = 0 \/ Kept(a)'} = {a \in S : a = 0 \/ Kept(a)}
    BY <1>6
  <2>4. QED
    BY <1>9, <2>1, <2>2, <2>3
<1>11. \A j : RightValue(j)' = RightValue(j)
  BY <1>1, <1>5, <1>7, <1>10 DEF RightValue
<1>12. InputOK'
  BY <1>1, <1>2 DEF InputOK
<1>13. QED
  BY <1>1, <1>2, <1>3, <1>4, <1>6, <1>8, <1>9, <1>11, <1>12

LEMMA CTInitInv == CTInit => CTInv
<1> SUFFICES ASSUME CTInit PROVE CTInv
  OBVIOUS
<1>1. InputOK
  BY DEF CTInit, InputOK
<1>2. /\ Modulus \in Nat \ {0} /\ last \in Nat /\ Node = 0 .. last
      /\ tree.parent \in [Node -> -1 .. last] /\ tree.values \in [Node -> 0 .. Modulus - 1]
  BY <1>1, TreeShape DEF InputOK
<1>3. ArraysOK
  BY <1>2 DEF CTInit, ArraysOK
<1>4. ControlOK /\ Untouched /\ DiffMeans /\ ParentsSoFar /\ ValuesSoFar /\ PointsAtEnd
  BY DEF CTInit, ControlOK, Untouched, DiffMeans, ParentsSoFar, ValuesSoFar, PointsAtEnd
<1>5. PassMeans
  BY DEF CTInit, PassMeans
<1>6. QED
  BY <1>1, <1>3, <1>4, <1>5 DEF CTInv

LEMMA StartMaxInv == CTInv /\ StartMax => CTInv'
<1> SUFFICES ASSUME CTInv, StartMax PROVE CTInv'
  OBVIOUS
<1> USE DEF CTInv
<1>1. /\ InputOK' /\ Node' = Node /\ last' = last /\ tree' = tree /\ strategy' = strategy
      /\ \A j : Kept(j)' <=> Kept(j)
  BY InputStays DEF StartMax, input
<1>2. last \in Nat /\ Node = 0 .. last
  BY TreeShape DEF InputOK
<1>3. /\ strategy = "MAX" /\ pc = "start" /\ pc' = "up" /\ i' = last
      /\ UNCHANGED <<parent, values, nodemap, pass, diff>>
  BY DEF StartMax
<1>4. ArraysOK'
  BY <1>1, <1>3 DEF ArraysOK
<1>5. ControlOK'
  BY <1>1, <1>2, <1>3 DEF ControlOK
<1>6. Untouched'
  BY <1>1, <1>3 DEF Untouched
<1>7. PassMeans'
  <2>1. \A j \in Node : ~pass[j] /\ ~(j > last)
    BY <1>2, <1>3 DEF PassMeans
  <2>2. last + 1 .. last = {}
    BY <1>2
  <2>3. QED
    BY <1>1, <1>3, <2>1, <2>2 DEF PassMeans
<1>8. (DiffMeans /\ ParentsSoFar /\ ValuesSoFar /\ PointsAtEnd)'
  BY <1>3 DEF DiffMeans, ParentsSoFar, ValuesSoFar, PointsAtEnd
<1>9. QED
  BY <1>1, <1>4, <1>5, <1>6, <1>7, <1>8

LEMMA PropagateUpwardInv == CTInv /\ PropagateUpward => CTInv'
<1> SUFFICES ASSUME CTInv, PropagateUpward PROVE CTInv'
  OBVIOUS
<1> USE DEF CTInv
<1>1. /\ InputOK' /\ Node' = Node /\ last' = last /\ tree' = tree /\ strategy' = strategy
      /\ \A j : Kept(j)' <=> Kept(j)
  BY InputStays DEF PropagateUpward, input
<1>2. last \in Nat /\ Node = 0 .. last
  BY TreeShape DEF InputOK
<1>3. /\ pc = "up" /\ i > 0 /\ pc' = "up" /\ i' = i - 1 /\ strategy = "MAX" /\ i \in 1 .. last
      /\ UNCHANGED <<parent, values, nodemap, diff>>
  BY <1>2 DEF PropagateUpward, ControlOK
<1> DEFINE q == tree.parent[i]
           own == [pass EXCEPT ![i] = @ \/ Predicate(i)]
<1>4. q \in 0 .. i - 1 /\ q \in Node /\ i \in Node /\ q # i
  BY <1>2, <1>3, TreeShape DEF InputOK
<1>5. pass \in [Node -> BOOLEAN] /\ pass' = [own EXCEPT ![q] = @ \/ own[i]]
  BY <1>3 DEF PropagateUpward, Untouched, ArraysOK
<1>6. Predicate(i) <=> Passes(i)
  BY <1>3 DEF Untouched, Predicate, Passes
<1>7. own[i] <=> Kept(i)
  <2>1. pass[i] <=> \E ch \in i + 1 .. last : tree.parent[ch] = i /\ Kept(ch)
    BY <1>3, <1>4 DEF PassMeans
  <2>2. \A ch \in 1 .. last : tree.parent[ch] = i => ch \in i + 1 .. last
    BY <1>2, <1>3, TreeShape DEF InputOK
  <2>3. \A ch \in i + 1 .. last : ch \in 1 .. last
    BY <1>2, <1>3
  <2>4. Kept(i) <=> Passes(i) \/ pass[i]
    BY <1>3, <1>4, <2>1, <2>2, <2>3, KeptMax DEF InputOK
  <2>5. own[i] <=> pass[i] \/ Predicate(i)
    BY <1>4, <1>5
  <2>6. QED
    BY <1>6, <2>4, <2>5
<1>8. /\ pass' \in [Node -> BOOLEAN] /\ (pass'[i] <=> Kept(i))
      /\ pass'[q] <=> pass[q] \/ Kept(i)
      /\ \A j \in Node \ {i, q} : pass'[j] = pass[j]
  <2>1. /\ own \in [Node -> BOOLEAN] /\ own[q] = pass[q]
        /\ \A j \in Node \ {i, q} : own[j] = pass[j]
    BY <1>4, <1>5, <1>6 DEF Predicate, InputOK
  <2> HIDE DEF own
  <2>2. QED
    BY <1>4, <1>5, <1>7, <2>1
<1> HIDE DEF q, own
<1>9. ArraysOK'
  BY <1>1, <1>3, <1>8 DEF ArraysOK
<1>10. ControlOK'
  BY <1>1, <1>2, <1>3 DEF ControlOK
<1>11. Untouched'
  BY <1>1, <1>3 DEF Untouched
<1>12. PassMeans'
  <2>1. ASSUME NEW j \in Node
        PROVE  pass'[j] <=> IF j > i - 1 THEN Kept(j)
                            ELSE \E ch \in i .. last : tree.parent[ch] = j /\ Kept(ch)
    <3>1. pass[j] <=> IF j > i THEN Kept(j)
                      ELSE \E ch \in i + 1 .. last : tree.parent[ch] = j /\ Kept(ch)
      BY <1>3 DEF PassMeans
    <3>2. j \in Int /\ i .. last = {i} \cup (i + 1 .. last)
      BY <1>2, <1>3
    <3>3. CASE j = i
      BY <1>3, <1>8, <3>3
    <3>4. CASE j = q
      <4>1. ~(j > i) /\ ~(j > i - 1)
        BY <1>2, <1>3, <1>4, <3>4
      <4>2. QED
        BY <1>8, <3>1, <3>2, <3>4, <4>1 DEF q
    <3>5. CASE j \notin {i, q}
      <4>1. j > i - 1 <=> j > i
        BY <1>3, <3>2, <3>5
      <4>2. QED
        BY <1>8, <3>1, <3>2, <3>5, <4>1 DEF q
    <3>6. QED
      BY <3>3, <3>4, <3>5
  <2>2. i - 1 + 1 = i
    BY <1>3
  <2>3. QED
    BY <1>1, <1>3, <2>1, <2>2 DEF PassMeans
<1>13. (DiffMeans /\ ParentsSoFar /\ ValuesSoFar /\ PointsAtEnd)'
  BY <1>3 DEF DiffMeans, ParentsSoFar, ValuesSoFar, PointsAtEnd
<1>14. QED
  BY <1>1, <1>9, <1>10, <1>11, <1>12, <1>13

LEMMA EndUpInv == CTInv /\ EndUp => CTInv'
<1> SUFFICES ASSUME CTInv, EndUp PROVE CTInv'
  OBVIOUS
<1> USE DEF CTInv
<1>1. /\ InputOK' /\ Node' = Node /\ last' = last /\ tree' = tree /\ strategy' = strategy
      /\ byValue' = byValue
      /\ \A j : Kept(j)' <=> Kept(j)
      /\ \A j : RightParent(j)' = RightParent(j)
      /\ \A j : RightValue(j)' = RightValue(j)
      /\ Contribution' = Contribution
  BY InputStays DEF EndUp, EnterLoop, input
<1>2. /\ last \in Nat /\ Node = 0 .. last
      /\ tree.parent \in [Node -> -1 .. last] /\ tree.values \in [Node -> 0 .. Modulus - 1]
  BY TreeShape DEF InputOK
<1>3. /\ pc = "up" /\ i = 0 /\ pc' = "down" /\ i' = 1 /\ strategy = "MAX"
      /\ parent' = [parent EXCEPT ![0] = 0]
      /\ UNCHANGED <<values, nodemap, pass, diff>>
  BY DEF EndUp, EnterLoop, ControlOK
<1>4. parent = tree.parent /\ values = tree.values /\ nodemap = [x \in Node |-> x]
  BY <1>3 DEF Untouched
<1>5. parent' \in [Node -> -1 .. last] /\ parent'[0] = 0
      /\ \A j \in 1 .. last : parent'[j] = tree.parent[j]
  BY <1>2, <1>3, <1>4
<1>6. ArraysOK'
  BY <1>1, <1>3, <1>5 DEF ArraysOK
<1>7. ControlOK'
  BY <1>1, <1>2, <1>3 DEF ControlOK
<1>8. Untouched'
  BY <1>1, <1>3, <1>4, <1>5 DEF Untouched
<1>9. PassMeans'
  <2>1. \A j \in 1 .. last : j \in Node /\ j > 0
    BY <1>2
  <2>2. \A j \in 1 .. last : pass[j] <=> Kept(j)
    BY <1>3, <2>1 DEF PassMeans
  <2>3. QED
    BY <1>1, <1>3, <2>2 DEF PassMeans
<1>10. DiffMeans' /\ ParentsSoFar' /\ PointsAtEnd'
  BY <1>1, <1>3 DEF DiffMeans, ParentsSoFar, PointsAtEnd
<1>11. ValuesSoFar'
  <2>1. RightValue(0) = values[0]
    BY <1>4, RightValueOfRoot DEF InputOK
  <2>2. QED
    BY <1>1, <1>3, <2>1 DEF ValuesSoFar
<1>12. QED
  BY <1>1, <1>6, <1>7, <1>8, <1>9, <1>10, <1>11

LEMMA StartOtherInv == CTInv /\ StartOther => CTInv'
<1> SUFFICES ASSUME CTInv, StartOther PROVE CTInv'
  OBVIOUS
<1> USE DEF CTInv
<1>1. /\ InputOK' /\ Node' = Node /\ last' = last /\ tree' = tree /\ strategy' = strategy
      /\ byValue' = byValue
      /\ \A j : Kept(j)' <=> Kept(j)
      /\ \A j : RightParent(j)' = RightParent(j)
      /\ \A j : RightValue(j)' = RightValue(j)
      /\ Contribution' = Contribution
  BY InputStays DEF StartOther, EnterLoop, input
<1>2. /\ last \in Nat /\ Node = 0 .. last
      /\ tree.parent \in [Node -> -1 .. last] /\ tree.values \in [Node -> 0 .. Modulus - 1]
  BY TreeShape DEF InputOK
<1>3. /\ pc = "start" /\ pc' = "down" /\ i' = 1 /\ strategy \in {"MIN", "DIRECT", "SUBTRACTIVE"}
      /\ parent' = [parent EXCEPT ![0] = 0]
      /\ pass' = [pass EXCEPT ![0] = TRUE]
      /\ diff' = IF strategy = "SUBTRACTIVE"
                 THEN [x \in Node |-> IF x = 0 THEN 0
                                      ELSE (values[x] - values[parent[x]]) % Modulus]
                 ELSE diff
      /\ UNCHANGED <<values, nodemap>>
  BY DEF StartOther, EnterLoop
<1>4. parent = tree.parent /\ values = tree.values /\ nodemap = [x \in Node |-> x]
  BY <1>3 DEF Untouched
<1>5. parent' \in [Node -> -1 .. last] /\ parent'[0] = 0
      /\ \A j \in 1 .. last : parent'[j] = tree.parent[j]
  BY <1>2, <1>3, <1>4
<1>6. strategy = "SUBTRACTIVE" =>
          \A j \in 1 .. last : diff'[j] = Contribution[j] % Modulus
  BY <1>2, <1>3, <1>4, ContributionIs DEF InputOK
<1>7. diff' \in [Node -> Int]
  <2>1. CASE strategy = "SUBTRACTIVE"
    <3>1. Modulus \in Nat \ {0} /\ \A j \in 1 .. last : Contribution[j] \in Int
      BY <1>2, TreeShape, ContributionIs DEF InputOK
    <3>2. \A j \in 1 .. last : Contribution[j] % Modulus \in Int
      BY <3>1
    <3>3. \A j \in 1 .. last : diff'[j] \in Int
      BY <1>6, <2>1, <3>2
    <3>4. diff' = [x \in Node |-> diff'[x]] /\ diff'[0] = 0
      BY <1>2, <1>3, <2>1
    <3>5. QED
      BY <1>2, <3>3, <3>4
  <2>2. CASE strategy # "SUBTRACTIVE"
    BY <1>3, <2>2 DEF ArraysOK
  <2>3. QED
    BY <2>1, <2>2
<1>8. pass' \in [Node -> BOOLEAN] /\ pass'[0]
  BY <1>2, <1>3 DEF ArraysOK
<1>9. ArraysOK'
  BY <1>1, <1>3, <1>5, <1>7, <1>8 DEF ArraysOK
<1>10. ControlOK'
  BY <1>1, <1>2, <1>3 DEF ControlOK
<1>11. Untouched'
  BY <1>1, <1>3, <1>4, <1>5 DEF Untouched
<1>12. PassMeans'
  <2>1. \A j \in 1 .. last : ~(j < 1)
    BY <1>2
  <2>2. QED
    BY <1>1, <1>3, <1>8, <2>1 DEF PassMeans
<1>13. DiffMeans'
  BY <1>1, <1>3, <1>6 DEF DiffMeans
<1>14. ParentsSoFar' /\ PointsAtEnd'
  BY <1>1, <1>3 DEF ParentsSoFar, PointsAtEnd
<1>15. ValuesSoFar'
  <2>1. RightValue(0) = values[0]
    BY <1>4, RightValueOfRoot DEF InputOK
  <2>2. QED
    BY <1>1, <1>3, <2>1 DEF ValuesSoFar
<1>16. QED
  BY <1>1, <1>9, <1>10, <1>11, <1>12, <1>13, <1>14, <1>15

(* The step of the loop over the nodes, whichever way the node is found to  *)
(* be kept.                                                                 *)
LEMMA FilterNodeInv ==
    ASSUME CTInv, NEW isKept \in BOOLEAN, isKept <=> Kept(i), FilterNode(isKept)
    PROVE  CTInv'
<1> USE DEF CTInv
<1>1. /\ InputOK' /\ Node' = Node /\ last' = last /\ tree' = tree /\ strategy' = strategy
      /\ byValue' = byValue
      /\ \A j : Kept(j)' <=> Kept(j)
      /\ \A j : RightParent(j)' = RightParent(j)
      /\ \A j : RightValue(j)' = RightValue(j)
      /\ Contribution' = Contribution
  BY InputStays DEF FilterNode, input
<1>2. /\ last \in Nat /\ Node = 0 .. last
      /\ tree.parent \in [Node -> -1 .. last] /\ tree.values \in [Node -> 0 .. Modulus - 1]
  BY TreeShape DEF InputOK
<1> DEFINE q == parent[i]
<1>3. /\ pc = "down" /\ pc' = "down" /\ i' = i + 1 /\ strategy # "filter_direct"
      /\ i \in 1 .. last
  BY <1>2 DEF FilterNode, ControlOK
<1>a. /\ UNCHANGED <<nodemap, diff>>
      /\ pass' = [pass EXCEPT ![i] = isKept]
      /\ parent' = [parent EXCEPT ![i] = IF pass[q] THEN q ELSE parent[q]]
      /\ values' = [values EXCEPT ![i] =
                        IF strategy = "SUBTRACTIVE"
                        THEN (values[q] + (IF isKept THEN diff[i] ELSE 0)) % Modulus
                        ELSE IF isKept THEN @ ELSE values[q]]
  BY DEF FilterNode
<1>4. q = tree.parent[i] /\ q \in 0 .. i - 1 /\ q \in Node /\ i \in Node /\ q # i /\ q < i
  <2>1. q = tree.parent[i]
    <3>1. i \in i .. last
      BY <1>2, <1>3
    <3>2. QED
      BY <1>3, <3>1 DEF Untouched
  <2>2. q \in 0 .. i - 1
    BY <1>3, <2>1, TreeShape DEF InputOK
  <2> HIDE DEF q
  <2>3. q \in Int /\ i \in Int /\ q < i /\ q # i
    BY <1>3, <2>2
  <2>4. q \in 0 .. last /\ i \in 0 .. last
    BY <1>2, <1>3, <2>2
  <2>5. QED
    BY <1>2, <2>1, <2>2, <2>3, <2>4
<1> HIDE DEF q
<1>5. q # 0 => (pass[q] <=> Kept(q)) /\ parent[q] = RightParent(q)
  <2>1. q # 0 => q \in 1 .. last /\ q \in 1 .. i - 1
    BY <1>2, <1>3, <1>4
  <2>2. QED
    BY <1>3, <1>4, <2>1 DEF PassMeans, ParentsSoFar
<1>6. values[q] = RightValue(q)
  BY <1>3, <1>4 DEF ValuesSoFar
<1>7. (IF pass[q] THEN q ELSE parent[q]) = RightParent(i)
  <2>1. RightParent(i) = IF q = 0 \/ Kept(q) THEN q ELSE RightParent(q)
    BY <1>3, <1>4, RightParentStep DEF InputOK
  <2>2. parent[0] = 0
    BY <1>3 DEF Untouched
  <2>3. QED
    BY <1>5, <2>1, <2>2
<1>8. parent' = [parent EXCEPT ![i] = RightParent(i)]
  BY <1>a, <1>7
<1>9. values' = [values EXCEPT ![i] = RightValue(i)]
  <2>1. /\ strategy # "SUBTRACTIVE" =>
              RightValue(i) = IF Kept(i) THEN tree.values[i] ELSE RightValue(q)
        /\ strategy = "SUBTRACTIVE" =>
              RightValue(i) = (RightValue(q) + (IF Kept(i) THEN Contribution[i] % Modulus ELSE 0)) % Modulus
    BY <1>3, <1>4, RightValueStep DEF InputOK
  <2>2. values[i] = tree.values[i]
    <3>1. i \in i .. last
      BY <1>2, <1>3
    <3>2. QED
      BY <1>3, <3>1 DEF Untouched
  <2>3. strategy = "SUBTRACTIVE" => diff[i] = Contribution[i] % Modulus
    BY <1>3 DEF DiffMeans
  <2>4. QED
    BY <1>a, <1>6, <2>1, <2>2, <2>3
<1>10. RightParent(i) \in -1 .. last
  <2>1. parent[q] \in -1 .. last
    BY <1>4 DEF ArraysOK
  <2>2. q \in -1 .. last
    BY <1>2, <1>4
  <2>3. QED
    BY <1>7, <2>1, <2>2
<1>11. RightValue(i) \in 0 .. Modulus - 1
  <2>1. \A x \in Int : x % Modulus \in 0 .. Modulus - 1
    BY TreeShape DEF InputOK
  <2>2. RightValue(q) \in 0 .. Modulus - 1 /\ tree.values[i] \in 0 .. Modulus - 1
    BY <1>2, <1>4, <1>6 DEF ArraysOK
  <2>3. CASE strategy = "SUBTRACTIVE"
    BY <1>4, <2>1, <2>3, SumAlongBranch DEF RightValue, InputOK
  <2>4. CASE strategy # "SUBTRACTIVE"
    BY <1>3, <1>4, <2>2, <2>4, RightValueStep DEF InputOK
  <2>5. QED
    BY <2>3, <2>4
<1>12. ArraysOK'
  <2>1. /\ parent' \in [Node -> -1 .. last]
        /\ values' \in [Node -> 0 .. Modulus - 1]
        /\ pass' \in [Node -> BOOLEAN]
    BY <1>4, <1>a, <1>8, <1>9, <1>10, <1>11 DEF ArraysOK
  <2>2. QED
    BY <1>1, <1>a, <2>1 DEF ArraysOK
<1>13. ControlOK'
  BY <1>1, <1>2, <1>3 DEF ControlOK
<1>14. Untouched'
  <2>1. \A j \in i + 1 .. last : j \in i .. last /\ j \in Node /\ j # i
    BY <1>2, <1>3
  <2>2. \A j \in i + 1 .. last : parent'[j] = tree.parent[j] /\ values'[j] = tree.values[j]
    BY <1>3, <1>8, <1>9, <2>1 DEF Untouched, ArraysOK
  <2>3. parent'[0] = 0
    BY <1>2, <1>3, <1>8 DEF Untouched, ArraysOK
  <2>4. QED
    BY <1>1, <1>3, <1>a, <2>2, <2>3 DEF Untouched
<1>15. PassMeans'
  <2>1. \A j \in 1 .. last : j < i + 1 \/ strategy = "MAX" => (pass'[j] <=> Kept(j))
    <3>1. ASSUME NEW j \in 1 .. last, j < i + 1 \/ strategy = "MAX"
          PROVE  pass'[j] <=> Kept(j)
      <4>1. j \in Node /\ (j = i \/ j < i \/ strategy = "MAX")
        BY <1>2, <1>3, <3>1
      <4>2. CASE j = i
        BY <1>3, <1>a, <4>1, <4>2 DEF ArraysOK
      <4>3. CASE j # i
        BY <1>3, <1>a, <4>1, <4>3 DEF ArraysOK, PassMeans
      <4>4. QED
        BY <4>2, <4>3
    <3>2. QED
      BY <3>1
  <2>2. strategy = "MIN" => pass'[0]
    BY <1>2, <1>3, <1>a DEF ArraysOK, PassMeans
  <2>3. QED
    BY <1>1, <1>3, <2>1, <2>2 DEF PassMeans
<1>16. DiffMeans'
  BY <1>1, <1>3, <1>a DEF DiffMeans
<1>17. ParentsSoFar'
  <2>1. \A j \in 1 .. i + 1 - 1 : j = i \/ j \in 1 .. i - 1
    BY <1>3
  <2>2. \A j \in 1 .. i - 1 : j \in Node /\ j # i
    BY <1>2, <1>3
  <2>3. \A j \in 1 .. i + 1 - 1 : parent'[j] = RightParent(j)
    BY <1>3, <1>4, <1>8, <2>1, <2>2 DEF ParentsSoFar, ArraysOK
  <2>4. QED
    BY <1>1, <1>3, <2>3 DEF ParentsSoFar
<1>18. ValuesSoFar'
  <2>1. \A j \in 0 .. i + 1 - 1 : j = i \/ j \in 0 .. i - 1
    BY <1>3
  <2>2. \A j \in 0 .. i - 1 : j \in Node /\ j # i
    BY <1>2, <1>3
  <2>3. \A j \in 0 .. i + 1 - 1 : values'[j] = RightValue(j)
    BY <1>3, <1>4, <1>9, <2>1, <2>2 DEF ValuesSoFar, ArraysOK
  <2>4. QED
    BY <1>1, <1>3, <2>3 DEF ValuesSoFar
<1>19. PointsAtEnd'
  BY <1>3 DEF PointsAtEnd
<1>20. QED
  BY <1>1, <1>12, <1>13, <1>14, <1>15, <1>16, <1>17, <1>18, <1>19

(* The predicate, when it is called on a node whose value is still its own. *)
LEMMA PredicateIsBoolean ==
    ASSUME InputOK, ArraysOK, NEW j \in Node
    PROVE  /\ Predicate(j) \in BOOLEAN
           /\ values[j] = tree.values[j] => (Predicate(j) <=> Passes(j))
BY DEF Predicate, Passes, InputOK, ArraysOK

LEMMA FilterStepsInv == CTInv /\ (FilterDirectly \/ FilterMin \/ FilterMax) => CTInv'
<1> SUFFICES ASSUME CTInv, FilterDirectly \/ FilterMin \/ FilterMax PROVE CTInv'
  OBVIOUS
<1>1. /\ last \in Nat /\ Node = 0 .. last
  BY TreeShape DEF CTInv, InputOK
<1>2. pc = "down" /\ i \in 1 .. last
  BY <1>1 DEF CTInv, ControlOK, FilterDirectly, FilterMin, FilterMax, FilterNode
<1>3. i \in Node /\ i \in i .. last
  BY <1>1, <1>2
<1>4. /\ values[i] = tree.values[i] /\ parent[i] = tree.parent[i]
  BY <1>2, <1>3 DEF CTInv, Untouched
<1>5. Predicate(i) \in BOOLEAN /\ (Predicate(i) <=> Passes(i))
  BY <1>3, <1>4, PredicateIsBoolean DEF CTInv
<1>6. CASE FilterDirectly
  <2>1. strategy \notin {"MIN", "MAX"} /\ FilterNode(Predicate(i))
    BY <1>6 DEF FilterDirectly
  <2>2. Predicate(i) <=> Kept(i)
    BY <1>5, <2>1, KeptOther
  <2>3. QED
    BY <1>5, <2>1, <2>2, FilterNodeInv
<1>7. CASE FilterMin
  <2> DEFINE isKept == Predicate(i) /\ pass[parent[i]]
  <2>1. strategy = "MIN" /\ FilterNode(isKept)
    BY <1>7 DEF FilterMin
  <2>2. Kept(i) <=> Passes(i) /\ (tree.parent[i] = 0 \/ Kept(tree.parent[i]))
    BY <1>2, <2>1, KeptMin DEF CTInv, InputOK
  <2>3. parent[i] \in 0 .. i - 1
    BY <1>2, <1>4, TreeShape DEF CTInv, InputOK
  <2>4. pass[parent[i]] <=> parent[i] = 0 \/ Kept(parent[i])
    <3>1. parent[i] = 0 \/ (parent[i] \in 1 .. last /\ parent[i] < i)
      BY <1>1, <1>2, <2>3
    <3>2. QED
      BY <1>2, <2>1, <3>1 DEF CTInv, PassMeans
  <2>5. isKept <=> Kept(i)
    BY <1>4, <1>5, <2>2, <2>4
  <2>6. isKept \in BOOLEAN
    OBVIOUS
  <2> HIDE DEF isKept
  <2>7. QED
    BY <2>1, <2>5, <2>6, FilterNodeInv
<1>8. CASE FilterMax
  <2>1. strategy = "MAX" /\ FilterNode(pass[i])
    BY <1>8 DEF FilterMax
  <2>2. pass[i] \in BOOLEAN /\ (pass[i] <=> Kept(i))
    BY <1>2, <1>3, <2>1 DEF CTInv, ArraysOK, PassMeans
  <2>3. QED
    BY <2>1, <2>2, FilterNodeInv
<1>9. QED
  BY <1>6, <1>7, <1>8

LEMMA EndDownInv == CTInv /\ EndDown => CTInv'
<1> SUFFICES ASSUME CTInv, EndDown PROVE CTInv'
  OBVIOUS
<1> USE DEF CTInv
<1>1. /\ InputOK' /\ Node' = Node /\ last' = last /\ tree' = tree /\ strategy' = strategy
      /\ byValue' = byValue
      /\ \A j : Kept(j)' <=> Kept(j)
      /\ \A j : RightParent(j)' = RightParent(j)
      /\ \A j : RightValue(j)' = RightValue(j)
      /\ Contribution' = Contribution
  BY InputStays DEF EndDown, input
<1>2. /\ last \in Nat /\ Node = 0 .. last
      /\ tree.parent \in [Node -> -1 .. last] /\ tree.values \in [Node -> 0 .. Modulus - 1]
  BY TreeShape DEF InputOK
<1>3. /\ pc = "down" /\ pc' = "map" /\ i = last + 1 /\ i' = i /\ strategy # "filter_direct"
      /\ UNCHANGED <<values, nodemap, pass, diff>>
  BY <1>2 DEF EndDown, ControlOK
<1>4. parent' \in [Node -> -1 .. last] /\ \A j \in 1 .. last : parent'[j] = parent[j]
  <2>1. parent' = [parent EXCEPT ![0] = -1] /\ parent \in [Node -> -1 .. last]
    BY DEF EndDown, ArraysOK
  <2>2. -1 \in -1 .. last /\ 0 \in Node /\ \A j \in 1 .. last : j \in Node /\ j # 0
    BY <1>2
  <2>3. QED
    BY <2>1, <2>2
<1>5. ArraysOK' /\ ControlOK'
  BY <1>1, <1>3, <1>4 DEF ArraysOK, ControlOK
<1>6. Untouched' /\ PassMeans' /\ DiffMeans'
  BY <1>1, <1>3 DEF Untouched, PassMeans, DiffMeans
<1>7. ParentsSoFar'
  <2>1. i - 1 = last
    BY <1>2, <1>3
  <2>2. QED
    BY <1>1, <1>3, <1>4, <2>1 DEF ParentsSoFar
<1>8. ValuesSoFar' /\ PointsAtEnd'
  BY <1>1, <1>3 DEF ValuesSoFar, PointsAtEnd
<1>9. QED
  BY <1>1, <1>5, <1>6, <1>7, <1>8

LEMMA UpdateNodeMapInv == CTInv /\ UpdateNodeMap => CTInv'
<1> SUFFICES ASSUME CTInv, UpdateNodeMap PROVE CTInv'
  OBVIOUS
<1> USE DEF CTInv
<1>1. /\ InputOK' /\ Node' = Node /\ last' = last /\ tree' = tree /\ strategy' = strategy
      /\ byValue' = byValue
      /\ \A j : Kept(j)' <=> Kept(j)
      /\ \A j : RightParent(j)' = RightParent(j)
      /\ \A j : RightValue(j)' = RightValue(j)
      /\ Contribution' = Contribution
  BY InputStays DEF UpdateNodeMap, input
<1>2. /\ last \in Nat /\ Node = 0 .. last
      /\ tree.parent \in [Node -> -1 .. last] /\ tree.values \in [Node -> 0 .. Modulus - 1]
  BY TreeShape DEF InputOK
<1> DEFINE stays(id) == IF strategy \in {"DIRECT", "SUBTRACTIVE"} THEN Predicate(id) ELSE pass[id]
<1>3. /\ pc = "map" /\ pc' = "end" /\ i = last + 1 /\ i' = i /\ strategy # "filter_direct"
      /\ UNCHANGED <<parent, values, pass, diff>>
  BY DEF UpdateNodeMap, ControlOK
<1>4. nodemap' = [x \in Node |-> IF x > 0 /\ ~stays(x) THEN parent[x] ELSE x]
  <2>1. nodemap = [x \in Node |-> x]
    BY <1>3 DEF Untouched
  <2>2. QED
    BY <2>1 DEF UpdateNodeMap
<1>5. nodemap' \in [Node -> -1 .. last]
  <2>1. parent \in [Node -> -1 .. last]
    BY DEF ArraysOK
  <2>2. \A x \in Node : x \in -1 .. last
    BY <1>2
  <2> HIDE DEF stays
  <2>3. QED
    BY <1>4, <2>1, <2>2
<1>6. ArraysOK' /\ ControlOK'
  BY <1>1, <1>3, <1>5 DEF ArraysOK, ControlOK
<1>7. Untouched' /\ PassMeans' /\ DiffMeans' /\ ParentsSoFar' /\ ValuesSoFar'
  BY <1>1, <1>3 DEF Untouched, PassMeans, DiffMeans, ParentsSoFar, ValuesSoFar
<1>8. PointsAtEnd'
  <2>1. SUFFICES ASSUME byValue => strategy \in {"MIN", "MAX"}, NEW x \in Node
                 PROVE  nodemap'[x] = IF x = 0 \/ Kept(x) THEN x ELSE RightParent(x)
    BY <1>1, <1>3 DEF PointsAtEnd
  <2>2. x = 0 \/ (x \in 1 .. last /\ x \in 1 .. i - 1 /\ x > 0 /\ x < i)
    BY <1>2, <1>3
  <2>3. x # 0 => parent[x] = RightParent(x)
    BY <1>3, <2>2 DEF ParentsSoFar
  <2>4. x # 0 => (stays(x) <=> Kept(x))
    <3>1. CASE strategy \in {"DIRECT", "SUBTRACTIVE"}
      <4>1. Predicate(x) <=> Kept(x)
        BY <2>1, <3>1, KeptOther DEF Predicate, Passes
      <4>2. QED
        BY <3>1, <4>1
    <3>2. CASE strategy \notin {"DIRECT", "SUBTRACTIVE"}
      <4>1. x # 0 => (pass[x] <=> Kept(x))
        BY <1>3, <2>2 DEF PassMeans
      <4>2. QED
        BY <3>2, <4>1
    <3>3. QED
      BY <3>1, <3>2
  <2> HIDE DEF stays
  <2>5. QED
    BY <1>4, <2>2, <2>3, <2>4
<1>9. QED
  BY <1>1, <1>6, <1>7, <1>8

LEMMA StartDirectInv == CTInv /\ StartDirect => CTInv'
<1> SUFFICES ASSUME CTInv, StartDirect PROVE CTInv'
  OBVIOUS
<1> USE DEF CTInv
<1>1. /\ InputOK' /\ Node' = Node /\ last' = last /\ tree' = tree /\ strategy' = strategy
      /\ byValue' = byValue
      /\ \A j : Kept(j)' <=> Kept(j)
      /\ \A j : RightParent(j)' = RightParent(j)
      /\ \A j : RightValue(j)' = RightValue(j)
      /\ Contribution' = Contribution
  BY InputStays DEF StartDirect, input
<1>2. /\ last \in Nat /\ Node = 0 .. last
      /\ tree.parent \in [Node -> -1 .. last] /\ tree.values \in [Node -> 0 .. Modulus - 1]
  BY TreeShape DEF InputOK
<1>3. /\ pc = "start" /\ pc' = "direct" /\ i' = 1 /\ strategy = "filter_direct"
      /\ UNCHANGED <<parent, values, nodemap, pass, diff>>
  BY DEF StartDirect
<1>4. ArraysOK' /\ ControlOK'
  <2>1. ArraysOK'
    BY <1>1, <1>3 DEF ArraysOK
  <2>2. 1 \in 1 .. last + 1
    BY <1>2
  <2>3. ControlOK'
    BY <1>1, <1>3, <2>2 DEF ControlOK
  <2>4. QED
    BY <2>1, <2>3
<1>5. Untouched'
  BY <1>1, <1>3 DEF Untouched
<1>6. PassMeans' /\ DiffMeans' /\ ParentsSoFar' /\ ValuesSoFar' /\ PointsAtEnd'
  BY <1>1, <1>3 DEF PassMeans, DiffMeans, ParentsSoFar, ValuesSoFar, PointsAtEnd
<1>7. QED
  BY <1>1, <1>4, <1>5, <1>6

LEMMA FilterParentInv == CTInv /\ FilterParent => CTInv'
<1> SUFFICES ASSUME CTInv, FilterParent PROVE CTInv'
  OBVIOUS
<1> USE DEF CTInv
<1>1. /\ InputOK' /\ Node' = Node /\ last' = last /\ tree' = tree /\ strategy' = strategy
      /\ byValue' = byValue
      /\ \A j : Kept(j)' <=> Kept(j)
      /\ \A j : RightParent(j)' = RightParent(j)
      /\ \A j : RightValue(j)' = RightValue(j)
      /\ Contribution' = Contribution
  BY InputStays DEF FilterParent, input
<1>2. /\ last \in Nat /\ Node = 0 .. last
      /\ tree.parent \in [Node -> -1 .. last] /\ tree.values \in [Node -> 0 .. Modulus - 1]
  BY TreeShape DEF InputOK
<1> DEFINE q == parent[i]
<1>3. /\ pc = "direct" /\ pc' = "direct" /\ i' = i + 1 /\ strategy = "filter_direct"
      /\ i \in 1 .. last
  BY <1>2 DEF FilterParent, ControlOK
<1>a. /\ UNCHANGED <<values, nodemap, pass, diff>>
      /\ parent' = [parent EXCEPT ![i] = IF q > 0 /\ ~Predicate(q) THEN parent[q] ELSE q]
  BY DEF FilterParent
<1>4. i \in Node /\ i \in i .. last
  BY <1>2, <1>3
<1>5. q = tree.parent[i]
  BY <1>3, <1>4 DEF Untouched
<1>6. q \in 0 .. i - 1
  BY <1>3, <1>5, TreeShape DEF InputOK
<1> HIDE DEF q
<1>7. q \in Node /\ (q = 0 \/ (q \in 1 .. i - 1 /\ q > 0)) /\ (q > 0 <=> q # 0)
  BY <1>2, <1>3, <1>6
<1>8. Predicate(q) <=> Kept(q)
  <2>1. values = tree.values
    BY <1>3 DEF Untouched
  <2>2. Predicate(q) <=> Passes(q)
    BY <1>7, <2>1, PredicateIsBoolean
  <2>3. QED
    BY <1>3, <2>2, KeptOther
<1>9. (IF q > 0 /\ ~Predicate(q) THEN parent[q] ELSE q) = RightParent(i)
  <2>1. RightParent(i) = IF q = 0 \/ Kept(q) THEN q ELSE RightParent(q)
    BY <1>3, <1>5, RightParentStep DEF InputOK
  <2>2. q # 0 => parent[q] = RightParent(q)
    BY <1>3, <1>7 DEF ParentsSoFar
  <2>3. QED
    BY <1>7, <1>8, <2>1, <2>2
<1>10. parent' = [parent EXCEPT ![i] = RightParent(i)]
  BY <1>9, <1>a
<1>11. RightParent(i) \in -1 .. last
  <2>1. parent[q] \in -1 .. last
    BY <1>7 DEF ArraysOK
  <2>2. q \in -1 .. last
    BY <1>2, <1>7
  <2>3. QED
    BY <1>9, <2>1, <2>2
<1>12. ArraysOK'
  <2>1. parent' \in [Node -> -1 .. last]
    BY <1>4, <1>10, <1>11 DEF ArraysOK
  <2>2. QED
    BY <1>1, <1>a, <2>1 DEF ArraysOK
<1>13. ControlOK'
  BY <1>1, <1>2, <1>3 DEF ControlOK
<1>14. Untouched'
  <2>1. \A j \in i + 1 .. last : j \in i .. last /\ j \in Node /\ j # i
    BY <1>2, <1>3
  <2>2. \A j \in i + 1 .. last : parent'[j] = tree.parent[j]
    BY <1>3, <1>10, <2>1 DEF Untouched, ArraysOK
  <2>3. QED
    BY <1>1, <1>3, <1>a, <2>2 DEF Untouched
<1>15. ParentsSoFar'
  <2>1. \A j \in 1 .. i + 1 - 1 : j = i \/ j \in 1 .. i - 1
    BY <1>3
  <2>2. \A j \in 1 .. i - 1 : j \in Node /\ j # i
    BY <1>2, <1>3
  <2>3. \A j \in 1 .. i + 1 - 1 : parent'[j] = RightParent(j)
    BY <1>3, <1>4, <1>10, <2>1, <2>2 DEF ParentsSoFar, ArraysOK
  <2>4. QED
    BY <1>1, <1>3, <2>3 DEF ParentsSoFar
<1>16. PassMeans' /\ DiffMeans' /\ ValuesSoFar' /\ PointsAtEnd'
  BY <1>1, <1>3 DEF PassMeans, DiffMeans, ValuesSoFar, PointsAtEnd
<1>17. QED
  BY <1>1, <1>12, <1>13, <1>14, <1>15, <1>16

LEMMA EndDirectInv == CTInv /\ EndDirect => CTInv'
<1> SUFFICES ASSUME CTInv, EndDirect PROVE CTInv'
  OBVIOUS
<1> USE DEF CTInv
<1>1. /\ InputOK' /\ Node' = Node /\ last' = last /\ tree' = tree /\ strategy' = strategy
      /\ byValue' = byValue
      /\ \A j : Kept(j)' <=> Kept(j)
      /\ \A j : RightParent(j)' = RightParent(j)
      /\ \A j : RightValue(j)' = RightValue(j)
      /\ Contribution' = Contribution
  BY InputStays DEF EndDirect, input
<1>2. /\ last \in Nat /\ Node = 0 .. last
      /\ tree.parent \in [Node -> -1 .. last] /\ tree.values \in [Node -> 0 .. Modulus - 1]
  BY TreeShape DEF InputOK
<1>3. /\ pc = "direct" /\ pc' = "end" /\ i' = i /\ i = last + 1 /\ strategy = "filter_direct"
      /\ UNCHANGED <<parent, values, nodemap, pass, diff>>
  BY <1>2 DEF EndDirect, ControlOK
<1>4. ArraysOK' /\ ControlOK'
  BY <1>1, <1>3 DEF ArraysOK, ControlOK
<1>5. Untouched' /\ PassMeans' /\ DiffMeans'
  BY <1>1, <1>3 DEF Untouched, PassMeans, DiffMeans
<1>6. ParentsSoFar' /\ ValuesSoFar' /\ PointsAtEnd'
  BY <1>1, <1>3 DEF ParentsSoFar, ValuesSoFar, PointsAtEnd
<1>7. QED
  BY <1>1, <1>4, <1>5, <1>6

-----------------------------------------------------------------------------
(* The invariant holds in every behaviour. *)
THEOREM FilterInvariant == CTSpec => []CTInv
<1>1. CTInit => CTInv
  BY CTInitInv
<1>2. CTInv /\ [CTNext]_vars => CTInv'
  <2>1. CTInv /\ CTNext => CTInv'
    BY StartMaxInv, PropagateUpwardInv, EndUpInv, StartOtherInv, FilterStepsInv, EndDownInv,
       UpdateNodeMapInv, StartDirectInv, FilterParentInv, EndDirectInv DEF CTNext
  <2>2. CTInv /\ UNCHANGED vars => CTInv'
    <3> SUFFICES ASSUME CTInv, UNCHANGED vars PROVE CTInv'
      OBVIOUS
    <3>1. /\ InputOK' /\ Node' = Node /\ last' = last /\ tree' = tree /\ strategy' = strategy
          /\ byValue' = byValue
          /\ \A j : Kept(j)' <=> Kept(j)
          /\ \A j : RightParent(j)' = RightParent(j)
          /\ \A j : RightValue(j)' = RightValue(j)
          /\ Contribution' = Contribution
      BY InputStays DEF CTInv, vars, input
    <3>2. UNCHANGED <<parent, values, nodemap, pass, diff, pc, i>>
      BY DEF vars
    <3>3. ArraysOK' /\ ControlOK' /\ Untouched'
      BY <3>1, <3>2 DEF CTInv, ArraysOK, ControlOK, Untouched
    <3>4. PassMeans' /\ DiffMeans'
      BY <3>1, <3>2 DEF CTInv, PassMeans, DiffMeans
    <3>5. ParentsSoFar' /\ ValuesSoFar' /\ PointsAtEnd'
      BY <3>1, <3>2 DEF CTInv, ParentsSoFar, ValuesSoFar, PointsAtEnd
    <3>6. QED
      BY <3>1, <3>3, <3>4, <3>5 DEF CTInv
  <2>3. QED
    BY <2>1, <2>2
<1>3. QED
  BY <1>1, <1>2, PTL DEF CTSpec

(***************************************************************************)
(* The parents that filter and filter_direct write while they read the     *)
(* array are those of the tree before the filter.                          *)
(***************************************************************************)
THEOREM FilterKeepsParents == CTSpec => []ParentsAreKept
<1>1. CTInv => ParentsAreKept
  BY DEF CTInv, ParentsSoFar, ParentsAreKept, RightParent
<1>2. QED
  BY <1>1, FilterInvariant, PTL

(***************************************************************************)
(* The values that filter leaves are those of the kept nodes or, for the   *)
(* subtractive rule, the sums of their differences, whatever the width of  *)
(* the values.                                                             *)
(***************************************************************************)
THEOREM FilterKeepsValues == CTSpec => []ValuesAreKept
<1>1. CTInv => ValuesAreKept
  <2> SUFFICES ASSUME CTInv, pc \in {"map", "end"}, strategy # "filter_direct", NEW j \in Node
               PROVE  values[j] = RightValue(j)
    BY DEF ValuesAreKept, RightValue
  <2>1. i = last + 1
    BY DEF CTInv, ControlOK
  <2>2. j \in 0 .. i - 1
    BY <2>1, TreeShape DEF CTInv, InputOK
  <2>3. QED
    BY <2>2 DEF CTInv, ValuesSoFar
<1>2. QED
  BY <1>1, FilterInvariant, PTL

(***************************************************************************)
(* The points that filter maps again go to the closest kept node, for the  *)
(* strategies and the predicates for which this is so.                     *)
(***************************************************************************)
THEOREM FilterKeepsPoints == CTSpec => []PointsAreKept
<1>1. CTInv => PointsAreKept
  <2> SUFFICES ASSUME CTInv, pc = "end", strategy # "filter_direct",
                      byValue => strategy \in {"MIN", "MAX"}, NEW x \in Node
               PROVE  nodemap[x] = Closest(Branch(x))
    BY DEF PointsAreKept
  <2>1. nodemap[x] = IF x = 0 \/ Kept(x) THEN x ELSE RightParent(x)
    BY DEF CTInv, PointsAtEnd
  <2>2. CASE x = 0 \/ Kept(x)
    BY <2>1, <2>2, ClosestIsNode DEF CTInv, InputOK
  <2>3. CASE x # 0 /\ ~Kept(x)
    <3>1. x \in 1 .. last
      BY <2>3, TreeShape DEF CTInv, InputOK
    <3>2. Closest(Branch(x)) = RightParent(x)
      BY <2>3, <3>1, ClosestIsAbove, RightParentStep DEF CTInv, InputOK
    <3>3. QED
      BY <2>1, <2>3, <3>2
  <2>4. QED
    BY <2>2, <2>3
<1>2. QED
  BY <1>1, FilterInvariant, PTL

-----------------------------------------------------------------------------
(* Sequences without repetition. *)

LEMMA InjectiveAppend ==
    ASSUME NEW S, NEW s \in Seq(S), NEW x \in S
    PROVE  /\ Append(s, x) \in Seq(S)
           /\ Range(Append(s, x)) = Range(s) \cup {x}
           /\ IsInjective(s) /\ x \notin Range(s) => IsInjective(Append(s, x))
<1> DEFINE n == Len(s)
           t == Append(s, x)
<1>1. n \in Nat /\ DOMAIN s = 1 .. n
  BY LenProperties
<1>2. /\ t \in Seq(S) /\ DOMAIN t = 1 .. n + 1 /\ t[n + 1] = x
      /\ \A a \in 1 .. n : t[a] = s[a]
  BY <1>1
<1> HIDE DEF t, n
<1>3. Range(t) = Range(s) \cup {x}
  <2>1. ASSUME NEW y \in Range(t) PROVE y \in Range(s) \cup {x}
    <3>1. PICK a \in 1 .. n + 1 : y = t[a]
      BY <1>2 DEF Range
    <3>2. a = n + 1 \/ a \in 1 .. n
      BY <1>1
    <3>3. QED
      BY <1>1, <1>2, <3>1, <3>2 DEF Range
  <2>2. ASSUME NEW y \in Range(s) \cup {x} PROVE y \in Range(t)
    <3>1. n + 1 \in 1 .. n + 1 /\ \A a \in 1 .. n : a \in 1 .. n + 1
      BY <1>1
    <3>2. QED
      BY <1>1, <1>2, <3>1 DEF Range
  <2>3. QED
    BY <2>1, <2>2
<1>4. ASSUME IsInjective(s), x \notin Range(s) PROVE IsInjective(t)
  <2> SUFFICES ASSUME NEW a \in 1 .. n + 1, NEW b \in 1 .. n + 1, t[a] = t[b] PROVE a = b
    BY <1>2 DEF IsInjective
  <2>1. (a = n + 1 \/ a \in 1 .. n) /\ (b = n + 1 \/ b \in 1 .. n)
    BY <1>1
  <2>2. \A k \in 1 .. n : s[k] # x
    BY <1>1, <1>4 DEF Range
  <2>3. CASE a \in 1 .. n /\ b \in 1 .. n
    BY <1>1, <1>2, <1>4, <2>3 DEF IsInjective
  <2>4. QED
    BY <1>2, <2>1, <2>2, <2>3
<1>5. QED
  BY <1>2, <1>3, <1>4 DEF t

LEMMA InjectiveConcat ==
    ASSUME NEW S, NEW s \in Seq(S), NEW t \in Seq(S)
    PROVE  /\ s \o t \in Seq(S)
           /\ Range(s \o t) = Range(s) \cup Range(t)
           /\ IsInjective(s) /\ IsInjective(t) /\ Range(s) \cap Range(t) = {} => IsInjective(s \o t)
<1> DEFINE n == Len(s)
           m == Len(t)
           u == s \o t
<1>1. n \in Nat /\ m \in Nat /\ DOMAIN s = 1 .. n /\ DOMAIN t = 1 .. m
  BY LenProperties
<1>2. /\ u \in Seq(S) /\ DOMAIN u = 1 .. n + m
      /\ \A a \in 1 .. n : u[a] = s[a]
      /\ \A a \in 1 .. n + m : a > n => u[a] = t[a - n]
  <2>1. u \in Seq(S) /\ Len(u) = n + m /\ \A pos \in 1 .. Len(u) : u[pos] = IF pos <= n THEN s[pos] ELSE t[pos - n]
    BY ConcatProperties
  <2>2. DOMAIN u = 1 .. n + m
    BY <2>1, LenProperties
  <2> HIDE DEF u, n, m
  <2>3. QED
    BY <1>1, <2>1, <2>2
<1> HIDE DEF u, n, m
<1>3. Range(u) = Range(s) \cup Range(t)
  <2>1. ASSUME NEW y \in Range(u) PROVE y \in Range(s) \cup Range(t)
    <3>1. PICK a \in 1 .. n + m : y = u[a]
      BY <1>2 DEF Range
    <3>2. CASE a \in 1 .. n
      BY <1>1, <1>2, <3>1, <3>2 DEF Range
    <3>3. CASE a > n
      <4>1. a - n \in 1 .. m
        BY <1>1, <3>3
      <4>2. QED
        BY <1>1, <1>2, <3>1, <3>3, <4>1 DEF Range
    <3>4. QED
      BY <1>1, <3>2, <3>3
  <2>2. ASSUME NEW y \in Range(s) PROVE y \in Range(u)
    <3>1. \A a \in 1 .. n : a \in 1 .. n + m
      BY <1>1
    <3>2. QED
      BY <1>1, <1>2, <2>2, <3>1 DEF Range
  <2>3. ASSUME NEW y \in Range(t) PROVE y \in Range(u)
    <3>1. PICK a \in 1 .. m : y = t[a]
      BY <1>1, <2>3 DEF Range
    <3>2. n + a \in 1 .. n + m /\ n + a > n /\ (n + a) - n = a
      BY <1>1
    <3>3. u[n + a] = y
      BY <1>2, <3>1, <3>2
    <3>4. QED
      BY <1>2, <3>2, <3>3 DEF Range
  <2>4. QED
    BY <2>1, <2>2, <2>3
<1>4. ASSUME IsInjective(s), IsInjective(t), Range(s) \cap Range(t) = {} PROVE IsInjective(u)
  <2> SUFFICES ASSUME NEW a \in 1 .. n + m, NEW b \in 1 .. n + m, u[a] = u[b] PROVE a = b
    BY <1>2 DEF IsInjective
  <2>1. (a \in 1 .. n \/ (a > n /\ a - n \in 1 .. m)) /\ (b \in 1 .. n \/ (b > n /\ b - n \in 1 .. m))
    BY <1>1
  <2>2. \A k \in 1 .. n, l \in 1 .. m : s[k] # t[l]
    BY <1>1, <1>4 DEF Range
  <2>3. CASE a \in 1 .. n /\ b \in 1 .. n
    BY <1>1, <1>2, <1>4, <2>3 DEF IsInjective
  <2>4. CASE a > n /\ b > n /\ a - n \in 1 .. m /\ b - n \in 1 .. m
    <3>1. t[a - n] = t[b - n]
      BY <1>2, <2>4
    <3>2. a - n = b - n
      BY <1>1, <1>4, <2>4, <3>1 DEF IsInjective
    <3>3. QED
      BY <1>1, <3>2
  <2>5. QED
    BY <1>2, <2>1, <2>2, <2>3, <2>4
<1>5. QED
  BY <1>2, <1>3, <1>4 DEF u

(* The elements of s that are in A. *)
LEMMA AmongIs ==
    ASSUME NEW S, NEW s \in Seq(S), NEW A
    PROVE  /\ Among(s, A) \in Seq(S)
           /\ Range(Among(s, A)) = Range(s) \cap A
           /\ IsInjective(s) => IsInjective(Among(s, A))
<1> DEFINE n == Len(s)
           Q == Seq(S)
           g == [e \in (1 .. n) \X Q |-> IF s[e[1]] \in A THEN Append(e[2], s[e[1]]) ELSE e[2]]
           Is(u) == u = [a \in 0 .. n |->
                            IF a = 0 THEN <<>>
                            ELSE IF s[a] \in A THEN Append(u[a - 1], s[a]) ELSE u[a - 1]]
           kept == CHOOSE u : Is(u)
           First(m) == {s[b] : b \in 1 .. m}
           D == IsInjective(s)
<1>1. Among(s, A) = kept[n]
  BY DEF Among
<1>2. n \in Nat /\ DOMAIN s = 1 .. n /\ \A m \in 1 .. n : s[m] \in S
  BY LenProperties, ElementOfSeq
<1>3. Range(s) = First(n)
  BY <1>2 DEF Range
<1>4. \A m \in Nat \ {0} : First(m) = First(m - 1) \cup {s[m]}
  <2> SUFFICES ASSUME NEW m \in Nat \ {0} PROVE First(m) = First(m - 1) \cup {s[m]}
    OBVIOUS
  <2>1. 1 .. m = (1 .. m - 1) \cup {m}
    OBVIOUS
  <2>2. QED
    BY <2>1
<1>5. First(0) = {}
  OBVIOUS
<1>6. D => \A m \in 1 .. n : s[m] \notin First(m - 1)
  <2> SUFFICES ASSUME D, NEW m \in 1 .. n, NEW b \in 1 .. m - 1, s[m] = s[b] PROVE FALSE
    OBVIOUS
  <2>1. b \in 1 .. n /\ b # m
    BY <1>2
  <2>2. QED
    BY <1>2, <2>1 DEF IsInjective
<1> HIDE DEF First, D
<1>7. \A m \in 1 .. n, h \in Q :
          /\ Append(h, s[m]) \in Q
          /\ Range(Append(h, s[m])) = Range(h) \cup {s[m]}
          /\ IsInjective(h) /\ s[m] \notin Range(h) => IsInjective(Append(h, s[m]))
  BY <1>2, InjectiveAppend
<1>8. <<>> \in Q /\ Range(<<>>) = {} /\ IsInjective(<<>>)
  BY DEF Range, IsInjective
<1> HIDE DEF Q, n
<1>9. \A m \in 1 .. n, h \in Q : /\ g[<<m, h>>] = (IF s[m] \in A THEN Append(h, s[m]) ELSE h)
                                 /\ g[<<m, h>>] \in Q
  BY <1>7
<1> HIDE DEF g
<1>10. PICK u \in [0 .. n -> Q] : IsRecursion(u, g, <<>>, n)
  BY <1>2, <1>8, <1>9, RecursionExists
<1>11. ASSUME NEW m \in 0 .. n
       PROVE  u[m] = IF m = 0 THEN <<>> ELSE IF s[m] \in A THEN Append(u[m - 1], s[m]) ELSE u[m - 1]
  <2>1. u[m] = IF m = 0 THEN <<>> ELSE g[<<m, u[m - 1]>>]
    BY <1>10 DEF IsRecursion
  <2>2. CASE m # 0
    <3>1. m \in 1 .. n /\ m - 1 \in 0 .. n
      BY <1>2, <2>2
    <3>2. u[m - 1] \in Q
      BY <3>1
    <3>3. QED
      BY <1>9, <2>1, <2>2, <3>1, <3>2
  <2>3. QED
    BY <2>1, <2>2
<1>12. Is(u)
  <2>1. u = [m \in 0 .. n |-> u[m]]
    OBVIOUS
  <2>2. QED
    BY <1>11, <2>1
<1>13. Is(kept)
  <2> HIDE DEF Is
  <2>1. QED
    BY <1>12
<1> HIDE DEF kept
<1>14. \A m \in 0 .. n : kept[m] = IF m = 0 THEN <<>>
                                   ELSE IF s[m] \in A THEN Append(kept[m - 1], s[m]) ELSE kept[m - 1]
  BY <1>13
<1> HIDE DEF Is
<1> DEFINE OK(m) == kept[m] \in Q /\ Range(kept[m]) = First(m) \cap A /\ (D => IsInjective(kept[m]))
           T == {m \in Nat : m <= n => OK(m)}
<1>15. 0 \in T
  <2>1. 0 \in 0 .. n
    BY <1>2
  <2>2. kept[0] = <<>>
    BY <1>14, <2>1
  <2>3. QED
    BY <1>5, <1>8, <2>2
<1>16. ASSUME NEW m \in T PROVE m + 1 \in T
  <2> DEFINE k == m + 1
  <2>1. m \in Nat /\ k \in Nat \ {0} /\ k - 1 = m
    OBVIOUS
  <2> SUFFICES ASSUME k <= n PROVE OK(k)
    BY <2>1
  <2>2. OK(m)
    BY <1>2, <2>1
  <2>3. k \in 1 .. n /\ k \in 0 .. n
    BY <1>2, <2>1
  <2> HIDE DEF k, T
  <2>4. kept[k] = IF s[k] \in A THEN Append(kept[m], s[k]) ELSE kept[m]
    BY <1>14, <2>1, <2>3
  <2>5. First(k) = First(m) \cup {s[k]}
    BY <1>4, <2>1
  <2>6. D => s[k] \notin First(m)
    BY <1>6, <2>1, <2>3
  <2>7. CASE s[k] \in A
    <3>1. Range(kept[k]) = First(k) \cap A /\ kept[k] \in Q
      BY <1>7, <2>2, <2>3, <2>4, <2>5, <2>7
    <3>2. D => IsInjective(kept[k])
      <4>1. D => s[k] \notin Range(kept[m])
        BY <2>2, <2>6
      <4>2. QED
        BY <1>7, <2>2, <2>3, <2>4, <2>7, <4>1
    <3>3. QED
      BY <3>1, <3>2
  <2>8. CASE s[k] \notin A
    <3>1. First(k) \cap A = First(m) \cap A
      BY <2>5, <2>8
    <3>2. QED
      BY <2>2, <2>4, <2>8, <3>1
  <2>9. QED
    BY <2>7, <2>8
<1>17. T = Nat
  BY <1>15, <1>16, SetOfAllNaturals
<1> HIDE DEF T
<1>18. n \in T
  BY <1>2, <1>17
<1>19. OK(n)
  BY <1>2, <1>18 DEF T
<1>20. QED
  BY <1>1, <1>3, <1>19 DEF Q, D

(* The least and the greatest of finitely many integers. *)
LEMMA LeastOfSome ==
    ASSUME NEW S, S \subseteq Int, IsFiniteSet(S), S # {}
    PROVE  \E x \in S : \A y \in S : x <= y
<1> DEFINE B(x) == {y \in S : y < x}
           N == {Cardinality(B(x)) : x \in S}
<1>1. \A x \in S : IsFiniteSet(B(x)) /\ Cardinality(B(x)) \in Nat
  <2> SUFFICES ASSUME NEW x \in S PROVE IsFiniteSet(B(x)) /\ Cardinality(B(x)) \in Nat
    OBVIOUS
  <2>1. IsFiniteSet(B(x))
    BY FS_Subset
  <2>2. QED
    BY <2>1, FS_CardinalityType
<1>2. N \in SUBSET Nat /\ N # {}
  BY <1>1
<1>3. PICK k \in N : \A m \in N : k <= m
  BY <1>2, LeastElement
<1>4. PICK x \in S : k = Cardinality(B(x))
  BY <1>3
<1>5. \A y \in S : x <= y
  <2> SUFFICES ASSUME NEW y \in S, ~(x <= y) PROVE FALSE
    OBVIOUS
  <2>1. y \in B(x) /\ B(y) \subseteq B(x) /\ y \notin B(y)
    <3>1. x \in Int /\ y \in Int /\ y < x
      OBVIOUS
    <3>2. \A z \in Int : z < y => z < x
      BY <3>1
    <3>3. y \in B(x) /\ y \notin B(y)
      BY <3>1
    <3>4. ASSUME NEW z \in B(y) PROVE z \in B(x)
      BY <3>2
    <3>5. QED
      BY <3>3, <3>4
  <2> HIDE DEF B
  <2>2. B(y) \in SUBSET B(x) /\ B(y) # B(x)
    BY <2>1
  <2>3. Cardinality(B(y)) < Cardinality(B(x))
    <3>1. IsFiniteSet(B(x)) /\ IsFiniteSet(B(y))
      BY <1>1
    <3>2. Cardinality(B(x)) \in Nat /\ Cardinality(B(y)) \in Nat
      BY <3>1, FS_CardinalityType
    <3>3. Cardinality(B(y)) <= Cardinality(B(x)) /\ Cardinality(B(x)) # Cardinality(B(y))
      BY <2>2, <3>1, FS_Subset
    <3>4. QED
      BY <3>2, <3>3
  <2>4. k <= Cardinality(B(y))
    BY <1>3
  <2>5. QED
    BY <1>1, <1>4, <2>3, <2>4
<1>6. QED
  BY <1>5

LEMMA FiniteExtrema ==
    ASSUME NEW S, S \subseteq Int, IsFiniteSet(S), S # {}
    PROVE  /\ Min(S) \in S /\ \A y \in S : Min(S) <= y
           /\ Max(S) \in S /\ \A y \in S : y <= Max(S)
<1>1. PICK x \in S : \A y \in S : x <= y
  BY LeastOfSome
<1>2. Min(S) \in S /\ \A y \in S : Min(S) <= y
  BY <1>1 DEF Min
<1> DEFINE T == {-y : y \in S}
<1>3. T \subseteq Int /\ T # {}
  OBVIOUS
<1>4. IsFiniteSet(T)
  <2> DEFINE g == [y \in S |-> -y]
  <2>1. T = {g[y] : y \in S}
    OBVIOUS
  <2>2. g \in Surjection(S, T)
    BY <2>1 DEF Surjection
  <2> HIDE DEF g, T
  <2>3. QED
    BY <2>2, FS_Surjection
<1> HIDE DEF T
<1>5. PICK z \in T : \A y \in T : z <= y
  BY <1>3, <1>4, LeastOfSome
<1>6. PICK m \in S : z = -m
  BY DEF T
<1>7. \A y \in S : m >= y
  <2> SUFFICES ASSUME NEW y \in S PROVE m >= y
    OBVIOUS
  <2>1. -y \in T
    BY DEF T
  <2>2. -m <= -y
    BY <1>5, <1>6, <2>1
  <2>3. m \in Int /\ y \in Int
    OBVIOUS
  <2>4. QED
    BY <2>2, <2>3
<1>8. Max(S) \in S /\ \A y \in S : Max(S) >= y
  BY <1>7 DEF Max
<1>9. \A y \in S : y <= Max(S)
  <2> SUFFICES ASSUME NEW y \in S PROVE y <= Max(S)
    OBVIOUS
  <2>1. Max(S) \in Int /\ y \in Int /\ Max(S) >= y
    BY <1>8
  <2>2. QED
    BY <2>1
<1>10. QED
  BY <1>2, <1>8, <1>9

LEMMA PoppedIs ==
    ASSUME NEW S, NEW s \in Seq(S), s # <<>>, IsInjective(s)
    PROVE  /\ s[Len(s)] \in Range(s) /\ s[Len(s)] \in S
           /\ SubSeq(s, 1, Len(s) - 1) \in Seq(S)
           /\ IsInjective(SubSeq(s, 1, Len(s) - 1))
           /\ Range(SubSeq(s, 1, Len(s) - 1)) = Range(s) \ {s[Len(s)]}
<1> DEFINE n == Len(s)
           t == SubSeq(s, 1, Len(s) - 1)
<1>1. n \in Nat \ {0} /\ DOMAIN s = 1 .. n /\ \A a \in 1 .. n : s[a] \in S
  BY LenProperties, ElementOfSeq, EmptySeq
<1>2. t \in Seq(S) /\ DOMAIN t = 1 .. n - 1 /\ \A a \in 1 .. n - 1 : t[a] = s[a]
  BY <1>1
<1> HIDE DEF n, t
<1>3. n \in 1 .. n /\ \A a \in 1 .. n - 1 : a \in 1 .. n /\ a # n
  BY <1>1
<1>4. IsInjective(t)
  BY <1>1, <1>2, <1>3 DEF IsInjective
<1>5. Range(t) = Range(s) \ {s[n]}
  <2>1. ASSUME NEW x \in Range(t) PROVE x \in Range(s) \ {s[n]}
    <3>1. PICK a \in 1 .. n - 1 : x = s[a]
      BY <1>2, <2>1 DEF Range
    <3>2. s[a] # s[n]
      BY <1>1, <1>3 DEF IsInjective
    <3>3. QED
      BY <1>1, <1>3, <3>1, <3>2 DEF Range
  <2>2. ASSUME NEW x \in Range(s) \ {s[n]} PROVE x \in Range(t)
    <3>1. PICK a \in 1 .. n : x = s[a]
      BY <1>1, <2>2 DEF Range
    <3>2. a \in 1 .. n - 1
      BY <1>1, <2>2, <3>1
    <3>3. QED
      BY <1>2, <3>1, <3>2 DEF Range
  <2>3. QED
    BY <2>1, <2>2
<1>6. s[n] \in Range(s) /\ s[n] \in S
  BY <1>1, <1>3 DEF Range
<1>7. QED
  BY <1>2, <1>4, <1>5, <1>6 DEF n, t

-----------------------------------------------------------------------------
(* The boxes of pixels and of faces. *)
LEMMA DoubledIs ==
    ASSUME NEW D, IsOrigined(D)
    PROVE  /\ IsOrigined(Doubled(D)) /\ D \subseteq Doubled(D)
           /\ Doubled(D) \subseteq Int \X Int
           /\ IsFiniteSet(Doubled(D)) /\ Doubled(D) # {}
           /\ \A q \in Doubled(D) : /\ Around(q) \subseteq D
                                    /\ IsFiniteSet(Around(q)) /\ Around(q) # {}
<1>1. PICK b \in D : D = (0 .. b[1]) \X (0 .. b[2])
  BY DEF IsOrigined
<1> DEFINE w == b[1]
           h == b[2]
<1>2. w \in Nat /\ h \in Nat /\ b = <<w, h>>
  BY <1>1
<1> DEFINE far == CHOOSE t \in D : \A a \in D : a[1] <= t[1] /\ a[2] <= t[2]
<1>3. \A a \in D : a[1] <= b[1] /\ a[2] <= b[2]
  BY <1>1, <1>2
<1>4. far \in D /\ \A a \in D : a[1] <= far[1] /\ a[2] <= far[2]
  BY <1>3
<1>5. far[1] = w /\ far[2] = h
  <2>1. far[1] \in 0 .. w /\ far[2] \in 0 .. h
    BY <1>1, <1>4
  <2>2. w <= far[1] /\ h <= far[2]
    BY <1>4
  <2>3. QED
    BY <1>2, <2>1, <2>2
<1>6. Doubled(D) = {<<x, y>> : x \in 0 .. 2 * far[1], y \in 0 .. 2 * far[2]}
  BY DEF Doubled
<1> HIDE DEF far, w, h
<1>7. Doubled(D) = (0 .. 2 * w) \X (0 .. 2 * h)
  BY <1>5, <1>6
<1>8. IsOrigined(Doubled(D))
  <2> DEFINE t == <<2 * w, 2 * h>>
  <2>1. t \in Doubled(D) /\ t[1] = 2 * w /\ t[2] = 2 * h
    BY <1>2, <1>7
  <2> HIDE DEF t
  <2>2. QED
    BY <1>7, <2>1 DEF IsOrigined
<1>9. D = (0 .. w) \X (0 .. h)
  BY <1>1 DEF w, h
<1>10. D \subseteq Doubled(D) /\ Doubled(D) \subseteq Int \X Int /\ Doubled(D) # {}
  BY <1>2, <1>7, <1>9
<1>11. IsFiniteSet(Doubled(D))
  <2>1. 2 * w \in Int /\ 2 * h \in Int
    BY <1>2
  <2>3. IsFiniteSet(0 .. 2 * w) /\ IsFiniteSet(0 .. 2 * h)
    BY <2>1, FS_Interval
  <2>2. QED
    BY <1>7, <2>3, FS_Product
<1>12. ASSUME NEW q \in Doubled(D)
       PROVE  Around(q) \subseteq D /\ IsFiniteSet(Around(q)) /\ Around(q) # {}
  <2>1. q[1] \in 0 .. 2 * w /\ q[2] \in 0 .. 2 * h
    BY <1>7
  <2> DEFINE X == {q[1] \div 2, (q[1] + 1) \div 2}
             Y == {q[2] \div 2, (q[2] + 1) \div 2}
  <2>2. q[1] \div 2 \in 0 .. w /\ (q[1] + 1) \div 2 \in 0 .. w
    BY <1>2, <2>1
  <2>3. q[2] \div 2 \in 0 .. h /\ (q[2] + 1) \div 2 \in 0 .. h
    BY <1>2, <2>1
  <2>4. X \subseteq 0 .. w /\ Y \subseteq 0 .. h /\ X # {} /\ Y # {}
    BY <2>2, <2>3
  <2>5. Around(q) = X \X Y
    BY DEF Around
  <2>6. IsFiniteSet(0 .. w) /\ IsFiniteSet(0 .. h)
    BY <1>2, FS_Interval
  <2> HIDE DEF X, Y
  <2>7. IsFiniteSet(X) /\ IsFiniteSet(Y)
    BY <2>4, <2>6, FS_Subset
  <2>8. IsFiniteSet(X \X Y)
    BY <2>7, FS_Product
  <2>9. X \X Y \subseteq (0 .. w) \X (0 .. h) /\ X \X Y # {}
    <3>1. \A A, B, U, V : A \subseteq U /\ B \subseteq V => A \X B \subseteq U \X V
      OBVIOUS
    <3>2. PICK x \in X, y \in Y : TRUE
      BY <2>4
    <3>3. <<x, y>> \in X \X Y
      OBVIOUS
    <3>4. QED
      BY <2>4, <3>1, <3>3
  <2>10. QED
    BY <1>9, <2>5, <2>8, <2>9
<1>13. QED
  BY <1>8, <1>10, <1>11, <1>12

-----------------------------------------------------------------------------
(* The images: three channels have the same box, and the map of the depths  *)
(* has a value for each face.                                               *)
BoxOf(k) == IF k <= ntrees THEN DOMAIN inputs[1] ELSE Doubled(DOMAIN inputs[1])

ImagesOf(box) == [box -> Int] \cup [Doubled(box) -> Int]

InputsOK ==
    /\ Len(inputs) \in {1, ntrees, ntrees + 1} /\ c \in 1 .. Len(inputs)
    /\ inputs \in Seq(ImagesOf(BoxOf(1)))
    /\ \A k \in 1 .. Len(inputs) : inputs[k] \in [BoxOf(k) -> Int]
    /\ IsOrigined(BoxOf(1)) /\ pstart \in Doubled(BoxOf(1))
    /\ IsNeighbourhood(Doubled(BoxOf(1))) /\ IsNeighbourhood(Doubled(Doubled(BoxOf(1))))

LEMMA InputsAtFirst ==
    ASSUME MtosInit
    PROVE  InputsOK
<1>1. PICK given \in Inputs : inputs = given.images /\ pstart = given.start
  BY DEF MtosInit, Init
<1> DEFINE box == DOMAIN given.images[1]
<1>2. IsOrigined(box) /\ given.images \in Seq([box -> Level]) /\ given.start \in Doubled(box)
  BY TosAssumption
<1>3. IsNeighbourhood(Doubled(box)) /\ IsNeighbourhood(Doubled(Doubled(box)))
  BY TosAssumption
<1>4. Len(inputs) \in {1, ntrees} /\ c = 1
  BY <1>1, MtosAssumption DEF MtosInit, Init
<1>5. \A k \in 1 .. Len(inputs) : BoxOf(k) = box
  <2>1. \A k \in 1 .. Len(inputs) : k <= ntrees
    <3> DEFINE n == Len(inputs)
    <3>1. n = 1 \/ n = 3
      BY <1>4 DEF ntrees
    <3> HIDE DEF n
    <3>2. \A k \in 1 .. n : k <= 3
      BY <3>1
    <3>3. QED
      BY <3>2 DEF n, ntrees
  <2>2. DOMAIN inputs[1] = box
    BY <1>1
  <2>3. QED
    BY <2>1, <2>2 DEF BoxOf
<1>6. BoxOf(1) = box
  BY <1>1 DEF BoxOf, ntrees
<1> HIDE DEF box
<1>7. Level \subseteq Int
  BY TosAssumption DEF Level
<1>8. [box -> Level] \subseteq [box -> Int]
  BY <1>7
<1>9. [box -> Level] \subseteq ImagesOf(box)
  BY <1>8 DEF ImagesOf
<1>10. inputs \in Seq(ImagesOf(box))
  BY <1>1, <1>2, <1>9, SeqMonotonic
<1>11. \A k \in 1 .. Len(inputs) : inputs[k] \in [box -> Int]
  BY <1>1, <1>2, <1>8, ElementOfSeq
<1>12. 1 \in 1 .. Len(inputs) /\ Len(inputs) \in {1, ntrees, ntrees + 1}
  BY <1>4 DEF ntrees
<1>13. QED
  BY <1>1, <1>2, <1>3, <1>4, <1>5, <1>6, <1>10, <1>11, <1>12 DEF InputsOK

LEMMA BoxesAre ==
    ASSUME InputsOK, NEW k \in 1 .. ntrees + 1
    PROVE  /\ IsOrigined(BoxOf(k)) /\ pstart \in Doubled(BoxOf(k))
           /\ IsNeighbourhood(Doubled(BoxOf(k)))
           /\ Doubled(BoxOf(k)) \subseteq Int \X Int
           /\ IsFiniteSet(Doubled(BoxOf(k))) /\ Doubled(BoxOf(k)) # {}
           /\ k <= Len(inputs) => inputs[k] \in [BoxOf(k) -> Int]
<1>1. BoxOf(k) = BoxOf(1) \/ BoxOf(k) = Doubled(BoxOf(1))
  BY DEF BoxOf, ntrees
<1>2. IsOrigined(BoxOf(1)) /\ IsOrigined(Doubled(BoxOf(1)))
  BY DoubledIs DEF InputsOK
<1>3. IsOrigined(BoxOf(k)) /\ IsNeighbourhood(Doubled(BoxOf(k)))
  BY <1>1, <1>2 DEF InputsOK
<1>4. pstart \in Doubled(BoxOf(k))
  <2>1. Doubled(BoxOf(1)) \subseteq Doubled(Doubled(BoxOf(1)))
    BY <1>2, DoubledIs
  <2>2. QED
    BY <1>1, <2>1 DEF InputsOK
<1>5. k <= Len(inputs) => inputs[k] \in [BoxOf(k) -> Int]
  BY DEF InputsOK
<1>6. QED
  BY <1>3, <1>4, <1>5, DoubledIs

-----------------------------------------------------------------------------
(* The propagation. *)
FacesOK ==
    /\ stage # "immerse" => ord \in [Doubled(BoxOf(c)) -> Int]
    /\ stage = "immerse" /\ c > 1 => ord \in [Doubled(BoxOf(c - 1)) -> Int]

StacksOK ==
    /\ lists \in [Level -> Seq(Int \X Int)]
    /\ stage \notin {"pop", "visit"} => QueueEmpty

AllMarked == \A l \in Level : \A q \in Waiting(l) : ord[q] = PROCESSED

OnlyStart == \A l \in Level : Waiting(l) \subseteq {pstart}

(* The faces wait once, at a level of their interval. *)
WaitOK ==
    /\ \A l \in Level :
          /\ IsInjective(lists[l])
          /\ \A q \in Waiting(l) : q \in Faces /\ inf[q] <= l /\ l <= sup[q] /\ ord[q] \in {UNPROCESSED, PROCESSED}
    /\ \A l, m \in Level : l # m => Waiting(l) \cap Waiting(m) = {}

(* The depths are those of levels of the intervals. *)
DepthsOK ==
    /\ depth \in Nat /\ depth2lvl \in Seq(Int) /\ Len(depth2lvl) = depth + 1
    /\ \A q \in Faces :
          /\ ord[q] \in UNPROCESSED .. depth
          /\ ord[q] > PROCESSED => inf[q] <= depth2lvl[ord[q] + 1] /\ depth2lvl[ord[q] + 1] <= sup[q]

IntervalsOK ==
    /\ inf \in [Faces -> Int] /\ sup \in [Faces -> Int]
    /\ \A q \in Faces : inf[q] <= sup[q]

PopOK == depth2lvl[depth + 1] = previous_level /\ (AllMarked \/ OnlyStart)

VisitOK ==
    /\ depth2lvl[depth + 1] = cur_level /\ AllMarked
    /\ p \in Faces /\ AtLevel(p) /\ ord[p] <= PROCESSED
    /\ \A l \in Level : p \notin Waiting(l)

FrontOK ==
    stage \in {"pop", "visit"} =>
        /\ IntervalsOK /\ WaitOK /\ DepthsOK
        /\ stage = "pop" => PopOK
        /\ stage = "visit" => VisitOK

FrontInv == FacesOK /\ StacksOK /\ FrontOK

LEMMA LevelsAre == MaxLevel \in Nat /\ Level \subseteq Int /\ IsFiniteSet(Level)
<1>1. MaxLevel \in Nat
  BY TosAssumption
<1>2. IsFiniteSet(0 .. MaxLevel)
  BY <1>1, FS_Interval
<1>3. QED
  BY <1>1, <1>2 DEF Level

(* The invariant contains the property. *)
LEMMA FrontIsSoundThen ==
    ASSUME FrontInv
    PROVE  FrontIsSound
<1> SUFFICES ASSUME stage \in {"pop", "visit"} PROVE FrontIsSound
  BY DEF FrontIsSound
<1>1. IntervalsOK /\ WaitOK /\ DepthsOK /\ (stage = "visit" => VisitOK) /\ (stage = "pop" => PopOK)
  BY DEF FrontInv, FrontOK
<1>2. \A l, m \in Level :
          /\ \A q \in Waiting(l) : inf[q] <= l /\ l <= sup[q]
          /\ l # m => Waiting(l) \cap Waiting(m) = {}
  BY <1>1 DEF WaitOK
<1>3. ASSUME NEW l \in Level PROVE Cardinality(Waiting(l)) = Len(lists[l])
  <2> DEFINE s == lists[l]
  <2>1. s \in Seq(Int \X Int) /\ IsInjective(s)
    BY <1>1 DEF FrontInv, StacksOK, WaitOK
  <2> HIDE DEF s
  <2>2. DOMAIN s = 1 .. Len(s) /\ Len(s) \in Nat
    BY <2>1, LenProperties
  <2>3. s \in Bijection(1 .. Len(s), Range(s))
    BY <2>1, <2>2 DEF Bijection, Injection, Surjection, IsInjective, Range
  <2>4. IsFiniteSet(1 .. Len(s)) /\ Cardinality(1 .. Len(s)) = Len(s)
    <3>1. IsFiniteSet(1 .. Len(s)) /\ Cardinality(1 .. Len(s)) = IF 1 > Len(s) THEN 0 ELSE Len(s) - 1 + 1
      BY <2>2, FS_Interval
    <3>2. QED
      BY <2>2, <3>1
  <2>5. Cardinality(Range(s)) = Cardinality(1 .. Len(s))
    <3>1. s \in Surjection(1 .. Len(s), Range(s)) /\ s \in Injection(1 .. Len(s), Range(s))
      BY <2>3 DEF Bijection
    <3>2. QED
      BY <2>4, <3>1, FS_Surjection
  <2>6. QED
    BY <2>4, <2>5 DEF s, Waiting
<1>4. stage = "visit" => /\ AtLevel(p) /\ depth2lvl[depth + 1] = cur_level
                         /\ \A l \in Level : p \notin Waiting(l)
  BY <1>1 DEF VisitOK
<1>5. ASSUME NEW q \in Faces, ord[q] > PROCESSED
      PROVE  /\ \A l \in Level : q \notin Waiting(l)
             /\ inf[q] <= depth2lvl[ord[q] + 1] /\ depth2lvl[ord[q] + 1] <= sup[q]
  <2>1. \A l \in Level : \A r \in Waiting(l) : ord[r] \in {UNPROCESSED, PROCESSED}
    BY <1>1 DEF WaitOK
  <2>2. \A l \in Level : q \notin Waiting(l)
    BY <1>5, <2>1 DEF UNPROCESSED, PROCESSED
  <2>3. QED
    BY <1>1, <1>5, <2>2 DEF DepthsOK
<1>6. QED
  BY <1>2, <1>3, <1>4, <1>5 DEF FrontIsSound

LEMMA ImageIsFinite ==
    ASSUME NEW S, IsFiniteSet(S), NEW g
    PROVE  IsFiniteSet({g[x] : x \in S})
<1> DEFINE T == {g[x] : x \in S}
           h == [x \in S |-> g[x]]
<1>1. h \in Surjection(S, T)
  BY DEF Surjection
<1> HIDE DEF T, h
<1>2. IsFiniteSet(T)
  BY <1>1, FS_Surjection
<1>3. QED
  BY <1>2 DEF T

LEMMA ImmersionIs ==
    ASSUME InputsOK, Immersion
    PROVE  /\ DOMAIN inf' = Doubled(BoxOf(c))
           /\ inf' \in [Doubled(BoxOf(c)) -> Int] /\ sup' \in [Doubled(BoxOf(c)) -> Int]
           /\ \A q \in Doubled(BoxOf(c)) : inf'[q] <= sup'[q]
<1> DEFINE D == BoxOf(c)
           F == Doubled(D)
           g == inputs[c]
<1>1. c \in 1 .. ntrees + 1 /\ c <= Len(inputs)
  BY DEF InputsOK, ntrees
<1>2. IsOrigined(D) /\ g \in [D -> Int]
  BY <1>1, BoxesAre
<1> HIDE DEF D
<1>3. DOMAIN g = D
  BY <1>2
<1>4. /\ inf' = [q \in F |-> Min({g[r] : r \in Around(q)})]
      /\ sup' = [q \in F |-> Max({g[r] : r \in Around(q)})]
  BY <1>3 DEF Immersion
<1>5. \A q \in F : Around(q) \subseteq D /\ IsFiniteSet(Around(q)) /\ Around(q) # {}
  BY <1>2, DoubledIs
<1> HIDE DEF F, g
<1>6. ASSUME NEW q \in F
      PROVE  inf'[q] \in Int /\ sup'[q] \in Int /\ inf'[q] <= sup'[q]
  <2> DEFINE A == Around(q)
             V == {g[r] : r \in A}
  <2>1. A \subseteq D /\ IsFiniteSet(A) /\ A # {}
    BY <1>5
  <2> HIDE DEF A
  <2>2. V \subseteq Int /\ V # {}
    BY <1>2, <2>1
  <2>3. IsFiniteSet(V)
    BY <2>1, ImageIsFinite
  <2> HIDE DEF V
  <2>4. Min(V) \in V /\ Max(V) \in V /\ \A y \in V : y <= Max(V)
    BY <2>2, <2>3, FiniteExtrema
  <2>5. inf'[q] = Min(V) /\ sup'[q] = Max(V)
    BY <1>4 DEF V, A
  <2>6. QED
    BY <2>2, <2>4, <2>5
<1>7. DOMAIN inf' = F /\ DOMAIN sup' = F /\ inf' = [q \in F |-> inf'[q]] /\ sup' = [q \in F |-> sup'[q]]
  BY <1>4
<1>8. QED
  BY <1>6, <1>7 DEF F, D

(* What does not depend on the propagation. *)
LEMMA BoxKept ==
    ASSUME NEW k, UNCHANGED inputs
    PROVE  BoxOf(k)' = BoxOf(k)
BY DEF BoxOf

LEMMA ImmerseKeeps ==
    ASSUME InputsOK, FrontInv, Immerse
    PROVE  FrontInv'
<1> DEFINE F == Doubled(BoxOf(c))
           l0 == inf'[pstart]
<1>1. /\ stage = "immerse" /\ Immersion
      /\ ord' = [q \in DOMAIN inf' |-> UNPROCESSED]
      /\ previous_level' = l0
      /\ lists' = PushFront(lists, l0, pstart)
      /\ depth' = 0
      /\ depth2lvl' = <<l0>>
      /\ stage' = "pop"
      /\ UNCHANGED <<inputs, pstart, c>>
  BY DEF Immerse
<1>2. /\ DOMAIN inf' = F /\ inf' \in [F -> Int] /\ sup' \in [F -> Int]
      /\ \A q \in F : inf'[q] <= sup'[q]
  BY <1>1, ImmersionIs
<1>3. c \in 1 .. ntrees + 1
  BY DEF InputsOK, ntrees
<1>4. pstart \in F /\ F \subseteq Int \X Int
  BY <1>3, BoxesAre
<1>5. lists \in [Level -> Seq(Int \X Int)] /\ \A l \in Level : lists[l] = <<>>
  BY <1>1 DEF FrontInv, StacksOK, QueueEmpty
<1>12. BoxOf(c)' = BoxOf(c)
  BY <1>1 DEF BoxOf
<1> HIDE DEF l0
<1>6. ord' \in [F -> Int] /\ Faces' = F /\ \A q \in F : ord'[q] = UNPROCESSED
  BY <1>1, <1>2 DEF Faces, UNPROCESSED
<1>7. FacesOK'
  BY <1>1, <1>6, <1>12 DEF FacesOK
<1> HIDE DEF F
<1>8. /\ <<>> \in Seq(Int \X Int) /\ Range(<<>>) = {} /\ IsInjective(<<>>)
      /\ Append(<<>>, pstart) \in Seq(Int \X Int) /\ Range(Append(<<>>, pstart)) = {pstart}
      /\ IsInjective(Append(<<>>, pstart))
  <2>1. <<>> \in Seq(Int \X Int) /\ Range(<<>>) = {} /\ IsInjective(<<>>)
    BY DEF Range, IsInjective
  <2>2. pstart \in Int \X Int
    BY <1>4
  <2> DEFINE S == Int \X Int
             e == <<>>
  <2>3. e \in Seq(S) /\ pstart \in S /\ Range(e) = {} /\ IsInjective(e)
    BY <2>1, <2>2
  <2> HIDE DEF S, e
  <2>4. Append(e, pstart) \in Seq(S) /\ Range(Append(e, pstart)) = {pstart} /\ IsInjective(Append(e, pstart))
    BY <2>3, InjectiveAppend
  <2>5. QED
    BY <2>1, <2>4 DEF S, e
<1>9. ASSUME NEW l \in Level
      PROVE  /\ lists'[l] \in Seq(Int \X Int) /\ IsInjective(lists'[l])
             /\ Waiting(l)' = IF l = l0 THEN {pstart} ELSE {}
  <2>1. lists'[l] = IF l = l0 THEN Append(<<>>, pstart) ELSE <<>>
    BY <1>1, <1>5 DEF PushFront
  <2>2. QED
    BY <1>8, <2>1 DEF Waiting
<1>10. StacksOK'
  <2>1. DOMAIN lists' = Level /\ lists' = [l \in Level |-> lists'[l]]
    BY <1>1, <1>5 DEF PushFront
  <2>2. lists' \in [Level -> Seq(Int \X Int)]
    BY <1>9, <2>1
  <2>3. QED
    BY <1>1, <2>2 DEF StacksOK
<1>11. FrontOK'
  <2>1. IntervalsOK'
    BY <1>2, <1>6 DEF IntervalsOK
  <2>2. WaitOK'
    <3>1. ASSUME NEW l \in Level, NEW q \in Waiting(l)'
          PROVE  q \in F /\ inf'[q] <= l /\ l <= sup'[q] /\ ord'[q] \in {UNPROCESSED, PROCESSED}
      <4>1. l = l0 /\ q = pstart
        BY <1>9, <3>1
      <4>2. inf'[q] = l /\ l \in Int
        BY <1>2, <1>4, <4>1 DEF l0
      <4>3. l <= l /\ l <= sup'[q]
        BY <1>2, <1>4, <4>1, <4>2
      <4>4. QED
        BY <1>4, <1>6, <4>1, <4>2, <4>3
    <3>2. \A l, m \in Level : l # m => Waiting(l)' \cap Waiting(m)' = {}
      BY <1>9
    <3>3. QED
      BY <1>6, <1>9, <3>1, <3>2 DEF WaitOK, Waiting
  <2>3. DepthsOK'
    <3>1. l0 \in Int
      BY <1>2, <1>4 DEF l0
    <3>2. depth2lvl' \in Seq(Int) /\ Len(depth2lvl') = 1 /\ depth' = 0
      BY <1>1, <3>1
    <3>3. \A q \in F : ord'[q] \in UNPROCESSED .. 0 /\ ~(ord'[q] > PROCESSED)
      BY <1>6 DEF UNPROCESSED, PROCESSED
    <3>4. QED
      BY <1>6, <3>2, <3>3 DEF DepthsOK
  <2>4. PopOK'
    <3>1. depth2lvl'[depth' + 1] = previous_level'
      BY <1>1
    <3>2. OnlyStart'
      BY <1>1, <1>9 DEF OnlyStart
    <3>3. QED
      BY <3>1, <3>2 DEF PopOK
  <2>5. QED
    BY <1>1, <2>1, <2>2, <2>3, <2>4 DEF FrontOK
<1>13. QED
  BY <1>7, <1>10, <1>11 DEF FrontInv

(* The first level from l that is not empty, or the first one below. *)
LEMMA ClosestLevelIs ==
    ASSUME NEW l, ~QueueEmpty
    PROVE  ClosestLevel(l) \in Level /\ lists[ClosestLevel(l)] # <<>>
<1> DEFINE waiting == {m \in Level : lists[m] # <<>>}
           above == {m \in waiting : m >= l}
<1>1. waiting # {}
  BY DEF QueueEmpty
<1>2. waiting \subseteq Level /\ above \subseteq waiting
  OBVIOUS
<1>3. ClosestLevel(l) = IF above # {} THEN Min(above) ELSE Max(waiting)
  BY DEF ClosestLevel
<1>4. \A m \in waiting : m \in Level /\ lists[m] # <<>>
  OBVIOUS
<1> HIDE DEF waiting, above
<1>5. waiting \subseteq Int /\ above \subseteq Int /\ IsFiniteSet(waiting) /\ IsFiniteSet(above)
  BY <1>2, LevelsAre, FS_Subset
<1>6. ClosestLevel(l) \in waiting
  <2>1. CASE above # {}
    <3>1. Min(above) \in above
      BY <1>5, <2>1, FiniteExtrema
    <3>2. QED
      BY <1>2, <1>3, <2>1, <3>1
  <2>2. CASE above = {}
    <3>1. Max(waiting) \in waiting
      BY <1>1, <1>5, FiniteExtrema
    <3>2. QED
      BY <1>3, <2>2, <3>1
  <2>3. QED
    BY <2>1, <2>2
<1>7. QED
  BY <1>4, <1>6

LEMMA PopFaceKeeps ==
    ASSUME InputsOK, FrontInv, PopFace
    PROVE  FrontInv'
<1>0. PICK l0 : l0 = ClosestLevel(previous_level)
  OBVIOUS
<1> DEFINE s == lists[l0]
           x == s[Len(s)]
           F == Doubled(BoxOf(c))
<1>1. /\ stage = "pop" /\ ~QueueEmpty
      /\ cur_level' = l0
      /\ p' = x
      /\ lists' = [lists EXCEPT ![l0] = SubSeq(@, 1, Len(@) - 1)]
      /\ IF l0 # previous_level THEN depth' = depth + 1 /\ depth2lvl' = Append(depth2lvl, l0)
                                ELSE UNCHANGED <<depth, depth2lvl>>
      /\ stage' = "visit"
      /\ UNCHANGED <<inputs, pstart, c, inf, sup, ord>>
  BY <1>0 DEF PopFace
<1>2. FacesOK /\ StacksOK /\ IntervalsOK /\ WaitOK /\ DepthsOK /\ PopOK
  BY <1>1 DEF FrontInv, FrontOK
<1>3. l0 \in Level /\ s # <<>>
  BY <1>0, <1>1, ClosestLevelIs
<1>4. s \in Seq(Int \X Int) /\ IsInjective(s) /\ Waiting(l0) = Range(s)
  BY <1>2, <1>3 DEF StacksOK, WaitOK, Waiting
<1> DEFINE t == SubSeq(s, 1, Len(s) - 1)
<1>5. /\ x \in Range(s) /\ t \in Seq(Int \X Int)
      /\ IsInjective(t) /\ Range(t) = Range(s) \ {x}
  BY <1>3, <1>4, PoppedIs
<1>6. /\ DOMAIN lists' = Level /\ lists'[l0] = t
      /\ \A l \in Level : l # l0 => lists'[l] = lists[l]
  BY <1>1, <1>2, <1>3 DEF StacksOK
<1> HIDE DEF x, t, s
<1>7. Waiting(l0)' = Waiting(l0) \ {x} /\ \A l \in Level : l # l0 => Waiting(l)' = Waiting(l)
  BY <1>4, <1>5, <1>6 DEF Waiting
<1>8. \A l \in Level : Waiting(l)' \subseteq Waiting(l) /\ x \notin Waiting(l)'
  <2>1. \A l \in Level : l # l0 => x \notin Waiting(l)
    BY <1>2, <1>3, <1>4, <1>5 DEF WaitOK
  <2>2. QED
    BY <1>7, <2>1
<1>9. Faces' = Faces /\ BoxOf(c)' = BoxOf(c)
  BY <1>1 DEF Faces, BoxOf
<1>10. FacesOK'
  BY <1>1, <1>2, <1>9 DEF FacesOK
<1>11. lists' \in [Level -> Seq(Int \X Int)]
  <2>1. \A l \in Level : lists'[l] \in Seq(Int \X Int)
    BY <1>2, <1>5, <1>6 DEF StacksOK
  <2>2. lists' = [l \in Level |-> lists'[l]]
    BY <1>1, <1>2, <1>6 DEF StacksOK
  <2>3. QED
    BY <2>1, <2>2
<1>12. StacksOK'
  BY <1>1, <1>11 DEF StacksOK
<1>13. WaitOK'
  <2>1. ASSUME NEW l \in Level
        PROVE  /\ IsInjective(lists'[l])
               /\ \A q \in Waiting(l)' : /\ q \in Faces' /\ inf'[q] <= l /\ l <= sup'[q]
                                         /\ ord'[q] \in {UNPROCESSED, PROCESSED}
    <3>1. IsInjective(lists'[l])
      BY <1>2, <1>5, <1>6 DEF WaitOK
    <3>2. QED
      BY <1>1, <1>2, <1>8, <1>9, <3>1 DEF WaitOK
  <2>2. \A l, m \in Level : l # m => Waiting(l)' \cap Waiting(m)' = {}
    BY <1>2, <1>8 DEF WaitOK
  <2>3. QED
    BY <2>1, <2>2 DEF WaitOK
<1>14. /\ depth \in Nat /\ depth' \in Nat /\ depth2lvl' \in Seq(Int) /\ Len(depth2lvl') = depth' + 1
       /\ depth' >= depth /\ depth2lvl'[depth' + 1] = l0
       /\ \A j \in 1 .. depth + 1 : depth2lvl'[j] = depth2lvl[j]
  <2>1. depth \in Nat /\ depth2lvl \in Seq(Int) /\ Len(depth2lvl) = depth + 1 /\ l0 \in Int
    BY <1>2, <1>3, LevelsAre DEF DepthsOK
  <2>2. CASE l0 # previous_level
    <3>1. depth' = depth + 1 /\ depth2lvl' = Append(depth2lvl, l0)
      BY <1>1, <2>2
    <3>2. QED
      BY <2>1, <3>1
  <2>3. CASE l0 = previous_level
    BY <1>1, <1>2, <2>1, <2>3 DEF PopOK
  <2>4. QED
    BY <2>2, <2>3
<1>15. DepthsOK'
  <2>1. ASSUME NEW q \in Faces
        PROVE  /\ ord'[q] \in UNPROCESSED .. depth'
               /\ ord'[q] > PROCESSED => inf'[q] <= depth2lvl'[ord'[q] + 1] /\ depth2lvl'[ord'[q] + 1] <= sup'[q]
    <3>1. /\ ord[q] \in UNPROCESSED .. depth
          /\ ord[q] > PROCESSED => inf[q] <= depth2lvl[ord[q] + 1] /\ depth2lvl[ord[q] + 1] <= sup[q]
      BY <1>2 DEF DepthsOK
    <3>2. ord[q] \in UNPROCESSED .. depth'
      BY <1>14, <3>1 DEF UNPROCESSED
    <3>3. ord[q] > PROCESSED => ord[q] + 1 \in 1 .. depth + 1
      BY <1>14, <3>1 DEF UNPROCESSED, PROCESSED
    <3>4. QED
      BY <1>1, <1>14, <3>1, <3>2, <3>3
  <2>2. QED
    BY <1>9, <1>14, <2>1 DEF DepthsOK
<1>16. IntervalsOK'
  BY <1>1, <1>2, <1>9 DEF IntervalsOK
<1>17. VisitOK'
  <2>1. x \in Faces /\ inf[x] <= l0 /\ l0 <= sup[x] /\ ord[x] \in {UNPROCESSED, PROCESSED}
    BY <1>2, <1>3, <1>4, <1>5 DEF WaitOK
  <2>2. AtLevel(p)'
    BY <1>1, <2>1 DEF AtLevel
  <2>3. AllMarked'
    <3>1. CASE AllMarked
      BY <1>1, <1>8, <3>1 DEF AllMarked
    <3>2. CASE OnlyStart
      <4>1. x = pstart
        BY <1>3, <1>4, <1>5, <3>2 DEF OnlyStart
      <4>2. \A l \in Level : Waiting(l)' = {}
        BY <1>8, <3>2, <4>1 DEF OnlyStart
      <4>3. QED
        BY <4>2 DEF AllMarked
    <3>3. QED
      BY <1>2, <3>1, <3>2 DEF PopOK
  <2>4. ord[x] <= PROCESSED
    BY <2>1 DEF UNPROCESSED, PROCESSED
  <2>5. QED
    BY <1>1, <1>8, <1>9, <1>14, <2>1, <2>2, <2>3, <2>4 DEF VisitOK
<1>18. QED
  BY <1>1, <1>10, <1>12, <1>13, <1>15, <1>16, <1>17 DEF FrontInv, FrontOK

(* One round of the inner loop: stay and wait are what VisitFace computes. *)
IsRound(stay, wait) ==
    /\ stay \in Seq(Faces) /\ wait \in Seq(Faces) /\ IsInjective(wait)
    /\ \A q \in Range(wait) : q # p /\ ord[q] = UNPROCESSED
    /\ stay # <<>> => /\ stay[1] \in Faces /\ stay[1] # p /\ ord[stay[1]] = UNPROCESSED
                      /\ AtLevel(stay[1]) /\ stay[1] \notin Range(wait)

LEMMA RoundIs ==
    ASSUME NEW stay, NEW wait,
           Nbh(p) \in Seq(Int \X Int), IsInjective(Nbh(p)), p \notin Range(Nbh(p)),
           stay = Among(Fresh, {q \in Faces : AtLevel(q)}),
           wait = Among(Fresh, IF stay = <<>> THEN Faces ELSE Faces \ {stay[1]})
    PROVE  IsRound(stay, wait)
<1> DEFINE S == {q \in Faces : ord[q] = UNPROCESSED}
           L == {q \in Faces : AtLevel(q)}
           W == IF stay = <<>> THEN Faces ELSE Faces \ {stay[1]}
<1>1. /\ Fresh \in Seq(Int \X Int) /\ IsInjective(Fresh)
      /\ Range(Fresh) = Range(Nbh(p)) \cap S
  BY AmongIs DEF Fresh
<1> HIDE DEF S, L, W
<1>2. stay \in Seq(Int \X Int) /\ Range(stay) = Range(Fresh) \cap L
  BY <1>1, AmongIs DEF L
<1>3. wait \in Seq(Int \X Int) /\ Range(wait) = Range(Fresh) \cap W /\ IsInjective(wait)
  BY <1>1, AmongIs DEF W
<1>4. \A q \in Range(Fresh) : q \in Faces /\ q # p /\ ord[q] = UNPROCESSED
  BY <1>1 DEF S
<1>5. stay \in Seq(Range(stay)) /\ wait \in Seq(Range(wait))
  BY <1>2, <1>3, SeqOfRange
<1>6. stay \in Seq(Faces) /\ wait \in Seq(Faces)
  <2>1. Range(stay) \subseteq Faces /\ Range(wait) \subseteq Faces
    BY <1>2, <1>3, <1>4
  <2>2. QED
    BY <1>5, <2>1, SeqMonotonic
<1>7. ASSUME stay # <<>>
      PROVE  /\ stay[1] \in Faces /\ stay[1] # p /\ ord[stay[1]] = UNPROCESSED
             /\ AtLevel(stay[1]) /\ stay[1] \notin Range(wait)
  <2>1. Len(stay) \in Nat \ {0} /\ DOMAIN stay = 1 .. Len(stay)
    BY <1>2, <1>7, EmptySeq, LenProperties
  <2>2. 1 \in DOMAIN stay
    BY <2>1
  <2>3. stay[1] \in Range(stay)
    BY <2>2 DEF Range
  <2>4. stay[1] \in Range(Fresh) /\ AtLevel(stay[1])
    BY <1>2, <2>3 DEF L
  <2>5. stay[1] \notin W
    BY <1>7 DEF W
  <2>6. QED
    BY <1>3, <1>4, <2>4, <2>5
<1>8. QED
  BY <1>3, <1>4, <1>6, <1>7 DEF IsRound

(* A face waits at a value of its interval. *)
LEMMA LevelForIs ==
    ASSUME NEW q, inf[q] \in Int, sup[q] \in Int, inf[q] <= sup[q], cur_level \in Int
    PROVE  inf[q] <= LevelFor(q) /\ LevelFor(q) <= sup[q]
BY DEF LevelFor

LEMMA VisitFaceKeeps ==
    ASSUME InputsOK, FrontInv, VisitFace
    PROVE  FrontInv'
<1>1. PICK stay, wait :
          /\ stay = Among(Fresh, {q \in Faces : AtLevel(q)})
          /\ wait = Among(Fresh, IF stay = <<>> THEN Faces ELSE Faces \ {stay[1]})
          /\ ord' = Marked(wait)
          /\ lists' = [l \in Level |-> lists[l] \o Among(wait, {q \in Faces : LevelFor(q) = l})]
          /\ IF stay # <<>>
             THEN p' = stay[1] /\ UNCHANGED <<stage, previous_level>>
             ELSE p' = p /\ stage' = "pop" /\ previous_level' = cur_level
  BY DEF VisitFace
<1>2. stage = "visit" /\ UNCHANGED <<inputs, pstart, c, inf, sup, cur_level, depth, depth2lvl>>
  BY DEF VisitFace
<1>3. FacesOK /\ StacksOK /\ IntervalsOK /\ WaitOK /\ DepthsOK /\ VisitOK
  BY <1>2 DEF FrontInv, FrontOK
<1>4. /\ c \in 1 .. ntrees + 1 /\ Faces = Doubled(BoxOf(c)) /\ ord \in [Faces -> Int]
      /\ Faces \subseteq Int \X Int /\ IsNeighbourhood(Faces)
  <2>1. c \in 1 .. ntrees + 1
    BY DEF InputsOK, ntrees
  <2>2. ord \in [Doubled(BoxOf(c)) -> Int]
    BY <1>2, <1>3 DEF FacesOK
  <2>3. Faces = Doubled(BoxOf(c))
    BY <2>2 DEF Faces
  <2>4. QED
    BY <2>1, <2>2, <2>3, BoxesAre
<1>5. p \in Faces /\ AtLevel(p) /\ depth2lvl[depth + 1] = cur_level /\ ord[p] <= PROCESSED
  BY <1>3 DEF VisitOK
<1>6. IsRound(stay, wait)
  <2>1. Nbh(p) \in Seq(Int \X Int) /\ IsInjective(Nbh(p)) /\ p \notin Range(Nbh(p))
    BY <1>4, <1>5 DEF IsNeighbourhood
  <2>2. QED
    BY <1>1, <2>1, RoundIs
<1> DEFINE R == Range(wait)
           At(l) == {q \in Faces : LevelFor(q) = l}
           A(l) == Among(wait, At(l))
<1>7. \A q \in R : q # p /\ q \in Faces /\ ord[q] = UNPROCESSED
  <2>1. \A q \in R : q \in Faces
    BY <1>6, RangeOfSeq DEF IsRound, Range
  <2>2. QED
    BY <1>6, <2>1 DEF IsRound
<1>8. depth \in Nat /\ depth2lvl \in Seq(Int) /\ Len(depth2lvl) = depth + 1 /\ cur_level \in Int
  <2>1. depth \in Nat /\ depth2lvl \in Seq(Int) /\ Len(depth2lvl) = depth + 1
    BY <1>3 DEF DepthsOK
  <2>2. depth + 1 \in 1 .. Len(depth2lvl)
    BY <2>1
  <2>3. QED
    BY <1>5, <2>1, <2>2, ElementOfSeq
<1>9. /\ DOMAIN ord' = Faces /\ ord'[p] = depth
      /\ \A q \in Faces : q # p => ord'[q] = IF q \in R THEN PROCESSED ELSE ord[q]
      /\ ord' \in [Faces -> Int]
  <2>1. ord' = [q \in Faces |-> IF q = p THEN depth ELSE IF q \in R THEN PROCESSED ELSE ord[q]]
    BY <1>1 DEF Marked
  <2>2. \A q \in Faces : ord[q] \in Int
    BY <1>4
  <2> HIDE DEF R
  <2>3. QED
    BY <1>5, <1>8, <2>1, <2>2 DEF PROCESSED
<1>10. Faces' = Faces /\ BoxOf(c)' = BoxOf(c)
  BY <1>2, <1>9 DEF Faces, BoxOf
<1>11. FacesOK'
  <2>1. stage' # "immerse"
    BY <1>1, <1>2
  <2>2. QED
    BY <1>4, <1>9, <1>10, <2>1 DEF FacesOK
<1>12. ASSUME NEW l \in Level
       PROVE  /\ lists'[l] \in Seq(Int \X Int) /\ IsInjective(lists'[l])
              /\ Waiting(l)' = Waiting(l) \cup {q \in R : LevelFor(q) = l}
  <2>1. lists'[l] = lists[l] \o A(l)
    BY <1>1
  <2>2. lists[l] \in Seq(Int \X Int) /\ IsInjective(lists[l]) /\ Range(lists[l]) = Waiting(l)
    BY <1>3 DEF StacksOK, WaitOK, Waiting
  <2>3. wait \in Seq(Int \X Int) /\ IsInjective(wait)
    BY <1>4, <1>6, SeqMonotonic DEF IsRound
  <2>4. A(l) \in Seq(Int \X Int) /\ IsInjective(A(l)) /\ Range(A(l)) = R \cap At(l)
    BY <2>3, AmongIs
  <2>5. R \cap At(l) = {q \in R : LevelFor(q) = l}
    BY <1>7
  <2>6. Waiting(l) \cap R = {}
    <3>1. \A q \in Waiting(l) : ord[q] = PROCESSED
      BY <1>3 DEF VisitOK, AllMarked
    <3>2. QED
      BY <1>7, <3>1 DEF UNPROCESSED, PROCESSED
  <2> DEFINE s == lists[l]
             t == A(l)
  <2>7. s \in Seq(Int \X Int) /\ t \in Seq(Int \X Int) /\ IsInjective(s) /\ IsInjective(t) /\ Range(s) \cap Range(t) = {}
    BY <2>2, <2>4, <2>6
  <2> HIDE DEF s, t, R, A, At
  <2>8. s \o t \in Seq(Int \X Int) /\ IsInjective(s \o t) /\ Range(s \o t) = Range(s) \cup Range(t)
    BY <2>7, InjectiveConcat
  <2>9. lists'[l] = s \o t
    BY <2>1 DEF s, t
  <2>10. Waiting(l)' = Range(s) \cup Range(t)
    BY <2>8, <2>9 DEF Waiting
  <2>11. QED
    BY <2>2, <2>4, <2>5, <2>8, <2>9, <2>10 DEF s, t
<1>13. StacksOK'
  <2>1. lists' = [l \in Level |-> lists'[l]]
    BY <1>1
  <2>2. lists' \in [Level -> Seq(Int \X Int)]
    BY <1>12, <2>1
  <2>3. stage' \in {"pop", "visit"}
    BY <1>1, <1>2
  <2>4. QED
    BY <2>2, <2>3 DEF StacksOK
<1> HIDE DEF R, A, At
<1>14. IntervalsOK'
  BY <1>2, <1>3, <1>10 DEF IntervalsOK
<1>15. \A l \in Level : \A q \in Waiting(l) : q \in Faces /\ q # p /\ q \notin R /\ ord'[q] = PROCESSED
  <2>1. \A l \in Level : \A q \in Waiting(l) : q \in Faces /\ q # p /\ ord[q] = PROCESSED
    BY <1>3 DEF WaitOK, VisitOK, AllMarked
  <2>2. QED
    BY <1>7, <1>9, <2>1 DEF UNPROCESSED, PROCESSED
<1>16. \A q \in R : q \in Faces /\ q # p /\ ord'[q] = PROCESSED
  BY <1>7, <1>9
<1>17. WaitOK'
  <2>1. ASSUME NEW l \in Level, NEW q \in Waiting(l)'
        PROVE  q \in Faces /\ inf[q] <= l /\ l <= sup[q] /\ ord'[q] \in {UNPROCESSED, PROCESSED}
    <3>1. CASE q \in Waiting(l)
      BY <1>3, <1>15, <3>1 DEF WaitOK
    <3>2. CASE q \in R /\ LevelFor(q) = l
      <4>1. inf[q] \in Int /\ sup[q] \in Int /\ inf[q] <= sup[q]
        BY <1>3, <1>16, <3>2 DEF IntervalsOK
      <4>2. inf[q] <= l /\ l <= sup[q]
        BY <1>8, <3>2, <4>1, LevelForIs
      <4>3. QED
        BY <1>16, <3>2, <4>2
    <3>3. QED
      BY <1>12, <3>1, <3>2
  <2>2. ASSUME NEW l \in Level, NEW m \in Level, l # m PROVE Waiting(l)' \cap Waiting(m)' = {}
    <3>1. Waiting(l) \cap Waiting(m) = {}
      BY <1>3, <2>2 DEF WaitOK
    <3>2. QED
      BY <1>12, <1>15, <2>2, <3>1
  <2>3. QED
    BY <1>2, <1>10, <1>12, <2>1, <2>2 DEF WaitOK
<1>18. DepthsOK'
  <2>1. ASSUME NEW q \in Faces
        PROVE  /\ ord'[q] \in UNPROCESSED .. depth
               /\ ord'[q] > PROCESSED => inf[q] <= depth2lvl[ord'[q] + 1] /\ depth2lvl[ord'[q] + 1] <= sup[q]
    <3>1. CASE q = p
      <4>1. ord'[q] = depth /\ inf[q] <= cur_level /\ cur_level <= sup[q]
        BY <1>5, <1>9, <3>1 DEF AtLevel
      <4>2. depth2lvl[ord'[q] + 1] = cur_level
        BY <1>5, <4>1
      <4>3. QED
        BY <1>8, <4>1, <4>2 DEF UNPROCESSED
    <3>2. CASE q # p /\ q \in R
      <4>1. ord'[q] = 0
        BY <1>16, <3>2 DEF PROCESSED
      <4>2. QED
        BY <1>8, <4>1 DEF UNPROCESSED, PROCESSED
    <3>3. CASE q # p /\ q \notin R
      <4>1. ord'[q] = ord[q]
        BY <1>9, <3>3
      <4>2. QED
        BY <1>3, <4>1 DEF DepthsOK
    <3>4. QED
      BY <3>1, <3>2, <3>3
  <2>2. QED
    BY <1>2, <1>8, <1>10, <2>1 DEF DepthsOK
<1>19. AllMarked'
  BY <1>12, <1>15, <1>16 DEF AllMarked
<1>20. CASE stay = <<>>
  <2>1. stage' = "pop" /\ previous_level' = cur_level
    BY <1>1, <1>20
  <2>2. PopOK'
    BY <1>2, <1>5, <1>19, <2>1 DEF PopOK
  <2>3. QED
    BY <1>11, <1>13, <1>14, <1>17, <1>18, <2>1, <2>2 DEF FrontInv, FrontOK
<1>21. CASE stay # <<>>
  <2>1. p' = stay[1] /\ stage' = "visit"
    BY <1>1, <1>2, <1>21
  <2>2. /\ p' \in Faces /\ p' # p /\ ord[p'] = UNPROCESSED /\ p' \notin R
        /\ inf[p'] <= cur_level /\ cur_level <= sup[p']
    BY <1>6, <1>21, <2>1 DEF IsRound, AtLevel, R
  <2>3. ord'[p'] = UNPROCESSED
    BY <1>9, <2>2
  <2>4. \A l \in Level : p' \notin Waiting(l)'
    <3>1. \A l \in Level : p' \notin Waiting(l)
      <4>1. \A l \in Level : \A q \in Waiting(l) : ord[q] = PROCESSED
        BY <1>3 DEF VisitOK, AllMarked
      <4>2. QED
        BY <2>2, <4>1 DEF UNPROCESSED, PROCESSED
    <3>2. QED
      BY <1>12, <2>2, <3>1
  <2>5. AtLevel(p)'
    BY <1>2, <2>2 DEF AtLevel
  <2>6. ord'[p'] <= PROCESSED
    BY <2>3 DEF UNPROCESSED, PROCESSED
  <2>7. VisitOK'
    BY <1>2, <1>5, <1>10, <1>19, <2>2, <2>4, <2>5, <2>6 DEF VisitOK
  <2>8. QED
    BY <1>11, <1>13, <1>14, <1>17, <1>18, <2>1, <2>7 DEF FrontInv, FrontOK
<1>22. QED
  BY <1>20, <1>21

-----------------------------------------------------------------------------
(* A region is the least set with q that no neighbour in S leaves. *)
Stays(T, S) == \A o \in T : S \cap Range(Nbh(o)) \subseteq T

IsRegion(R, S, q) ==
    /\ R \in SUBSET S /\ q \in R /\ Stays(R, S)
    /\ \A T \in SUBSET S : q \in T /\ Stays(T, S) => R \subseteq T

LEMMA RegionIs ==
    ASSUME NEW S, IsFiniteSet(S), NEW q \in S
    PROVE  IsRegion(Region(S, q), S, q)
<1> DEFINE P == (SUBSET S) \X (SUBSET S)
           near(o) == Range(Nbh(o))
           next(e) == (S \cap UNION {near(o) : o \in e[2]}) \ e[1]
           step(e) == <<e[1] \cup next(e), next(e)>>
           Is(u) == u = [e \in P |-> IF e[2] = {} THEN e[1]
                                     ELSE UNION {u[<<e[1] \cup nx, nx>>] : nx \in {next(e)}}]
           spread == CHOOSE u : Is(u)
           OK(e, T) == e[1] \subseteq T /\ \A o \in e[2] \cup (T \ e[1]) : S \cap near(o) \subseteq T
           w == [e \in P |-> {r \in S : \A T \in SUBSET S : OK(e, T) => r \in T}]
           first == <<{q}, {q}>>
<1>1. Region(S, q) = spread[first]
  BY DEF Region
<1>2. ASSUME NEW e \in P PROVE /\ step(e) \in P /\ next(e) \in SUBSET S /\ step(e)[1] = e[1] \cup next(e)
                               /\ step(e)[2] = next(e) /\ next(e) \cap e[1] = {}
                               /\ e[1] \in SUBSET S /\ e[2] \in SUBSET S
  OBVIOUS
<1>3. ASSUME NEW e \in P, e[2] = {} PROVE w[e] = e[1]
  <2>1. OK(e, e[1])
    BY <1>3
  <2>2. e[1] \subseteq S
    BY <1>2
  <2>3. w[e] = {r \in S : \A T \in SUBSET S : OK(e, T) => r \in T}
    OBVIOUS
  <2>4. w[e] \subseteq e[1]
    BY <2>1, <2>2, <2>3
  <2>5. e[1] \subseteq w[e]
    BY <2>2, <2>3
  <2>6. QED
    BY <2>4, <2>5
<1>4. ASSUME NEW e \in P PROVE w[e] = w[step(e)]
  <2>1. ASSUME NEW T \in SUBSET S PROVE OK(e, T) <=> OK(step(e), T)
    <3> DEFINE N == next(e)
    <3>1. N \subseteq S /\ N \cap e[1] = {} /\ step(e)[1] = e[1] \cup N /\ step(e)[2] = N
      BY <1>2
    <3>2. (\A o \in e[2] : S \cap near(o) \subseteq T) /\ e[1] \subseteq T => N \subseteq T
      BY DEF near
    <3>3. N \cup e[1] \subseteq T => \A o \in e[2] : S \cap near(o) \subseteq T
      BY DEF near
    <3> HIDE DEF N, near, step
    <3>4. N \subseteq T => N \cup (T \ (e[1] \cup N)) = T \ e[1]
      BY <3>1
    <3>5. OK(step(e), T) <=> (e[1] \cup N) \subseteq T /\ \A o \in N \cup (T \ (e[1] \cup N)) : S \cap near(o) \subseteq T
      BY <3>1
    <3>6. QED
      BY <3>2, <3>3, <3>4, <3>5
  <2>2. step(e) \in P
    BY <1>2
  <2> HIDE DEF OK, step, P
  <2>3. QED
    BY <2>1, <2>2
<1> HIDE DEF step, OK, P
<1>5. \A e \in P : <<e[1] \cup next(e), next(e)>> = step(e)
  BY DEF step
<1> HIDE DEF next
<1>6. \A u : Is(u) <=> u = [e \in P |-> IF e[2] = {} THEN e[1] ELSE u[step(e)]]
  <2> SUFFICES ASSUME NEW u
               PROVE  Is(u) <=> u = [e \in P |-> IF e[2] = {} THEN e[1] ELSE u[step(e)]]
    OBVIOUS
  <2>1. \A e \in P : UNION {u[<<e[1] \cup nx, nx>>] : nx \in {next(e)}} = u[step(e)]
    <3> SUFFICES ASSUME NEW e \in P
                 PROVE  UNION {u[<<e[1] \cup nx, nx>>] : nx \in {next(e)}} = u[step(e)]
      OBVIOUS
    <3> DEFINE N == next(e)
    <3>1. <<e[1] \cup N, N>> = step(e)
      BY <1>5
    <3> HIDE DEF N
    <3>2. UNION {u[<<e[1] \cup nx, nx>>] : nx \in {N}} = u[<<e[1] \cup N, N>>]
      OBVIOUS
    <3>3. QED
      BY <3>1, <3>2 DEF N
  <2> DEFINE F == [e \in P |-> IF e[2] = {} THEN e[1] ELSE u[step(e)]]
             G == [e \in P |-> IF e[2] = {} THEN e[1]
                               ELSE UNION {u[<<e[1] \cup nx, nx>>] : nx \in {next(e)}}]
  <2>2. F = G
    BY <2>1
  <2>3. QED
    BY <2>2
<1>7. Is(w)
  <2>1. w = [e \in P |-> w[e]]
    OBVIOUS
  <2> HIDE DEF w, Is
  <2>2. \A e \in P : w[e] = IF e[2] = {} THEN e[1] ELSE w[step(e)]
    BY <1>3, <1>4
  <2>3. QED
    BY <1>6, <2>1, <2>2
<1>8. Is(spread)
  <2> HIDE DEF Is
  <2>1. QED
    BY <1>7
<1> HIDE DEF spread
<1>9. \A e \in P : spread[e] = IF e[2] = {} THEN e[1] ELSE spread[step(e)]
  <2>1. spread = [e \in P |-> IF e[2] = {} THEN e[1] ELSE spread[step(e)]]
    BY <1>6, <1>8
  <2>2. QED
    BY <2>1
<1> HIDE DEF Is, w
<1> DEFINE left(e) == Cardinality(S \ e[1])
           T == {n \in Nat : \A e \in P : left(e) <= n => spread[e] = w[e]}
<1>10. \A e \in P : e[2] = {} => spread[e] = w[e]
  BY <1>3, <1>9
<1>11. \A e \in P : next(e) = {} => spread[e] = w[e]
  <2> SUFFICES ASSUME NEW e \in P, next(e) = {} PROVE spread[e] = w[e]
    OBVIOUS
  <2>1. step(e)[2] = {} /\ step(e) \in P
    BY <1>2
  <2>2. QED
    BY <1>4, <1>9, <1>10, <2>1
<1>12. \A e \in P : left(e) \in Nat /\ (next(e) # {} => left(step(e)) < left(e))
  <2> SUFFICES ASSUME NEW e \in P PROVE left(e) \in Nat /\ (next(e) # {} => left(step(e)) < left(e))
    OBVIOUS
  <2> DEFINE A == S \ e[1]
             B == S \ step(e)[1]
  <2>1. IsFiniteSet(A) /\ B \subseteq A /\ (next(e) # {} => B # A)
    <3>1. IsFiniteSet(A)
      BY FS_Subset
    <3>2. QED
      BY <1>2, <3>1
  <2> HIDE DEF A, B
  <2>2. IsFiniteSet(B) /\ Cardinality(B) <= Cardinality(A) /\ (B # A => Cardinality(B) < Cardinality(A))
    <3>1. IsFiniteSet(B) /\ Cardinality(B) <= Cardinality(A)
      BY <2>1, FS_Subset
    <3>2. B # A => Cardinality(B) < Cardinality(A)
      BY <2>1, FS_Subset, FS_CardinalityType
    <3>3. QED
      BY <3>1, <3>2
  <2>3. Cardinality(A) \in Nat
    BY <2>1, FS_CardinalityType
  <2>4. QED
    BY <2>1, <2>2, <2>3 DEF A, B
<1> HIDE DEF left
<1>13. \A e \in P : next(e) # {} => spread[e] = spread[step(e)] \/ e[2] = {}
  BY <1>9
<1>14. ASSUME NEW n \in Nat, \A e \in P : left(e) < n => spread[e] = w[e]
       PROVE  \A e \in P : left(e) <= n => spread[e] = w[e]
  <2> SUFFICES ASSUME NEW e \in P, left(e) <= n, next(e) # {}, e[2] # {} PROVE spread[e] = w[e]
    BY <1>10, <1>11
  <2>1. left(step(e)) < left(e) /\ step(e) \in P /\ left(step(e)) \in Nat /\ left(e) \in Nat
    BY <1>2, <1>12
  <2>2. left(step(e)) < n
    BY <2>1
  <2>3. spread[step(e)] = w[step(e)]
    BY <1>14, <2>1, <2>2
  <2>4. QED
    BY <1>4, <1>13, <2>3
<1>15. 0 \in T
  <2>1. \A e \in P : ~(left(e) < 0)
    BY <1>12
  <2>2. QED
    BY <1>14, <2>1
<1>16. ASSUME NEW n \in T PROVE n + 1 \in T
  <2>1. \A e \in P : left(e) < n + 1 => left(e) <= n
    BY <1>12
  <2>2. QED
    BY <1>14, <2>1
<1> HIDE DEF T
<1>17. T = Nat
  <2>1. T \subseteq Nat
    BY DEF T
  <2>2. QED
    BY <1>15, <1>16, <2>1, SetOfAllNaturals
<1>18. first \in P
  BY DEF P
<1>19. spread[first] = w[first]
  <2>1. left(first) \in Nat
    BY <1>12, <1>18
  <2>2. QED
    BY <1>17, <1>18, <2>1 DEF T
<1> DEFINE R == Region(S, q)
<1>20. \A T1 \in SUBSET S : OK(first, T1) <=> q \in T1 /\ Stays(T1, S)
  <2> SUFFICES ASSUME NEW T1 \in SUBSET S PROVE OK(first, T1) <=> q \in T1 /\ Stays(T1, S)
    OBVIOUS
  <2>1. q \in T1 => {q} \cup (T1 \ {q}) = T1
    OBVIOUS
  <2>2. OK(first, T1) <=> q \in T1 /\ \A o \in {q} \cup (T1 \ {q}) : S \cap near(o) \subseteq T1
    BY DEF OK
  <2>3. QED
    BY <2>1, <2>2 DEF Stays
<1>21. R = {r \in S : \A T1 \in SUBSET S : q \in T1 /\ Stays(T1, S) => r \in T1}
  <2>1. R = w[first]
    BY <1>1, <1>19
  <2>2. w[first] = {r \in S : \A T1 \in SUBSET S : OK(first, T1) => r \in T1}
    BY <1>18 DEF w
  <2>3. QED
    BY <1>20, <2>1, <2>2
<1> HIDE DEF R
<1>22. R \in SUBSET S /\ q \in R
  BY <1>21
<1>23. ASSUME NEW o \in R, NEW x \in S \cap Range(Nbh(o)) PROVE x \in R
  <2>1. ASSUME NEW T1 \in SUBSET S, q \in T1, Stays(T1, S) PROVE x \in T1
    BY <1>21, <2>1 DEF Stays
  <2>2. QED
    BY <1>21, <2>1
<1>24. ASSUME NEW T1 \in SUBSET S, q \in T1, Stays(T1, S) PROVE R \subseteq T1
  BY <1>21, <1>24
<1>25. Stays(R, S)
  BY <1>23 DEF Stays
<1>26. QED
  BY <1>22, <1>24, <1>25 DEF IsRegion, R

-----------------------------------------------------------------------------
(* The rank of a pair among those of a set. *)
Before(a, b) == a[1] < b[1] \/ (a[1] = b[1] /\ a[2] < b[2])

PairRank(F, r) == Cardinality({s \in F : Before(s, r)})

LEMMA PairRanksAre ==
    ASSUME NEW F \in SUBSET (Int \X Int), IsFiniteSet(F)
    PROVE  /\ Cardinality(F) \in Nat
           /\ \A r \in F : PairRank(F, r) \in 0 .. Cardinality(F) - 1
           /\ \A r, s \in F : Before(r, s) => PairRank(F, r) < PairRank(F, s)
           /\ \A r, s \in F : PairRank(F, r) = PairRank(F, s) => r = s
           /\ \A k \in 0 .. Cardinality(F) - 1 : \E r \in F : PairRank(F, r) = k
<1> DEFINE B(r) == {s \in F : Before(s, r)}
           N == Cardinality(F)
           rank == [r \in F |-> PairRank(F, r)]
           I == 0 .. N - 1
<1>0. \A r, s, k \in F : /\ ~Before(r, r) /\ (Before(k, r) /\ Before(r, s) => Before(k, s))
                         /\ r = s \/ Before(r, s) \/ Before(s, r)
  <2>1. \A r, s, k \in Int \X Int :
           /\ ~Before(r, r) /\ (Before(k, r) /\ Before(r, s) => Before(k, s))
           /\ r = s \/ Before(r, s) \/ Before(s, r)
    BY DEF Before
  <2>2. QED
    BY <2>1
<1>1. N \in Nat
  BY FS_CardinalityType
<1>2. \A r \in F : IsFiniteSet(B(r)) /\ Cardinality(B(r)) \in Nat
  <2> SUFFICES ASSUME NEW r \in F PROVE IsFiniteSet(B(r)) /\ Cardinality(B(r)) \in Nat
    OBVIOUS
  <2>1. IsFiniteSet(B(r))
    BY FS_Subset
  <2>2. QED
    BY <2>1, FS_CardinalityType
<1>3. \A r \in F : Cardinality(B(r)) < N
  <2> SUFFICES ASSUME NEW r \in F PROVE Cardinality(B(r)) < N
    OBVIOUS
  <2>1. B(r) \subseteq F /\ r \in F /\ r \notin B(r)
    BY <1>0
  <2>2. B(r) # F
    BY <2>1
  <2>3. Cardinality(B(r)) <= N /\ (Cardinality(B(r)) = N => B(r) = F)
    BY <2>1, FS_Subset
  <2>4. QED
    BY <1>1, <1>2, <2>2, <2>3
<1>4. ASSUME NEW r \in F, NEW s \in F, Before(r, s) PROVE Cardinality(B(r)) < Cardinality(B(s))
  <2>1. B(r) \subseteq B(s)
    <3>1. \A k \in F : Before(k, r) => Before(k, s)
      BY <1>0, <1>4
    <3>2. QED
      BY <3>1
  <2>2. r \in B(s) /\ r \notin B(r)
    BY <1>0, <1>4
  <2>3. Cardinality(B(r)) <= Cardinality(B(s)) /\ (Cardinality(B(r)) = Cardinality(B(s)) => B(r) = B(s))
    BY <1>2, <2>1, FS_Subset
  <2>4. QED
    BY <1>2, <2>2, <2>3
<1>5. /\ \A r \in F : rank[r] \in I /\ rank[r] = PairRank(F, r)
      /\ \A r, s \in F : Before(r, s) => PairRank(F, r) < PairRank(F, s)
  <2>1. \A r \in F : PairRank(F, r) = Cardinality(B(r)) /\ rank[r] = PairRank(F, r)
    BY DEF PairRank
  <2> HIDE DEF B, rank, N
  <2>2. \A r \in F : Cardinality(B(r)) \in 0 .. N - 1
    BY <1>1, <1>2, <1>3
  <2>3. \A r, s \in F : Before(r, s) => Cardinality(B(r)) < Cardinality(B(s))
    BY <1>4
  <2>4. QED
    BY <2>1, <2>2, <2>3
<1>6. \A r, s \in F : PairRank(F, r) = PairRank(F, s) => r = s
  <2> SUFFICES ASSUME NEW r \in F, NEW s \in F, r # s PROVE PairRank(F, r) # PairRank(F, s)
    OBVIOUS
  <2>1. Before(r, s) \/ Before(s, r)
    BY <1>0
  <2>2. PairRank(F, r) \in Nat /\ PairRank(F, s) \in Nat
    BY <1>1, <1>5
  <2>3. QED
    BY <1>5, <2>1, <2>2
<1>7. \A k \in I : \E r \in F : PairRank(F, r) = k
  <2> DEFINE R == {rank[r] : r \in F}
  <2>1. R \subseteq I
    BY <1>5
  <2>2. rank \in Bijection(F, R)
    <3>1. rank \in [F -> R] /\ \A r, s \in F : rank[r] = rank[s] => r = s
      BY <1>6
    <3>2. \A y \in R : \E r \in F : rank[r] = y
      OBVIOUS
    <3> HIDE DEF rank, R
    <3>3. QED
      BY <3>1, <3>2 DEF Bijection, Injection, IsInjective, Surjection
  <2>3. Cardinality(R) = N
    <3> HIDE DEF rank, R
    <3>1. ExistsBijection(F, R)
      BY <2>2 DEF ExistsBijection
    <3>2. QED
      BY <3>1, FS_Bijection
  <2>4. IsFiniteSet(I) /\ Cardinality(I) = N
    <3> HIDE DEF N
    <3>1. 0 \in Int /\ N - 1 \in Int /\ (IF 0 > N - 1 THEN 0 ELSE (N - 1) - 0 + 1) = N
      BY <1>1
    <3>2. IsFiniteSet(0 .. N - 1) /\ Cardinality(0 .. N - 1) = N
      BY <3>1, FS_Interval
    <3>3. QED
      BY <3>2
  <2> HIDE DEF R, I
  <2>5. R = I
    BY <2>1, <2>3, <2>4, FS_Subset
  <2>6. QED
    BY <1>5, <2>5 DEF R
<1>8. QED
  BY <1>1, <1>5, <1>6, <1>7

-----------------------------------------------------------------------------
(* A tree of the faces of F: the parents come first, and no node is without *)
(* a face of its own.                                                       *)
IsTreeOf(t, F, m) ==
    /\ m \in Nat \ {0}
    /\ DOMAIN t.parent = 0 .. m - 1
    /\ \A n \in 1 .. m - 1 : t.parent[n] \in 0 .. n - 1
    /\ t.node_map \in [F -> 0 .. m - 1]
    /\ \A n \in 0 .. m - 1 : \E q \in F : t.node_map[q] = n

IsTree(t, F) == \E m : IsTreeOf(t, F, m)

LEMMA TreeOfDepthsIs ==
    ASSUME IsFiniteSet(Faces), Faces # {}, Faces \subseteq Int \X Int, IsNeighbourhood(Faces),
           ord \in [Faces -> Int], NEW made \in MaxTreeOfDepths
    PROVE  IsTree(made, Faces)
<1> DEFINE F == Faces
           rank(q) == q[2] * Cardinality(Faces) + q[1]
           high(q) == Region({t \in Faces : ord[t] >= ord[q]}, q)
           low(q) == {rank(r) : r \in {s \in high(q) : ord[s] = ord[q]}}
           key == [q \in Faces |-> <<ord[q], Min(low(q))>>]
           K == Range(key)
           m == Cardinality(K)
           id == [k \in K |-> Cardinality({j \in K : Before(j, k)})]
           nodes == 0 .. m - 1
           face(n) == CHOOSE q \in Faces : id[key[q]] = n
           rim(n) == (Faces \cap UNION {Range(Nbh(o)) : o \in high(face(n))}) \ high(face(n))
           above(n) == CHOOSE q \in rim(n) : \A r \in rim(n) : ord[r] <= ord[q]
<1>1. /\ made.parent = [n \in nodes |-> IF rim(n) = {} THEN -1 ELSE id[key[above(n)]]]
      /\ made.node_map = [q \in Faces |-> id[key[q]]]
  <2> DEFINE idOf(keys) == [k \in Range(keys) |-> Cardinality({j \in Range(keys) : Before(j, k)})]
             nodesOf(keys) == 0 .. Cardinality(Range(keys)) - 1
             faceOf(keys, n) == CHOOSE q \in Faces : idOf(keys)[keys[q]] = n
             rimOf(keys, n) == (Faces \cap UNION {Range(Nbh(o)) : o \in high(faceOf(keys, n))}) \ high(faceOf(keys, n))
             aboveOf(keys, n) == CHOOSE q \in rimOf(keys, n) : \A r \in rimOf(keys, n) : ord[r] <= ord[q]
             rec(keys) == [parent   |-> [n \in nodesOf(keys) |->
                                            IF rimOf(keys, n) = {} THEN -1 ELSE idOf(keys)[keys[aboveOf(keys, n)]]],
                           values   |-> [n \in nodesOf(keys) |-> depth2lvl[ord[faceOf(keys, n)] + 1]],
                           node_map |-> [q \in Faces |-> idOf(keys)[keys[q]]]]
  <2>1. MaxTreeOfDepths = UNION {{rec(keys)} : keys \in {key}}
    BY DEF MaxTreeOfDepths, Before
  <2>2. /\ rec(key).parent = [n \in nodes |-> IF rim(n) = {} THEN -1 ELSE id[key[above(n)]]]
        /\ rec(key).node_map = [q \in Faces |-> id[key[q]]]
    OBVIOUS
  <2> HIDE DEF rec, key
  <2>3. made = rec(key)
    BY <2>1
  <2>4. QED
    BY <2>2, <2>3
<1>2. \A q \in F : ord[q] \in Int /\ q[1] \in Int /\ q[2] \in Int
  OBVIOUS
<1>3. ASSUME NEW q \in F PROVE IsRegion(high(q), {t \in F : ord[t] >= ord[q]}, q)
  <2> DEFINE S == {t \in F : ord[t] >= ord[q]}
  <2>1. IsFiniteSet(S) /\ q \in S
    <3>1. IsFiniteSet(S)
      BY FS_Subset
    <3>2. QED
      BY <1>2, <3>1
  <2> HIDE DEF S
  <2>2. IsRegion(Region(S, q), S, q)
    BY <2>1, RegionIs
  <2>3. QED
    BY <2>2 DEF S
<1> HIDE DEF high
<1>4. Cardinality(Faces) \in Nat
  BY FS_CardinalityType
<1>5. ASSUME NEW q \in F PROVE low(q) \subseteq Int /\ IsFiniteSet(low(q)) /\ low(q) # {}
  <2> DEFINE A == {s \in high(q) : ord[s] = ord[q]}
  <2>1. high(q) \subseteq F /\ q \in high(q)
    BY <1>3 DEF IsRegion
  <2>2. A \subseteq F /\ q \in A
    BY <2>1
  <2>3. IsFiniteSet(A)
    BY <2>2, FS_Subset
  <2> HIDE DEF A
  <2>4. \A r \in A : rank(r) \in Int
    BY <1>2, <1>4, <2>2
  <2> HIDE DEF rank
  <2> DEFINE g == [r \in A |-> rank(r)]
             V == {g[r] : r \in A}
  <2>5. IsFiniteSet(V)
    <3> HIDE DEF g
    <3>1. QED
      BY <2>3, ImageIsFinite
  <2>6. V = {rank(r) : r \in A}
    OBVIOUS
  <2>7. low(q) = {rank(r) : r \in A}
    BY DEF A
  <2>8. {rank(r) : r \in A} \subseteq Int /\ {rank(r) : r \in A} # {}
    BY <2>2, <2>4
  <2> HIDE DEF V
  <2>9. QED
    BY <2>5, <2>6, <2>7, <2>8
<1> HIDE DEF low
<1>6. \A q \in F : Min(low(q)) \in Int
  <2> SUFFICES ASSUME NEW q \in F PROVE Min(low(q)) \in Int
    OBVIOUS
  <2> DEFINE V == low(q)
  <2>1. V \subseteq Int /\ IsFiniteSet(V) /\ V # {}
    BY <1>5
  <2> HIDE DEF V
  <2>2. Min(V) \in V
    BY <2>1, FiniteExtrema
  <2>3. QED
    BY <2>1, <2>2 DEF V
<1>7. /\ DOMAIN key = F /\ \A q \in F : key[q] \in Int \X Int /\ key[q][1] = ord[q] /\ key[q][2] = Min(low(q))
      /\ \A q \in F : key[q] = <<ord[q], Min(low(q))>>
  BY <1>2, <1>6
<1> HIDE DEF key
<1>8. K = {key[q] : q \in F}
  BY <1>7 DEF Range
<1>9. IsFiniteSet(K)
  <2> HIDE DEF K
  <2>1. IsFiniteSet({key[q] : q \in F})
    BY ImageIsFinite
  <2>2. QED
    BY <1>8, <2>1
<1>10. K \in SUBSET (Int \X Int) /\ K # {} /\ \A q \in F : key[q] \in K
  BY <1>7, <1>8
<1> HIDE DEF K
<1>11. \A k \in K : id[k] = PairRank(K, k)
  BY DEF PairRank
<1> HIDE DEF id
<1>12. /\ m \in Nat
       /\ \A r \in K : id[r] \in 0 .. m - 1
       /\ \A r, s \in K : Before(r, s) => id[r] < id[s]
       /\ \A r, s \in K : id[r] = id[s] => r = s
       /\ \A k \in 0 .. m - 1 : \E r \in K : id[r] = k
  BY <1>9, <1>10, <1>11, PairRanksAre
<1> HIDE DEF m
<1>13. m # 0
  <2>1. PICK k \in K : TRUE
    BY <1>10
  <2>2. id[k] \in 0 .. m - 1
    BY <1>12, <2>1
  <2>3. QED
    BY <1>12, <2>2
<1>14. \A n \in nodes : face(n) \in F /\ id[key[face(n)]] = n
  <2> SUFFICES ASSUME NEW n \in nodes PROVE face(n) \in F /\ id[key[face(n)]] = n
    OBVIOUS
  <2>1. PICK r \in K : id[r] = n
    BY <1>12
  <2>2. PICK q \in F : key[q] = r
    BY <1>8
  <2>3. \E x \in F : id[key[x]] = n
    BY <2>1, <2>2
  <2>4. QED
    BY <2>3
<1> HIDE DEF face
<1>15. ASSUME NEW n \in nodes, NEW x \in rim(n) PROVE x \in F /\ ord[x] < ord[face(n)]
  <2> DEFINE q == face(n)
             S == {t \in F : ord[t] >= ord[q]}
  <2>1. q \in F
    BY <1>14
  <2> HIDE DEF q
  <2>2. x \in F /\ x \notin high(q) /\ \E o \in high(q) : x \in Range(Nbh(o))
    BY <1>15 DEF q
  <2>3. Stays(high(q), S)
    BY <1>3, <2>1 DEF IsRegion
  <2>4. x \notin S
    BY <2>2, <2>3 DEF Stays
  <2>5. QED
    BY <1>2, <2>1, <2>2, <2>4 DEF q
<1>16. ASSUME NEW n \in nodes, rim(n) = {} PROVE n = 0
  <2> DEFINE q == face(n)
             S == {t \in F : ord[t] >= ord[q]}
  <2>1. q \in F /\ id[key[q]] = n
    BY <1>14
  <2>2. IsRegion(high(q), S, q)
    BY <1>3, <2>1
  <2>3. Stays(high(q), F)
    <3>1. \A o \in high(q) : F \cap Range(Nbh(o)) \subseteq high(q)
      BY <1>16
    <3>2. QED
      BY <3>1 DEF Stays
  <2> HIDE DEF q
  <2>4. IsRegion(Region(F, q), F, q) /\ Region(F, q) = F
    BY <2>1, RegionIs DEF IsNeighbourhood
  <2>5. high(q) = F
    <3>1. high(q) \in SUBSET F /\ q \in high(q)
      BY <2>2 DEF IsRegion
    <3>2. F \subseteq high(q)
      BY <2>3, <2>4, <3>1 DEF IsRegion
    <3>3. QED
      BY <3>1, <3>2
  <2>6. \A r \in F : ord[r] >= ord[q]
    BY <2>2, <2>5 DEF IsRegion
  <2>7. ASSUME NEW r \in F, ord[r] = ord[q] PROVE key[r] = key[q]
    <3>1. {t \in F : ord[t] >= ord[r]} = F /\ {t \in F : ord[t] >= ord[q]} = F
      BY <2>6, <2>7
    <3>2. high(r) = F
      <4>1. Region(F, r) = F
        BY DEF IsNeighbourhood
      <4>2. QED
        BY <3>1, <4>1 DEF high
    <3>3. low(r) = low(q)
      BY <2>5, <2>7, <3>2 DEF low
    <3>4. QED
      BY <1>7, <2>1, <2>7, <3>3
  <2>8. ASSUME n # 0 PROVE FALSE
    <3>1. 0 \in nodes
      BY <1>12, <1>13
    <3>2. PICK k \in K : id[k] = 0
      BY <1>12, <3>1
    <3>3. PICK r \in F : key[r] = k
      BY <1>8
    <3>4. key[r] # key[q]
      BY <2>1, <2>8, <3>2, <3>3
    <3>5. ord[r] > ord[q]
      BY <1>2, <2>1, <2>6, <2>7, <3>4
    <3>6. Before(key[q], key[r])
      BY <1>7, <2>1, <3>5 DEF Before
    <3>7. id[key[q]] < id[key[r]] /\ id[key[q]] \in 0 .. m - 1
      BY <1>10, <1>12, <2>1, <3>6
    <3>8. QED
      BY <1>12, <3>2, <3>3, <3>7
  <2>9. QED
    BY <2>8
<1>17. ASSUME NEW n \in nodes, rim(n) # {} PROVE above(n) \in rim(n)
  <2> DEFINE R == rim(n)
             V == {ord[r] : r \in R}
  <2>1. R \subseteq F /\ R # {}
    BY <1>15, <1>17
  <2>2. IsFiniteSet(R)
    BY <2>1, FS_Subset
  <2> HIDE DEF R
  <2>3. V \subseteq Int /\ V # {}
    BY <1>2, <2>1
  <2>4. IsFiniteSet(V)
    BY <2>2, ImageIsFinite
  <2> HIDE DEF V
  <2>5. Max(V) \in V /\ \A y \in V : y <= Max(V)
    BY <2>3, <2>4, FiniteExtrema
  <2>6. \E q \in R : \A r \in R : ord[r] <= ord[q]
    BY <2>5 DEF V
  <2>7. QED
    BY <2>6 DEF R
<1> HIDE DEF above
<1>18. ASSUME NEW n \in 1 .. m - 1 PROVE made.parent[n] \in 0 .. n - 1
  <2>1. n \in nodes /\ n # 0
    BY <1>12
  <2>2. above(n) \in F /\ ord[above(n)] < ord[face(n)]
    BY <1>15, <1>16, <1>17, <2>1
  <2>3. face(n) \in F /\ id[key[face(n)]] = n
    BY <1>14, <2>1
  <2>4. Before(key[above(n)], key[face(n)])
    BY <1>7, <2>2, <2>3 DEF Before
  <2>5. id[key[above(n)]] < n /\ id[key[above(n)]] \in 0 .. m - 1
    BY <1>10, <1>12, <2>2, <2>3, <2>4
  <2>6. made.parent[n] = id[key[above(n)]]
    BY <1>1, <1>16, <2>1
  <2>7. QED
    BY <1>12, <2>5, <2>6
<1>19. \A n \in nodes : \E q \in F : made.node_map[q] = n
  BY <1>1, <1>14
<1>20. made.node_map \in [F -> nodes] /\ DOMAIN made.parent = nodes
  <2>1. \A q \in F : id[key[q]] \in nodes
    BY <1>10, <1>12
  <2> HIDE DEF nodes
  <2>2. QED
    BY <1>1, <2>1
<1>21. IsTreeOf(made, F, m)
  BY <1>12, <1>13, <1>18, <1>19, <1>20 DEF IsTreeOf
<1>22. QED
  BY <1>21 DEF IsTree

-----------------------------------------------------------------------------
(* The branches of a tree, and the regions of its nodes. *)
LEMMA AncestorsAre ==
    ASSUME NEW t, NEW F, NEW m, IsTreeOf(t, F, m)
    PROVE  /\ NodesOf(t) = 0 .. m - 1
           /\ Ancestors(t, 0) = {0}
           /\ \A n \in 1 .. m - 1 : Ancestors(t, n) = {n} \cup Ancestors(t, t.parent[n])
           /\ \A n \in 0 .. m - 1 : n \in Ancestors(t, n) /\ 0 \in Ancestors(t, n) /\ Ancestors(t, n) \subseteq 0 .. n
<1> DEFINE N == 0 .. m - 1
           V == SUBSET N
           h == [e \in N \X [N -> V] |-> IF e[1] = 0 THEN {0} ELSE {e[1]} \cup e[2][t.parent[e[1]]]]
           Is(u) == u = [x \in N |-> IF x = 0 THEN {0} ELSE {x} \cup u[t.parent[x]]]
           branch == CHOOSE u : Is(u)
<1>1. m \in Nat \ {0} /\ NodesOf(t) = N /\ \A n \in 1 .. m - 1 : t.parent[n] \in 0 .. n - 1
  BY DEF IsTreeOf, NodesOf
<1>2. \A n : Ancestors(t, n) = branch[n]
  BY <1>1 DEF Ancestors
<1>3. \A k \in N : k # 0 => k \in 1 .. m - 1 /\ t.parent[k] \in N /\ t.parent[k] \in 0 .. k - 1
  <2>1. \A k \in N : k # 0 => k \in 1 .. m - 1
    BY <1>1
  <2>2. \A k \in 1 .. m - 1 : \A j \in 0 .. k - 1 : j \in N
    BY <1>1
  <2>3. QED
    BY <1>1, <2>1, <2>2
<1>4. IsCourse(h, m, V)
  <2>1. ASSUME NEW k \in N, NEW u \in [N -> V] PROVE h[<<k, u>>] \in V
    <3>1. 0 \in N
      BY <1>1
    <3>2. QED
      BY <1>3, <3>1
  <2>2. ASSUME NEW k \in N, NEW u \in [N -> V], NEW v \in [N -> V], \A j \in 0 .. k - 1 : u[j] = v[j]
        PROVE  h[<<k, u>>] = h[<<k, v>>]
    BY <1>3, <2>2
  <2> HIDE DEF V, h
  <2>3. QED
    BY <2>1, <2>2 DEF IsCourse
<1>5. PICK u : Follows(u, h, m, V)
  <2> HIDE DEF h
  <2>1. V # {}
    OBVIOUS
  <2> HIDE DEF V
  <2>2. QED
    BY <1>1, <1>4, <2>1, CourseExists
<1>6. Is(u)
  <2>1. u \in [N -> V] /\ \A k \in N : u[k] = h[<<k, u>>]
    BY <1>5 DEF Follows
  <2>2. u = [k \in N |-> u[k]]
    BY <2>1
  <2>3. \A k \in N : u[k] = IF k = 0 THEN {0} ELSE {k} \cup u[t.parent[k]]
    BY <2>1
  <2> HIDE DEF V, h
  <2>4. QED
    BY <2>2, <2>3
<1>7. Is(branch)
  <2> HIDE DEF Is
  <2>1. QED
    BY <1>6
<1> HIDE DEF branch
<1>8. \A k \in N : branch[k] = IF k = 0 THEN {0} ELSE {k} \cup branch[t.parent[k]]
  <2>1. branch = [x \in N |-> IF x = 0 THEN {0} ELSE {x} \cup branch[t.parent[x]]]
    BY <1>7
  <2>2. QED
    BY <2>1
<1> DEFINE P == {k \in N : k \in branch[k] /\ 0 \in branch[k] /\ branch[k] \subseteq 0 .. k}
<1>9. ASSUME NEW k \in N, \A j \in 0 .. k - 1 : j \in P PROVE k \in P
  <2>1. CASE k = 0
    <3>1. branch[k] = {0}
      BY <1>8, <2>1
    <3>2. {0} \subseteq 0 .. 0
      OBVIOUS
    <3>3. QED
      BY <2>1, <3>1, <3>2
  <2>2. CASE k # 0
    <3> DEFINE j == t.parent[k]
    <3>1. j \in 0 .. k - 1 /\ branch[k] = {k} \cup branch[j]
      BY <1>3, <1>8, <2>2
    <3> HIDE DEF j
    <3>2. 0 \in branch[j] /\ branch[j] \subseteq 0 .. j
      BY <1>9, <3>1
    <3>3. 0 .. j \subseteq 0 .. k /\ k \in 0 .. k
      BY <1>1, <3>1
    <3>4. QED
      BY <3>1, <3>2, <3>3
  <2>3. QED
    BY <2>1, <2>2
<1> HIDE DEF P
<1>10. \A k \in N : k \in P
  BY <1>1, <1>9, CourseInduction
<1>11. \A n \in N : n \in Ancestors(t, n) /\ 0 \in Ancestors(t, n) /\ Ancestors(t, n) \subseteq 0 .. n
  BY <1>2, <1>10 DEF P
<1>12. Ancestors(t, 0) = {0} /\ \A n \in 1 .. m - 1 : Ancestors(t, n) = {n} \cup Ancestors(t, t.parent[n])
  <2>1. 0 \in N /\ \A n \in 1 .. m - 1 : n \in N /\ n # 0
    BY <1>1
  <2>2. QED
    BY <1>2, <1>8, <2>1
<1>13. QED
  BY <1>1, <1>11, <1>12

(* The ancestors of a node are a chain. *)
LEMMA BranchesAreChains ==
    ASSUME NEW t, NEW F, NEW m, IsTreeOf(t, F, m), NEW n \in 0 .. m - 1
    PROVE  /\ \A a \in Ancestors(t, n) : a \in 0 .. m - 1 /\ Ancestors(t, a) \subseteq Ancestors(t, n)
           /\ \A a, b \in Ancestors(t, n) : a <= b => a \in Ancestors(t, b)
<1> DEFINE A(k) == Ancestors(t, k)
           N == 0 .. m - 1
           P == {k \in N : /\ \A a \in A(k) : a \in N /\ A(a) \subseteq A(k)
                           /\ \A a, b \in A(k) : a <= b => a \in A(b)}
<1>1. /\ A(0) = {0} /\ \A k \in 1 .. m - 1 : A(k) = {k} \cup A(t.parent[k])
      /\ \A k \in N : k \in A(k) /\ A(k) \subseteq 0 .. k
  BY AncestorsAre
<1>2. m \in Nat \ {0} /\ \A k \in 1 .. m - 1 : t.parent[k] \in 0 .. k - 1
  BY DEF IsTreeOf
<1> HIDE DEF A
<1>3. ASSUME NEW k \in N, \A j \in 0 .. k - 1 : j \in P PROVE k \in P
  <2>1. CASE k = 0
    BY <1>1, <1>2, <2>1
  <2>2. CASE k # 0
    <3> DEFINE j == t.parent[k]
    <3>1. k \in 1 .. m - 1
      BY <1>2, <2>2
    <3>2. j \in 0 .. k - 1 /\ A(k) = {k} \cup A(j) /\ A(j) \subseteq 0 .. j
      BY <1>1, <1>2, <3>1
    <3> HIDE DEF j
    <3>3. j \in P
      BY <1>3, <3>2
    <3>4. \A a \in A(j) : a \in N /\ a < k /\ A(a) \subseteq A(j)
      BY <3>2, <3>3
    <3>5. \A a \in A(k) : a \in N /\ A(a) \subseteq A(k)
      BY <3>2, <3>4
    <3>6. ASSUME NEW a \in A(k), NEW b \in A(k), a <= b PROVE a \in A(b)
      <4>1. CASE b = k
        BY <3>6, <4>1
      <4>2. CASE b # k
        <5>1. b \in A(j) /\ b < k
          BY <3>2, <3>4, <3>6, <4>2
        <5>2. a # k
          BY <3>1, <3>4, <3>6, <5>1
        <5>3. a \in A(j)
          BY <3>2, <3>6, <5>2
        <5>4. QED
          BY <3>3, <3>6, <5>1, <5>3
      <4>3. QED
        BY <4>1, <4>2
    <3>7. QED
      BY <3>5, <3>6
  <2>3. QED
    BY <2>1, <2>2
<1> HIDE DEF P
<1>4. \A k \in N : k \in P
  BY <1>2, <1>3, CourseInduction
<1>5. n \in P
  BY <1>4
<1>6. QED
  BY <1>5 DEF P, A

LEMMA DepthsInBranches ==
    ASSUME NEW t, NEW F, NEW m, IsTreeOf(t, F, m), NEW n \in 0 .. m - 1, NEW a \in Ancestors(t, n)
    PROVE  DepthIn(t, a) \in Int /\ DepthIn(t, n) \in Int /\ DepthIn(t, a) <= DepthIn(t, n)
<1> DEFINE A == Ancestors(t, a)
           B == Ancestors(t, n)
<1>1. A \subseteq B
  BY BranchesAreChains
<1>2. B \subseteq 0 .. n /\ n \in Nat
  <2>1. m \in Nat \ {0}
    BY DEF IsTreeOf
  <2>2. QED
    BY <2>1, AncestorsAre
<1> HIDE DEF A, B
<1>3. IsFiniteSet(B)
  <2>1. IsFiniteSet(0 .. n)
    BY <1>2, FS_Interval
  <2>2. QED
    BY <1>2, <2>1, FS_Subset
<1>4. IsFiniteSet(A) /\ Cardinality(A) <= Cardinality(B)
  BY <1>1, <1>3, FS_Subset
<1>5. Cardinality(A) \in Nat /\ Cardinality(B) \in Nat
  BY <1>3, <1>4, FS_CardinalityType
<1>6. QED
  BY <1>4, <1>5 DEF DepthIn, A, B

(* The nodes of a tree of the faces, by their regions. *)
RegionsOK(t) ==
    /\ 0 \in NodesOf(t) /\ NodesOf(t) \subseteq Nat /\ IsFiniteSet(NodesOf(t)) 
    /\ \A n \in NodesOf(t) : n # 0 => t.parent[n] \in NodesOf(t)
    /\ t.node_map \in [Faces -> NodesOf(t)]
    /\ RegionOf(t, 0) = Faces
    /\ \A n \in NodesOf(t) : /\ RegionOf(t, n) \subseteq Faces /\ RegionOf(t, n) # {}
                             /\ DepthIn(t, n) \in Int
    /\ \A q \in Faces, n \in NodesOf(t) :
           q \in RegionOf(t, n) <=> RegionOf(t, t.node_map[q]) \subseteq RegionOf(t, n)
    /\ \A a, b \in NodesOf(t) :
           /\ RegionOf(t, a) = RegionOf(t, b) => a = b
           /\ RegionOf(t, a) \cap RegionOf(t, b) # {} /\ a <= b => RegionOf(t, b) \subseteq RegionOf(t, a)
           /\ RegionOf(t, b) \subseteq RegionOf(t, a) => DepthIn(t, a) <= DepthIn(t, b)
           /\ RegionOf(t, b) \subseteq RegionOf(t, a) /\ a # b => b # 0 /\ RegionOf(t, t.parent[b]) \subseteq RegionOf(t, a)
    /\ \A n \in NodesOf(t) : n # 0 => /\ RegionOf(t, n) \subseteq RegionOf(t, t.parent[n])
                                      /\ RegionOf(t, n) # RegionOf(t, t.parent[n])
                                      /\ RegionOf(t, n) # Faces

LEMMA RegionsAreOK ==
    ASSUME NEW t, IsTree(t, Faces)
    PROVE  RegionsOK(t)
<1> PICK m : IsTreeOf(t, Faces, m)
  BY DEF IsTree
<1> DEFINE N == 0 .. m - 1
           A(n) == Ancestors(t, n)
           R(n) == RegionOf(t, n)
           own(q) == t.node_map[q]
<1>1. /\ m \in Nat \ {0} /\ \A n \in 1 .. m - 1 : t.parent[n] \in 0 .. n - 1
      /\ t.node_map \in [Faces -> N]
      /\ \A n \in N : \E q \in Faces : own(q) = n
  BY DEF IsTreeOf
<1>2. /\ NodesOf(t) = N /\ A(0) = {0}
      /\ \A n \in 1 .. m - 1 : A(n) = {n} \cup A(t.parent[n])
      /\ \A n \in N : n \in A(n) /\ 0 \in A(n) /\ A(n) \subseteq 0 .. n
  BY AncestorsAre
<1>3. \A n \in N : /\ \A a \in A(n) : a \in N /\ A(a) \subseteq A(n)
                   /\ \A a, b \in A(n) : a <= b => a \in A(b)
  BY BranchesAreChains
<1>4. \A n \in N : \A a \in A(n) : DepthIn(t, a) \in Int /\ DepthIn(t, n) \in Int /\ DepthIn(t, a) <= DepthIn(t, n)
  BY DepthsInBranches
<1>5. \A n : R(n) = {q \in Faces : n \in A(own(q))}
  BY DEF RegionOf
<1>6. \A q \in Faces : own(q) \in N
  BY <1>1
<1>7. 0 \in N /\ \A n \in N : n # 0 => n \in 1 .. m - 1 /\ t.parent[n] \in N /\ t.parent[n] # n
  <2>1. 0 \in N /\ \A n \in N : n # 0 => n \in 1 .. m - 1
    BY <1>1
  <2>2. \A n \in 1 .. m - 1 : \A k \in 0 .. n - 1 : k \in N /\ k # n
    BY <1>1
  <2>3. QED
    BY <1>1, <2>1, <2>2
<1>8. N \subseteq Nat /\ IsFiniteSet(N)
  <2>1. IsFiniteSet(0 .. m - 1)
    BY <1>1, FS_Interval
  <2>2. QED
    BY <2>1
<1> HIDE DEF N, A, R, own
<1>9. \A a, b \in N : R(b) \subseteq R(a) <=> a \in A(b)
  <2>1. ASSUME NEW a \in N, NEW b \in N, R(b) \subseteq R(a) PROVE a \in A(b)
    <3>1. PICK q \in Faces : own(q) = b
      BY <1>1
    <3>2. q \in R(b)
      BY <1>2, <1>5, <3>1
    <3>3. QED
      BY <1>5, <2>1, <3>1, <3>2
  <2>2. ASSUME NEW a \in N, NEW b \in N, a \in A(b) PROVE R(b) \subseteq R(a)
    BY <1>3, <1>5, <1>6, <2>2
  <2>3. QED
    BY <2>1, <2>2
<1>10. ASSUME NEW a \in N, NEW b \in N, R(a) = R(b) PROVE a = b
  <2>1. a \in A(b) /\ b \in A(a)
    BY <1>9, <1>10
  <2>2. a \in 0 .. b /\ b \in 0 .. a
    BY <1>2, <2>1
  <2>3. QED
    BY <1>8, <2>2
<1>11. ASSUME NEW a \in N, NEW b \in N, R(a) \cap R(b) # {}, a <= b PROVE R(b) \subseteq R(a)
  <2>1. PICK q \in Faces : a \in A(own(q)) /\ b \in A(own(q))
    BY <1>5, <1>11
  <2>2. a \in A(b)
    BY <1>3, <1>6, <1>11, <2>1
  <2>3. QED
    BY <1>9, <2>2
<1>12. ASSUME NEW a \in N, NEW b \in N, R(b) \subseteq R(a), a # b
       PROVE  b # 0 /\ R(t.parent[b]) \subseteq R(a)
  <2>1. a \in A(b)
    BY <1>9, <1>12
  <2>2. b # 0
    BY <1>2, <1>12, <2>1
  <2>3. a \in A(t.parent[b]) /\ t.parent[b] \in N
    BY <1>2, <1>7, <1>12, <2>1, <2>2
  <2>4. QED
    BY <1>9, <2>2, <2>3
<1>13. ASSUME NEW n \in N, n # 0
       PROVE  R(n) \subseteq R(t.parent[n]) /\ R(n) # R(t.parent[n])
  <2>1. t.parent[n] \in N /\ t.parent[n] # n /\ n \in 1 .. m - 1
    BY <1>7, <1>13
  <2>2. t.parent[n] \in A(n)
    BY <1>2, <2>1
  <2>3. QED
    BY <1>9, <1>10, <2>1, <2>2
<1>14. R(0) = Faces
  BY <1>2, <1>5, <1>6
<1>15. \A n \in N : R(n) \subseteq Faces /\ R(n) # {}
  BY <1>1, <1>2, <1>5
<1>16. \A q \in Faces, n \in N : q \in R(n) <=> R(own(q)) \subseteq R(n)
  BY <1>5, <1>6, <1>9
<1>17. \A n \in N : n # 0 => R(n) # Faces
  BY <1>7, <1>10, <1>14
<1>18. \A a, b \in N : R(b) \subseteq R(a) => DepthIn(t, a) <= DepthIn(t, b)
  BY <1>4, <1>9
<1>19. \A n \in N : DepthIn(t, n) \in Int
  BY <1>2, <1>4
<1>20. t.node_map \in [Faces -> N]
  BY <1>1
<1>21. \A n \in N : n # 0 => t.parent[n] \in N
  BY <1>7
<1>22. QED
  BY <1>2, <1>7, <1>8, <1>10, <1>11, <1>12, <1>13, <1>14, <1>15, <1>16, <1>17, <1>18, <1>19, <1>20, <1>21 DEF RegionsOK, R, own

-----------------------------------------------------------------------------
(* The shapes of the three trees. *)
NodeOf(j) == NodesOf(trees[j])

Reg(j, n) == RegionOf(trees[j], n)

ForestOK == /\ \A j \in Channel : RegionsOK(trees[j])
            /\ IsFiniteSet(Faces) /\ Faces # {}

(* The smallest shape of tree k that encloses the node n of tree j. *)
Encloses(s, j, k, n) ==
    /\ s \in NodeOf(k) /\ Reg(j, n) \subseteq Reg(k, s)
    /\ \A x \in NodeOf(k) : Reg(j, n) \subseteq Reg(k, x) => Reg(k, s) \subseteq Reg(k, x)

SesOK == \A j, k \in Channel : \A n \in NodeOf(j) : Encloses(ses[j][k][n], j, k, n)

LEMMA EnclosingShapeIs ==
    ASSUME ForestOK, NEW j \in Channel, NEW k \in Channel, NEW n \in NodeOf(j)
    PROVE  Encloses(EnclosingShape(j, k, n), j, k, n)
<1>1. CASE j = k
  BY <1>1 DEF EnclosingShape, Encloses, Reg
<1>2. CASE j # k
  <2> DEFINE N == NodeOf(k)
             S == {trees[k].node_map[q] : q \in Reg(j, n)}
             E == {x \in N : Reg(j, n) \subseteq Reg(k, x)}
             s == Max(E)
  <2>1. RegionsOK(trees[j]) /\ RegionsOK(trees[k])
    BY DEF ForestOK
  <2>2. Reg(j, n) \subseteq Faces /\ Reg(j, n) # {}
    BY <2>1 DEF RegionsOK, Reg, NodeOf
  <2>3. ASSUME NEW x \in N PROVE (\A y \in S : x \in Ancestors(trees[k], y)) <=> Reg(j, n) \subseteq Reg(k, x)
    <3>1. \A q \in Reg(j, n) : x \in Ancestors(trees[k], trees[k].node_map[q]) <=> q \in Reg(k, x)
      BY <2>2 DEF Reg, RegionOf
    <3>2. (\A y \in S : x \in Ancestors(trees[k], y)) <=>
              \A q \in Reg(j, n) : x \in Ancestors(trees[k], trees[k].node_map[q])
      OBVIOUS
    <3>3. QED
      BY <3>1, <3>2
  <2>4. EnclosingShape(j, k, n) = s
    <3>1. {x \in N : \A y \in S : x \in Ancestors(trees[k], y)} = E
      BY <2>3
    <3>2. EnclosingShape(j, k, n) = Max({x \in N : \A y \in S : x \in Ancestors(trees[k], y)})
      BY <1>2 DEF EnclosingShape, Lca, NodeOf, Reg
    <3>3. QED
      BY <3>1, <3>2
  <2>5. 0 \in N /\ N \subseteq Nat /\ IsFiniteSet(N) /\ Reg(k, 0) = Faces
    BY <2>1 DEF RegionsOK, NodeOf, Reg
  <2>6. E \subseteq Int /\ E # {} /\ E \subseteq N
    BY <2>2, <2>5
  <2>7. IsFiniteSet(E)
    BY <2>5, <2>6, FS_Subset
  <2> HIDE DEF S
  <2>8. s \in E /\ \A x \in E : x <= s
    <3> HIDE DEF E
    <3>1. QED
      BY <2>6, <2>7, FiniteExtrema
  <2>9. ASSUME NEW x \in E PROVE Reg(k, s) \subseteq Reg(k, x)
    <3>1. s \in N /\ x \in N /\ x <= s /\ Reg(k, x) \cap Reg(k, s) # {}
      BY <2>2, <2>8
    <3> HIDE DEF s, E
    <3>2. QED
      BY <2>1, <3>1 DEF RegionsOK, Reg, NodeOf
  <2>10. s \in N /\ Reg(j, n) \subseteq Reg(k, s)
    BY <2>8
  <2> HIDE DEF s
  <2>11. QED
    BY <2>4, <2>9, <2>10 DEF Encloses
<1>3. QED
  BY <1>1, <1>2

(* The first trees that have the shape are those of SameShape. *)
LEMMA SameShapeIs ==
    ASSUME ForestOK, SesOK, NEW j \in Channel, NEW k \in Channel, NEW n \in NodeOf(j)
    PROVE  /\ ses[k][j][ses[j][k][n]] = n <=> \E x \in NodeOf(k) : Reg(k, x) = Reg(j, n)
           /\ ses[k][j][ses[j][k][n]] = n => Reg(k, ses[j][k][n]) = Reg(j, n)
<1> DEFINE s == ses[j][k][n]
           r == ses[k][j][s]
<1>1. Encloses(s, j, k, n)
  BY DEF SesOK
<1>2. Encloses(r, k, j, s)
  BY <1>1 DEF SesOK, Encloses
<1> HIDE DEF s, r
<1>3. \A a, b \in NodeOf(j) : Reg(j, a) = Reg(j, b) => a = b
  BY DEF ForestOK, RegionsOK, Reg, NodeOf
<1>4. r = n => Reg(k, s) = Reg(j, n)
  BY <1>1, <1>2 DEF Encloses
<1>5. ASSUME NEW x \in NodeOf(k), Reg(k, x) = Reg(j, n) PROVE r = n
  <2>1. Reg(k, s) = Reg(j, n)
    BY <1>1, <1>5 DEF Encloses
  <2>2. Reg(j, r) = Reg(j, n)
    BY <1>2, <2>1 DEF Encloses
  <2>3. QED
    BY <1>2, <1>3, <2>2 DEF Encloses
<1>6. s \in NodeOf(k)
  BY <1>1 DEF Encloses
<1>7. QED
  BY <1>4, <1>5, <1>6 DEF s, r

(* The vertices are the shapes. *)
VerticesOf(g, L) ==
    /\ L \in Nat
    /\ \A j \in Channel : g[j] \in [NodeOf(j) -> 0 .. L] /\ g[j][0] = 0
    /\ \A v \in 0 .. L : \E j \in Channel : \E n \in NodeOf(j) : g[j][n] = v
    /\ \A j, k \in Channel : \A n \in NodeOf(j), x \in NodeOf(k) : g[j][n] = g[k][x] <=> Reg(j, n) = Reg(k, x)

VerticesOK == \E L : VerticesOf(tree_to_graph, L)

(* The node that adds the vertex of a shape, as soon as its tree is met. *)
IsOrigin(k, x, j, n) == k \in Channel /\ x \in NodeOf(k) /\ x > 0 /\ SameShape(k, x) = {} /\ Reg(k, x) = Reg(j, n)

LEMMA OriginIs ==
    ASSUME ForestOK, SesOK, NEW j \in Channel, NEW n \in NodeOf(j), n # 0
    PROVE  /\ SameShape(j, n) = {} => IsOrigin(j, n, j, n)
           /\ SameShape(j, n) # {} =>
                  LET k == Min(SameShape(j, n)) IN k \in 1 .. j - 1 /\ IsOrigin(k, ses[j][k][n], j, n)
<1> DEFINE S == SameShape(j, n)
           k == Min(S)
           s == ses[j][k][n]
<1>1. \A l \in Channel : RegionsOK(trees[l])
  BY DEF ForestOK
<1>2. n > 0
  BY <1>1 DEF RegionsOK, NodeOf
<1>3. S = {} => IsOrigin(j, n, j, n)
  BY <1>2 DEF IsOrigin
<1>4. ASSUME S # {} PROVE k \in 1 .. j - 1 /\ IsOrigin(k, s, j, n)
  <2>1. S \subseteq 1 .. j - 1 /\ 1 .. j - 1 \subseteq Channel /\ j \in Int
    BY DEF SameShape, Channel, ntrees
  <2>2. S \subseteq Int /\ IsFiniteSet(S)
    <3>1. IsFiniteSet(1 .. j - 1)
      BY <2>1, FS_Interval
    <3> HIDE DEF S
    <3>2. IsFiniteSet(S)
      BY <2>1, <3>1, FS_Subset
    <3>3. QED
      BY <2>1, <3>2
  <2>3. k \in S /\ \A l \in S : k <= l
    <3> HIDE DEF S
    <3>1. QED
      BY <1>4, <2>2, FiniteExtrema
  <2> HIDE DEF k
  <2>4. k \in 1 .. j - 1 /\ k \in Channel /\ ses[k][j][s] = n
    BY <2>1, <2>3 DEF SameShape
  <2>5. Reg(k, s) = Reg(j, n)
    BY <2>4, SameShapeIs
  <2>6. s \in NodeOf(k)
    BY <2>4 DEF SesOK, Encloses
  <2>7. s > 0
    <3>1. Reg(j, n) # Faces
      BY <1>1 DEF RegionsOK, NodeOf, Reg
    <3>2. Reg(k, 0) = Faces /\ s \in Nat
      BY <1>1, <2>4, <2>6 DEF RegionsOK, NodeOf, Reg
    <3> HIDE DEF s
    <3>3. s # 0
      BY <2>5, <3>1, <3>2
    <3>4. QED
      BY <3>2, <3>3
  <2> HIDE DEF s
  <2>8. ASSUME NEW l \in SameShape(k, s) PROVE FALSE
    <3>1. l \in 1 .. k - 1 /\ l \in Channel /\ ses[l][k][ses[k][l][s]] = s
      BY <2>1, <2>4, <2>8 DEF SameShape, Channel, ntrees
    <3>2. PICK x \in NodeOf(l) : Reg(l, x) = Reg(k, s)
      BY <2>4, <2>6, <3>1, SameShapeIs
    <3>3. ses[l][j][ses[j][l][n]] = n
      BY <2>5, <3>1, <3>2, SameShapeIs
    <3>4. l \in S
      BY <2>1, <2>4, <3>1, <3>3 DEF SameShape
    <3>5. QED
      BY <2>1, <2>3, <2>4, <3>1, <3>4
  <2>9. QED
    BY <2>4, <2>5, <2>6, <2>7, <2>8 DEF IsOrigin
<1>5. QED
  BY <1>3, <1>4

(* A shape has one origin. *)
LEMMA OriginIsUnique ==
    ASSUME ForestOK, SesOK, NEW j, NEW n, NEW k, NEW x, NEW l, NEW y,
           IsOrigin(k, x, j, n), IsOrigin(l, y, j, n)
    PROVE  k = l /\ x = y
<1>1. ASSUME NEW a \in Channel, NEW b \in Channel, a < b, NEW u \in NodeOf(a), NEW v \in NodeOf(b),
             Reg(a, u) = Reg(b, v)
      PROVE  SameShape(b, v) # {}
  <2>1. ses[a][b][ses[b][a][v]] = v
    BY <1>1, SameShapeIs
  <2>2. a \in 1 .. b - 1
    BY <1>1 DEF Channel, ntrees
  <2>3. QED
    BY <2>1, <2>2 DEF SameShape
<1>2. k \in Channel /\ l \in Channel /\ x \in NodeOf(k) /\ y \in NodeOf(l) /\ Reg(k, x) = Reg(l, y)
  BY DEF IsOrigin
<1>3. k = l
  <2>1. k \in Int /\ l \in Int
    BY <1>2 DEF Channel
  <2>2. ~(k < l) /\ ~(l < k)
    BY <1>1, <1>2 DEF IsOrigin
  <2>3. QED
    BY <2>1, <2>2
<1>4. x = y
  BY <1>2, <1>3 DEF ForestOK, RegionsOK, NodeOf, Reg
<1>5. QED
  BY <1>3, <1>4

LEMMA AddedIs ==
    ASSUME ForestOK
    PROVE  /\ IsFiniteSet(Added) /\ Added \in SUBSET (Int \X Int)
           /\ \A j, n : <<j, n>> \in Added <=>
                  j \in Channel /\ n \in NodeOf(j) /\ n > 0 /\ SameShape(j, n) = {}
           /\ \A a \in Added : a = <<a[1], a[2]>>
<1> DEFINE B(j) == {m \in NodesOf(trees[j]) : m > 0 /\ SameShape(j, m) = {}}
           A(j) == {<<j, n>> : n \in B(j)}
<1>1. \A j \in Channel : NodesOf(trees[j]) \subseteq Nat /\ IsFiniteSet(NodesOf(trees[j]))
  BY DEF ForestOK, RegionsOK
<1>2. ASSUME NEW j \in Channel PROVE IsFiniteSet(A(j)) /\ A(j) \subseteq Channel \X Nat
  <2> DEFINE b == B(j)
             g == [n \in b |-> <<j, n>>]
  <2>1. b \subseteq NodesOf(trees[j])
    OBVIOUS
  <2>2. IsFiniteSet(b)
    BY <1>1, <2>1, FS_Subset
  <2>3. b \subseteq Nat
    BY <1>1, <2>1
  <2>4. A(j) = {g[n] : n \in b}
    OBVIOUS
  <2> HIDE DEF b
  <2>5. IsFiniteSet({g[n] : n \in b})
    <3> HIDE DEF g
    <3>1. QED
      BY <2>2, ImageIsFinite
  <2>6. {g[n] : n \in b} \subseteq Channel \X Nat
    <3>1. \A n \in b : g[n] = <<j, n>> /\ <<j, n>> \in Channel \X Nat
      BY <2>3
    <3> HIDE DEF g
    <3>2. QED
      BY <3>1
  <2> HIDE DEF g, A
  <2>7. QED
    BY <2>4, <2>5, <2>6
<1>3. Added = UNION {A(j) : j \in Channel}
  BY DEF Added
<1>4. \A j, n : <<j, n>> \in Added <=>
                  j \in Channel /\ n \in NodeOf(j) /\ n > 0 /\ SameShape(j, n) = {}
  BY <1>3 DEF NodeOf
<1>5. Channel = {1, 2, 3}
  BY DEF Channel, ntrees
<1> HIDE DEF A
<1>6. Added = A(1) \cup A(2) \cup A(3)
  BY <1>3, <1>5
<1>7. IsFiniteSet(Added)
  <2>1. IsFiniteSet(A(1)) /\ IsFiniteSet(A(2)) /\ IsFiniteSet(A(3))
    BY <1>2, <1>5
  <2>2. IsFiniteSet(A(1) \cup A(2))
    BY <2>1, FS_Union
  <2>3. QED
    BY <1>6, <2>1, <2>2, FS_Union
<1>8. Added \subseteq Channel \X Nat
  BY <1>2, <1>3
<1>9. Channel \X Nat \subseteq Int \X Int
  BY <1>5
<1>10. QED
  BY <1>4, <1>7, <1>8, <1>9

(* What the vertices of the nodes are. *)
Origin(j, n) == IF SameShape(j, n) = {} THEN <<j, n>>
                ELSE <<Min(SameShape(j, n)), ses[j][Min(SameShape(j, n))][n]>>

AddedRank(a) == Cardinality({b \in Added : b[1] < a[1] \/ (b[1] = a[1] /\ b[2] <= a[2])})

LEMMA OriginsAre ==
    ASSUME ForestOK, SesOK, NEW j \in Channel, NEW n \in NodeOf(j), n # 0
    PROVE  /\ Origin(j, n) \in Added /\ IsOrigin(Origin(j, n)[1], Origin(j, n)[2], j, n)
           /\ SameShape(j, n) # {} =>
                 LET k == Min(SameShape(j, n))
                     s == ses[j][k][n]
                 IN  k \in Channel /\ s \in NodeOf(k) /\ s # 0 /\ SameShape(k, s) = {} /\ Origin(j, n) = <<k, s>>
<1>1. CASE SameShape(j, n) = {}
  <2>1. Origin(j, n) = <<j, n>> /\ IsOrigin(j, n, j, n)
    BY <1>1, OriginIs DEF Origin
  <2>2. QED
    BY <1>1, <2>1, AddedIs DEF IsOrigin
<1>2. CASE SameShape(j, n) # {}
  <2> DEFINE k == Min(SameShape(j, n))
             s == ses[j][k][n]
  <2>1. Origin(j, n) = <<k, s>> /\ IsOrigin(k, s, j, n)
    BY <1>2, OriginIs DEF Origin
  <2> HIDE DEF k, s
  <2>2. k \in Channel /\ s \in NodeOf(k) /\ s > 0 /\ SameShape(k, s) = {}
    BY <2>1 DEF IsOrigin
  <2>3. s # 0
    BY <2>2
  <2>4. Origin(j, n) \in Added
    BY <2>1, <2>2, AddedIs
  <2>5. QED
    BY <2>1, <2>2, <2>3, <2>4 DEF k, s
<1>3. QED
  BY <1>1, <1>2

LEMMA AddedRanksAre ==
    ASSUME ForestOK
    PROVE  /\ Cardinality(Added) \in Nat
           /\ \A a \in Added : AddedRank(a) \in 1 .. Cardinality(Added)
           /\ \A a, b \in Added : AddedRank(a) = AddedRank(b) => a = b
           /\ \A v \in 1 .. Cardinality(Added) : \E a \in Added : AddedRank(a) = v
<1> DEFINE L == Cardinality(Added)
<1>1. IsFiniteSet(Added) /\ Added \in SUBSET (Int \X Int)
  BY AddedIs
<1>2. /\ L \in Nat
      /\ \A r \in Added : PairRank(Added, r) \in 0 .. L - 1
      /\ \A r, s \in Added : PairRank(Added, r) = PairRank(Added, s) => r = s
      /\ \A k \in 0 .. L - 1 : \E r \in Added : PairRank(Added, r) = k
  BY <1>1, PairRanksAre
<1> HIDE DEF L
<1>3. ASSUME NEW a \in Added PROVE AddedRank(a) = PairRank(Added, a) + 1
  <2> DEFINE B == {b \in Added : Before(b, a)}
             C == {b \in Added : b[1] < a[1] \/ (b[1] = a[1] /\ b[2] <= a[2])}
  <2>1. \A b \in Int \X Int, d \in Int \X Int :
            (b[1] < d[1] \/ (b[1] = d[1] /\ b[2] <= d[2])) <=> Before(b, d) \/ b = d
    BY DEF Before
  <2>2. ~Before(a, a)
    BY <1>1 DEF Before
  <2>3. C = B \cup {a} /\ a \notin B
    BY <1>1, <2>1, <2>2
  <2>4. IsFiniteSet(B)
    BY <1>1, FS_Subset
  <2>5. AddedRank(a) = Cardinality(C) /\ PairRank(Added, a) = Cardinality(B)
    BY DEF AddedRank, PairRank
  <2> HIDE DEF B, C
  <2>6. Cardinality(B \cup {a}) = Cardinality(B) + 1
    BY <2>3, <2>4, FS_AddElement
  <2>7. QED
    BY <2>3, <2>5, <2>6
<1>4. \A a \in Added : AddedRank(a) \in 1 .. L
  BY <1>2, <1>3
<1>5. \A a, b \in Added : AddedRank(a) = AddedRank(b) => a = b
  <2> SUFFICES ASSUME NEW a \in Added, NEW b \in Added, AddedRank(a) = AddedRank(b) PROVE a = b
    OBVIOUS
  <2>1. PairRank(Added, a) \in Int /\ PairRank(Added, b) \in Int
    BY <1>2
  <2>2. PairRank(Added, a) = PairRank(Added, b)
    BY <1>3, <2>1
  <2>3. QED
    BY <1>2, <2>2
<1>6. ASSUME NEW v \in 1 .. L PROVE \E a \in Added : AddedRank(a) = v
  <2>1. v - 1 \in 0 .. L - 1 /\ (v - 1) + 1 = v
    BY <1>2
  <2>2. PICK a \in Added : PairRank(Added, a) = v - 1
    BY <1>2, <2>1
  <2>3. QED
    BY <1>3, <2>1, <2>2
<1>7. QED
  BY <1>2, <1>4, <1>5, <1>6 DEF L

(* The vertices are those of the origins. *)
VertexOfNode(j, n) == IF n = 0 THEN 0 ELSE AddedRank(Origin(j, n))

LEMMA LinksAre ==
    ASSUME ForestOK, SesOK, AddVertices
    PROVE  \A j \in Channel : tree_to_graph'[j] = [n \in NodeOf(j) |-> VertexOfNode(j, n)]
<1> DEFINE rank(j, n) == Cardinality({a \in Added : a[1] < j \/ (a[1] = j /\ a[2] <= n)})
           body(u, j, n) == IF n = 0 THEN 0
                            ELSE IF SameShape(j, n) = {} THEN rank(j, n)
                            ELSE LET k == Min(SameShape(j, n)) IN u[k][ses[j][k][n]]
           Is(u) == u = [j \in Channel |-> [n \in NodesOf(trees[j]) |-> body(u, j, n)]]
           link == CHOOSE u : Is(u)
           w == [j \in Channel |-> [n \in NodesOf(trees[j]) |-> VertexOfNode(j, n)]]
<1>1. tree_to_graph' = [j \in Channel |-> link[j]]
  BY DEF AddVertices
<1>2. \A j, n : rank(j, n) = AddedRank(<<j, n>>)
  BY DEF AddedRank
<1> HIDE DEF rank
<1>3. ASSUME NEW u, NEW j \in Channel, NEW n \in NodesOf(trees[j]),
             \A k \in Channel : \A s \in NodesOf(trees[k]) : s # 0 /\ SameShape(k, s) = {} =>
                 u[k][s] = AddedRank(<<k, s>>)
      PROVE  body(u, j, n) = VertexOfNode(j, n)
  <2>1. CASE n = 0
    BY <2>1 DEF VertexOfNode
  <2>2. CASE n # 0 /\ SameShape(j, n) = {}
    BY <1>2, <2>2 DEF VertexOfNode, Origin
  <2>3. CASE n # 0 /\ SameShape(j, n) # {}
    <3> DEFINE k == Min(SameShape(j, n))
               s == ses[j][k][n]
    <3>1. k \in Channel /\ s \in NodesOf(trees[k]) /\ s # 0 /\ SameShape(k, s) = {} /\ Origin(j, n) = <<k, s>>
      BY <2>3, OriginsAre DEF NodeOf
    <3>2. body(u, j, n) = u[k][s]
      BY <2>3
    <3> HIDE DEF k, s, body
    <3>3. QED
      BY <1>3, <2>3, <3>1, <3>2 DEF VertexOfNode
  <2>4. QED
    BY <2>1, <2>2, <2>3
<1>4. Is(w)
  <2>1. \A k \in Channel : \A s \in NodesOf(trees[k]) : s # 0 /\ SameShape(k, s) = {} =>
                 w[k][s] = AddedRank(<<k, s>>)
    BY DEF VertexOfNode, Origin
  <2> HIDE DEF w
  <2>2. \A j \in Channel : \A n \in NodesOf(trees[j]) : body(w, j, n) = VertexOfNode(j, n)
    BY <1>3, <2>1
  <2> HIDE DEF body
  <2>3. QED
    BY <2>2 DEF w
<1> HIDE DEF w
<1>5. Is(link)
  <2> HIDE DEF Is
  <2>1. QED
    BY <1>4
<1> HIDE DEF link
<1>6. \A j \in Channel : link[j] = [n \in NodesOf(trees[j]) |-> body(link, j, n)]
  <2>1. link = [j \in Channel |-> [n \in NodesOf(trees[j]) |-> body(link, j, n)]]
    BY <1>5
  <2> HIDE DEF body, Is
  <2>2. QED
    BY <2>1
<1>7. \A k \in Channel : \A s \in NodesOf(trees[k]) : s # 0 /\ SameShape(k, s) = {} =>
                 link[k][s] = AddedRank(<<k, s>>)
  <2> SUFFICES ASSUME NEW k \in Channel, NEW s \in NodesOf(trees[k]), s # 0, SameShape(k, s) = {}
               PROVE  link[k][s] = AddedRank(<<k, s>>)
    OBVIOUS
  <2>1. body(link, k, s) = AddedRank(<<k, s>>)
    BY <1>2
  <2> HIDE DEF body
  <2>2. QED
    BY <1>6, <2>1
<1>8. \A j \in Channel : \A n \in NodesOf(trees[j]) : body(link, j, n) = VertexOfNode(j, n)
  BY <1>3, <1>7
<1> HIDE DEF body, Is
<1>9. QED
  BY <1>1, <1>6, <1>8 DEF NodeOf

LEMMA VerticesAreShapes ==
    ASSUME ForestOK, SesOK, NEW g, \A j \in Channel : g[j] = [n \in NodeOf(j) |-> VertexOfNode(j, n)]
    PROVE  VerticesOf(g, Cardinality(Added))
<1> DEFINE L == Cardinality(Added)
<1>1. /\ L \in Nat
      /\ \A a \in Added : AddedRank(a) \in 1 .. L
      /\ \A a, b \in Added : AddedRank(a) = AddedRank(b) => a = b
      /\ \A v \in 1 .. L : \E a \in Added : AddedRank(a) = v
  BY AddedRanksAre
<1> HIDE DEF L
<1>2. \A j \in Channel : \A n \in NodeOf(j) : n # 0 =>
          Origin(j, n) \in Added /\ IsOrigin(Origin(j, n)[1], Origin(j, n)[2], j, n)
  BY OriginsAre
<1>3. \A j \in Channel : \A n \in NodeOf(j) : g[j][n] = VertexOfNode(j, n)
  OBVIOUS
<1>4. \A j \in Channel : 0 \in NodeOf(j) /\ Reg(j, 0) = Faces
  BY DEF ForestOK, RegionsOK, NodeOf, Reg
<1>5. \A j \in Channel : \A n \in NodeOf(j) : n # 0 => Reg(j, n) # Faces
  BY DEF ForestOK, RegionsOK, NodeOf, Reg
<1>6. \A j \in Channel : \A n \in NodeOf(j) :
          /\ g[j][n] \in 0 .. L
          /\ n = 0 => g[j][n] = 0
          /\ n # 0 => g[j][n] # 0 /\ g[j][n] = AddedRank(Origin(j, n))
  <2> SUFFICES ASSUME NEW j \in Channel, NEW n \in NodeOf(j)
               PROVE  /\ g[j][n] \in 0 .. L
                      /\ n = 0 => g[j][n] = 0
                      /\ n # 0 => g[j][n] # 0 /\ g[j][n] = AddedRank(Origin(j, n))
    OBVIOUS
  <2>1. 0 \in 0 .. L /\ \A v \in 1 .. L : v \in 0 .. L /\ v # 0
    BY <1>1
  <2>2. n # 0 => AddedRank(Origin(j, n)) \in 1 .. L
    BY <1>1, <1>2
  <2>3. QED
    BY <1>3, <2>1, <2>2 DEF VertexOfNode
<1>7. ASSUME NEW j \in Channel, NEW k \in Channel, NEW n \in NodeOf(j), NEW x \in NodeOf(k)
      PROVE  g[j][n] = g[k][x] <=> Reg(j, n) = Reg(k, x)
  <2>1. CASE n = 0 /\ x = 0
    BY <1>4, <1>6, <2>1
  <2>2. CASE n = 0 /\ x # 0
    BY <1>4, <1>5, <1>6, <2>2
  <2>3. CASE n # 0 /\ x = 0
    BY <1>4, <1>5, <1>6, <2>3
  <2>4. CASE n # 0 /\ x # 0
    <3> DEFINE a == Origin(j, n)
               b == Origin(k, x)
    <3>1. /\ a \in Added /\ b \in Added /\ IsOrigin(a[1], a[2], j, n) /\ IsOrigin(b[1], b[2], k, x)
          /\ g[j][n] = AddedRank(a) /\ g[k][x] = AddedRank(b)
      BY <1>2, <1>6, <2>4
    <3> HIDE DEF a, b
    <3>2. ASSUME g[j][n] = g[k][x] PROVE Reg(j, n) = Reg(k, x)
      <4>1. a = b
        BY <1>1, <3>1, <3>2
      <4>2. QED
        BY <3>1, <4>1 DEF IsOrigin
    <3>3. ASSUME Reg(j, n) = Reg(k, x) PROVE g[j][n] = g[k][x]
      <4>1. IsOrigin(b[1], b[2], j, n)
        BY <3>1, <3>3 DEF IsOrigin
      <4>2. a[1] = b[1] /\ a[2] = b[2]
        BY <3>1, <4>1, OriginIsUnique
      <4>3. a = b
        BY <3>1, <4>2, AddedIs
      <4>4. QED
        BY <3>1, <4>3
    <3>4. QED
      BY <3>2, <3>3
  <2>5. QED
    BY <2>1, <2>2, <2>3, <2>4
<1>8. ASSUME NEW v \in 0 .. L PROVE \E j \in Channel : \E n \in NodeOf(j) : g[j][n] = v
  <2>1. CASE v = 0
    <3>1. 1 \in Channel
      BY DEF Channel, ntrees
    <3>2. QED
      BY <1>4, <1>6, <2>1, <3>1
  <2>2. CASE v # 0
    <3>1. v \in 1 .. L
      BY <1>1, <2>2
    <3>2. PICK a \in Added : AddedRank(a) = v
      BY <1>1, <3>1
    <3> DEFINE j == a[1]
               n == a[2]
    <3>3. a = <<j, n>>
      BY AddedIs
    <3> HIDE DEF j, n
    <3>4. j \in Channel /\ n \in NodeOf(j) /\ n > 0 /\ SameShape(j, n) = {}
      BY <3>3, AddedIs
    <3>5. n # 0
      BY <3>4
    <3>6. g[j][n] = AddedRank(Origin(j, n)) /\ Origin(j, n) = a
      BY <1>6, <3>3, <3>4, <3>5 DEF Origin
    <3>7. QED
      BY <3>2, <3>4, <3>6
  <2>3. QED
    BY <2>1, <2>2
<1>9. \A j \in Channel : g[j] \in [NodeOf(j) -> 0 .. L] /\ g[j][0] = 0
  <2> SUFFICES ASSUME NEW j \in Channel PROVE g[j] \in [NodeOf(j) -> 0 .. L] /\ g[j][0] = 0
    OBVIOUS
  <2>1. g[j] = [n \in NodeOf(j) |-> g[j][n]]
    OBVIOUS
  <2>2. QED
    BY <1>4, <1>6, <2>1
<1>10. QED
  BY <1>1, <1>7, <1>8, <1>9 DEF VerticesOf, L

-----------------------------------------------------------------------------
(* The shape of a vertex. *)
Shape(v) == CHOOSE R : \E j \in Channel : \E n \in NodeOf(j) : tree_to_graph[j][n] = v /\ R = Reg(j, n)

Inside(v, w) == Shape(v) \subseteq Shape(w) /\ Shape(v) # Shape(w)

LEMMA ShapesAre ==
    ASSUME ForestOK, NEW L, VerticesOf(tree_to_graph, L)
    PROVE  /\ \A j \in Channel : \A n \in NodeOf(j) : /\ tree_to_graph[j][n] \in 0 .. L
                                                      /\ Shape(tree_to_graph[j][n]) = Reg(j, n)
           /\ \A v \in 0 .. L : /\ Shape(v) \subseteq Faces /\ Shape(v) # {}
                                /\ \E j \in Channel : \E n \in NodeOf(j) : tree_to_graph[j][n] = v /\ Shape(v) = Reg(j, n)
           /\ \A v, w \in 0 .. L : Shape(v) = Shape(w) => v = w
           /\ 0 \in 0 .. L /\ Shape(0) = Faces
<1>1. ASSUME NEW j \in Channel, NEW n \in NodeOf(j) PROVE Shape(tree_to_graph[j][n]) = Reg(j, n)
  <2> DEFINE v == tree_to_graph[j][n]
             Is(R) == \E k \in Channel : \E x \in NodeOf(k) : tree_to_graph[k][x] = v /\ R = Reg(k, x)
  <2>1. Is(Reg(j, n))
    OBVIOUS
  <2>2. \A R : Is(R) => R = Reg(j, n)
    BY DEF VerticesOf
  <2>3. Shape(v) = CHOOSE R : Is(R)
    BY DEF Shape
  <2> HIDE DEF Is
  <2>4. QED
    BY <2>1, <2>2, <2>3
<1>2. \A j \in Channel : \A n \in NodeOf(j) : tree_to_graph[j][n] \in 0 .. L
  BY DEF VerticesOf
<1>3. \A j \in Channel : \A n \in NodeOf(j) : Reg(j, n) \subseteq Faces /\ Reg(j, n) # {}
  BY DEF ForestOK, RegionsOK, NodeOf, Reg
<1>4. \A v \in 0 .. L : \E j \in Channel : \E n \in NodeOf(j) : tree_to_graph[j][n] = v
  BY DEF VerticesOf
<1>5. \A v \in 0 .. L : /\ Shape(v) \subseteq Faces /\ Shape(v) # {}
                        /\ \E j \in Channel : \E n \in NodeOf(j) : tree_to_graph[j][n] = v /\ Shape(v) = Reg(j, n)
  BY <1>1, <1>3, <1>4
<1>6. \A v, w \in 0 .. L : Shape(v) = Shape(w) => v = w
  <2> SUFFICES ASSUME NEW v \in 0 .. L, NEW w \in 0 .. L, Shape(v) = Shape(w) PROVE v = w
    OBVIOUS
  <2>10. PICK j \in Channel : \E n \in NodeOf(j) : tree_to_graph[j][n] = v /\ Shape(v) = Reg(j, n)
    BY <1>5
  <2>1. PICK n \in NodeOf(j) : tree_to_graph[j][n] = v /\ Shape(v) = Reg(j, n)
    BY <2>10
  <2>20. PICK k \in Channel : \E x \in NodeOf(k) : tree_to_graph[k][x] = w /\ Shape(w) = Reg(k, x)
    BY <1>5
  <2>2. PICK x \in NodeOf(k) : tree_to_graph[k][x] = w /\ Shape(w) = Reg(k, x)
    BY <2>20
  <2>3. Reg(j, n) = Reg(k, x)
    BY <2>1, <2>2
  <2>4. tree_to_graph[j][n] = tree_to_graph[k][x]
    BY <2>3 DEF VerticesOf
  <2>5. QED
    BY <2>1, <2>2, <2>4
<1>7. 0 \in 0 .. L /\ Shape(0) = Faces
  <2>1. 1 \in Channel
    BY DEF Channel, ntrees
  <2>2. 0 \in NodeOf(1) /\ Reg(1, 0) = Faces
    BY <2>1 DEF ForestOK, RegionsOK, NodeOf, Reg
  <2>3. tree_to_graph[1][0] = 0
    BY <2>1 DEF VerticesOf
  <2>4. QED
    BY <1>1, <1>2, <2>1, <2>2, <2>3
<1>8. QED
  BY <1>1, <1>2, <1>5, <1>6, <1>7

(* The edges go to shapes around, close enough to lead to all of them. *)
Surround(S, w, L) ==
    /\ S \subseteq 0 .. L /\ \A a \in S : Inside(w, a)
    /\ \A u \in 0 .. L : Inside(w, u) => \E a \in S : Shape(a) \subseteq Shape(u)

LEMMA EdgesSurround ==
    ASSUME ForestOK, SesOK, NEW L, VerticesOf(tree_to_graph, L), NEW w \in 0 .. L
    PROVE  Surround(EdgesFrom(w), w, L)
<1> DEFINE T == tree_to_graph
           Own(j, n) == j \in Channel /\ n \in NodeOf(j) /\ n > 0 /\ T[j][n] = w
           Other(j, k, n) == k \in Channel /\ k # j /\ ses[k][j][ses[j][k][n]] # n
<1>1. /\ \A j \in Channel : \A n \in NodeOf(j) : T[j][n] \in 0 .. L /\ Shape(T[j][n]) = Reg(j, n)
      /\ \A v \in 0 .. L : \E j \in Channel : \E n \in NodeOf(j) : T[j][n] = v /\ Shape(v) = Reg(j, n)
      /\ \A v \in 0 .. L : Shape(v) \subseteq Faces
  BY ShapesAre
<1>2. \A a : a \in EdgesFrom(w) <=>
           \E j, n : Own(j, n) /\ (a = T[j][trees[j].parent[n]] \/ \E k : Other(j, k, n) /\ a = T[k][ses[j][k][n]])
  <2> DEFINE E(j, n) == {T[j][trees[j].parent[n]]} \cup
                        {T[k][ses[j][k][n]] : k \in {l \in Channel : l # j /\ ses[l][j][ses[j][l][n]] # n}}
  <2>1. EdgesFrom(w) = UNION {UNION {E(j, n) : n \in {m \in NodesOf(trees[j]) : m > 0 /\ T[j][m] = w}} : j \in Channel}
    BY DEF EdgesFrom
  <2>2. \A a, j, n : a \in E(j, n) <=> a = T[j][trees[j].parent[n]] \/ \E k : Other(j, k, n) /\ a = T[k][ses[j][k][n]]
    OBVIOUS
  <2> HIDE DEF E
  <2>3. \A a : a \in EdgesFrom(w) <=> \E j, n : Own(j, n) /\ a \in E(j, n)
    BY <2>1 DEF NodeOf
  <2> HIDE DEF Own, Other
  <2>4. QED
    BY <2>2, <2>3
<1>3. \A j \in Channel : RegionsOK(trees[j])
  BY DEF ForestOK
<1>4. \A j, k \in Channel : \A n \in NodeOf(j) : Encloses(ses[j][k][n], j, k, n)
  BY DEF SesOK
<1>5. ASSUME NEW a \in EdgesFrom(w) PROVE a \in 0 .. L /\ Inside(w, a)
  <2>1. PICK j, n : Own(j, n) /\ (a = T[j][trees[j].parent[n]] \/ \E k : Other(j, k, n) /\ a = T[k][ses[j][k][n]])
    BY <1>2, <1>5
  <2>2. Shape(w) = Reg(j, n)
    BY <1>1, <2>1
  <2>3. CASE a = T[j][trees[j].parent[n]]
    <3> DEFINE x == trees[j].parent[n]
    <3>1. n # 0
      BY <2>1, <1>3 DEF RegionsOK, NodeOf
    <3>2. x \in NodeOf(j) /\ Reg(j, n) \subseteq Reg(j, x) /\ Reg(j, n) # Reg(j, x)
      BY <1>3, <2>1, <3>1 DEF RegionsOK, NodeOf, Reg
    <3> HIDE DEF x
    <3>3. a = T[j][x]
      BY <2>3 DEF x
    <3>4. a \in 0 .. L /\ Shape(a) = Reg(j, x)
      BY <1>1, <2>1, <3>2, <3>3
    <3>5. QED
      BY <2>2, <3>2, <3>4 DEF Inside
  <2>4. ASSUME NEW k, Other(j, k, n), a = T[k][ses[j][k][n]] PROVE a \in 0 .. L /\ Inside(w, a)
    <3> DEFINE s == ses[j][k][n]
    <3>1. Encloses(s, j, k, n)
      BY <1>4, <2>1, <2>4
    <3>2. Reg(k, s) # Reg(j, n)
      BY <2>1, <2>4, <3>1, SameShapeIs DEF Encloses
    <3> HIDE DEF s
    <3>3. a \in 0 .. L /\ Shape(a) = Reg(k, s)
      BY <1>1, <2>4, <3>1 DEF Encloses, s
    <3>4. QED
      BY <2>2, <3>1, <3>2, <3>3 DEF Encloses, Inside
  <2>5. QED
    BY <2>1, <2>3, <2>4
<1>6. ASSUME NEW u \in 0 .. L, Inside(w, u) PROVE \E a \in EdgesFrom(w) : Shape(a) \subseteq Shape(u)
  <2>10. PICK j \in Channel : \E n \in NodeOf(j) : T[j][n] = w /\ Shape(w) = Reg(j, n)
    BY <1>1
  <2>1. PICK n \in NodeOf(j) : T[j][n] = w /\ Shape(w) = Reg(j, n)
    BY <2>10
  <2>20. PICK k \in Channel : \E x \in NodeOf(k) : T[k][x] = u /\ Shape(u) = Reg(k, x)
    BY <1>1
  <2>2. PICK x \in NodeOf(k) : T[k][x] = u /\ Shape(u) = Reg(k, x)
    BY <2>20
  <2>3. Reg(j, n) \subseteq Reg(k, x) /\ Reg(j, n) # Reg(k, x)
    BY <1>6, <2>1, <2>2 DEF Inside
  <2>4. ASSUME NEW l \in Channel, NEW y \in NodeOf(l), Reg(l, y) = Reg(j, n), NEW z \in NodeOf(l),
               Reg(l, y) \subseteq Reg(l, z), y # z
        PROVE  \E a \in EdgesFrom(w) : Shape(a) \subseteq Reg(l, z)
    <3> DEFINE q == trees[l].parent[y]
    <3>1. y # 0 /\ Reg(l, q) \subseteq Reg(l, z)
      BY <1>3, <2>4 DEF RegionsOK, NodeOf, Reg
    <3>2. y > 0 /\ q \in NodeOf(l)
      <4>1. NodeOf(l) \subseteq Nat /\ \A m \in NodeOf(l) : m # 0 => trees[l].parent[m] \in NodeOf(l)
        BY <1>3 DEF RegionsOK, NodeOf
      <4>2. y \in Nat /\ q \in NodeOf(l)
        BY <3>1, <4>1
      <4>3. QED
        BY <3>1, <4>2
    <3>3. T[l][y] = w
      BY <2>1, <2>4 DEF VerticesOf
    <3>4. T[l][q] \in EdgesFrom(w)
      BY <1>2, <3>2, <3>3
    <3>5. Shape(T[l][q]) = Reg(l, q)
      BY <1>1, <3>2
    <3>6. QED
      BY <3>1, <3>4, <3>5
  <2>5. CASE j = k
    BY <2>2, <2>3, <2>4, <2>5
  <2>6. CASE j # k
    <3> DEFINE s == ses[j][k][n]
    <3>1. Encloses(s, j, k, n)
      BY <1>4
    <3>2. Reg(k, s) \subseteq Reg(k, x) /\ s \in NodeOf(k)
      BY <2>3, <3>1 DEF Encloses
    <3>3. CASE ses[k][j][s] = n
      <4>1. Reg(k, s) = Reg(j, n)
        BY <3>3, SameShapeIs
      <4> HIDE DEF s
      <4>2. s # x
        BY <2>3, <4>1
      <4>3. QED
        BY <2>2, <2>4, <3>2, <4>1, <4>2
    <3>4. CASE ses[k][j][s] # n
      <4>1. n > 0
        <5>1. n # 0
          <6>1. n = 0 => Reg(j, n) = Faces
            BY <1>3 DEF RegionsOK, Reg, NodeOf
          <6>2. Reg(k, x) \subseteq Faces
            BY <1>3 DEF RegionsOK, Reg, NodeOf
          <6>3. QED
            BY <2>3, <6>1, <6>2
        <5>2. n \in Nat
          BY <1>3 DEF RegionsOK, NodeOf
        <5>3. QED
          BY <5>1, <5>2
      <4>2. Own(j, n) /\ Other(j, k, n)
        BY <2>1, <2>6, <3>4, <4>1
      <4> HIDE DEF Own, Other
      <4>3. T[k][s] \in EdgesFrom(w)
        BY <1>2, <4>2
      <4>4. Shape(T[k][s]) = Reg(k, s)
        BY <1>1, <3>2
      <4>5. QED
        BY <2>2, <3>2, <4>3, <4>4
    <3>5. QED
      BY <3>3, <3>4
  <2>7. QED
    BY <2>5, <2>6
<1>7. QED
  BY <1>5, <1>6 DEF Surround

LEMMA NodeDepthsAre ==
    ASSUME ForestOK, NEW L, VerticesOf(tree_to_graph, L), NEW v \in 0 .. L
    PROVE  \E j \in Channel : \E n \in NodeOf(j) :
              /\ tree_to_graph[j][n] = v
              /\ \A k \in Channel : NodeDepths(v)[k] = DepthIn(trees[k], ses[j][k][n])
<1> DEFINE T == tree_to_graph
           S == {j \in Channel : v \in Range(T[j])}
           j == Min(S)
           n == CHOOSE m \in NodesOf(trees[j]) : T[j][m] = v
<1>1. \A k \in Channel : v \in Range(T[k]) <=> \E m \in NodeOf(k) : T[k][m] = v
  <2> SUFFICES ASSUME NEW k \in Channel PROVE v \in Range(T[k]) <=> \E m \in NodeOf(k) : T[k][m] = v
    OBVIOUS
  <2>1. DOMAIN T[k] = NodeOf(k)
    BY DEF VerticesOf
  <2>2. QED
    BY <2>1 DEF Range
<1>2. S # {} /\ S \subseteq Channel
  BY <1>1 DEF VerticesOf
<1>3. j \in S
  <2>1. Channel \subseteq Int /\ IsFiniteSet(Channel)
    <3>1. 1 \in Int /\ 3 \in Int
      OBVIOUS
    <3>2. IsFiniteSet(1 .. 3)
      BY <3>1, FS_Interval
    <3>3. QED
      BY <3>2 DEF Channel, ntrees
  <2>2. S \subseteq Int /\ IsFiniteSet(S)
    BY <1>2, <2>1, FS_Subset
  <2> HIDE DEF S
  <2>3. QED
    BY <1>2, <2>2, FiniteExtrema
<1>4. NodeDepths(v) = [k \in Channel |-> DepthIn(trees[k], ses[j][k][n])]
  BY DEF NodeDepths
<1> HIDE DEF j
<1>5. n \in NodesOf(trees[j]) /\ T[j][n] = v
  BY <1>1, <1>3 DEF NodeOf
<1> HIDE DEF n
<1>6. j \in Channel /\ n \in NodeOf(j)
  BY <1>3, <1>5 DEF NodeOf
<1>7. QED
  BY <1>4, <1>5, <1>6

(* Of two shapes around another one, the one that is deeper in all the trees is inside. *)
LEMMA DeeperIsInside ==
    ASSUME ForestOK, SesOK, NEW L, VerticesOf(tree_to_graph, L),
           NEW w \in 0 .. L, NEW a \in 0 .. L, NEW b \in 0 .. L, Inside(w, a), Inside(w, b),
           \A k \in Channel : NodeDepths(a)[k] > NodeDepths(b)[k]
    PROVE  Inside(a, b)
<1>1. PICK pos \in Channel : \E m \in NodeOf(pos) :
          /\ tree_to_graph[pos][m] = a
          /\ \A k \in Channel : NodeDepths(a)[k] = DepthIn(trees[k], ses[pos][k][m])
  BY NodeDepthsAre
<1>2. PICK m \in NodeOf(pos) :
          /\ tree_to_graph[pos][m] = a
          /\ \A k \in Channel : NodeDepths(a)[k] = DepthIn(trees[k], ses[pos][k][m])
  BY <1>1
<1>3. PICK j \in Channel : \E n \in NodeOf(j) :
          /\ tree_to_graph[j][n] = b
          /\ \A k \in Channel : NodeDepths(b)[k] = DepthIn(trees[k], ses[j][k][n])
  BY NodeDepthsAre
<1>4. PICK n \in NodeOf(j) :
          /\ tree_to_graph[j][n] = b
          /\ \A k \in Channel : NodeDepths(b)[k] = DepthIn(trees[k], ses[j][k][n])
  BY <1>3
<1> DEFINE s == ses[pos][j][m]
           r == ses[j][j][n]
           t == trees[j]
<1>5. DepthIn(t, s) > DepthIn(t, r)
  BY <1>2, <1>4
<1>6. Encloses(s, pos, j, m) /\ Encloses(r, j, j, n)
  BY DEF SesOK
<1>7. RegionsOK(t)
  BY DEF ForestOK
<1> HIDE DEF s, r
<1>8. Reg(j, r) = Reg(j, n) /\ r \in NodeOf(j) /\ s \in NodeOf(j) /\ Reg(pos, m) \subseteq Reg(j, s)
  BY <1>6 DEF Encloses
<1>9. Shape(a) = Reg(pos, m) /\ Shape(b) = Reg(j, r) /\ Shape(w) # {}
  BY <1>2, <1>4, <1>8, ShapesAre
<1>10. Reg(j, s) \cap Reg(j, r) # {}
  BY <1>8, <1>9 DEF Inside
<1>11. /\ s \in NodesOf(t) /\ r \in NodesOf(t) /\ NodesOf(t) \subseteq Nat
       /\ RegionOf(t, s) = Reg(j, s) /\ RegionOf(t, r) = Reg(j, r)
  BY <1>7, <1>8 DEF RegionsOK, NodeOf, Reg
<1>12. DepthIn(t, s) \in Int /\ DepthIn(t, r) \in Int
  BY <1>7, <1>11 DEF RegionsOK
<1> HIDE DEF t
<1>13. ~(Reg(j, r) \subseteq Reg(j, s))
  <2>1. RegionOf(t, r) \subseteq RegionOf(t, s) => DepthIn(t, s) <= DepthIn(t, r)
    BY <1>7, <1>11 DEF RegionsOK
  <2>2. QED
    BY <1>5, <1>11, <1>12, <2>1
<1>14. Reg(j, s) \subseteq Reg(j, r)
  <2>1. s <= r \/ r <= s
    BY <1>11
  <2>2. \A x, y \in NodesOf(t) :
           RegionOf(t, x) \cap RegionOf(t, y) # {} /\ x <= y => RegionOf(t, y) \subseteq RegionOf(t, x)
    BY <1>7 DEF RegionsOK
  <2>3. s <= r => Reg(j, r) \subseteq Reg(j, s)
    BY <1>10, <1>11, <2>2
  <2>4. r <= s => Reg(j, s) \subseteq Reg(j, r)
    BY <1>10, <1>11, <2>2
  <2>5. QED
    BY <1>13, <2>1, <2>3, <2>4
<1>15. QED
  BY <1>8, <1>9, <1>13, <1>14 DEF Inside

LEMMA ReducedSurround ==
    ASSUME ForestOK, SesOK, NEW L, VerticesOf(tree_to_graph, L), NEW w \in 0 .. L,
           NEW S, Surround(S, w, L)
    PROVE  Surround(Reduced(S), w, L)
<1> DEFINE deeper(a, b) == \A k \in Channel : NodeDepths(a)[k] > NodeDepths(b)[k]
<1>1. Reduced(S) = S \ {b \in S : \E a \in S \ {b} : deeper(a, b)}
  BY DEF Reduced
<1>2. S \subseteq 0 .. L /\ \A a \in S : Inside(w, a)
  BY DEF Surround
<1>3. \A a, b \in S : deeper(a, b) => Inside(a, b)
  BY <1>2, DeeperIsInside
<1>4. \A v \in 0 .. L : Shape(v) \subseteq Faces
  BY ShapesAre
<1> HIDE DEF deeper
<1>5. ASSUME NEW u \in 0 .. L, Inside(w, u) PROVE \E a \in Reduced(S) : Shape(a) \subseteq Shape(u)
  <2> DEFINE C == {a \in S : Shape(a) \subseteq Shape(u)}
             size(a) == Cardinality(Shape(a))
             Z == {size(a) : a \in C}
  <2>1. C # {}
    BY <1>5 DEF Surround
  <2>2. \A a \in S : IsFiniteSet(Shape(a)) /\ size(a) \in Nat
    <3> SUFFICES ASSUME NEW a \in S PROVE IsFiniteSet(Shape(a)) /\ size(a) \in Nat
      OBVIOUS
    <3>1. IsFiniteSet(Shape(a))
      BY <1>2, <1>4, FS_Subset DEF ForestOK
    <3>2. QED
      BY <3>1, FS_CardinalityType
  <2> HIDE DEF size
  <2>3. Z \in SUBSET Nat /\ Z # {}
    BY <2>1, <2>2
  <2>4. PICK z \in Z : \A y \in Z : z <= y
    <3> HIDE DEF Z
    <3>1. QED
      BY <2>3, LeastElement
  <2>5. PICK a \in C : size(a) = z
    OBVIOUS
  <2>6. \A b \in C : size(a) <= size(b)
    BY <2>4, <2>5
  <2>7. ASSUME NEW b \in S, deeper(b, a) PROVE FALSE
    <3>1. Inside(b, a)
      BY <1>3, <2>7
    <3>2. b \in C
      BY <3>1 DEF Inside
    <3> DEFINE B == Shape(b)
               A == Shape(a)
    <3>3. B \subseteq A /\ B # A /\ IsFiniteSet(A)
      BY <2>2, <3>1 DEF Inside
    <3>4. size(a) = Cardinality(A) /\ size(b) = Cardinality(B)
      BY DEF size
    <3> HIDE DEF A, B
    <3>5. Cardinality(B) <= Cardinality(A) /\ Cardinality(B) # Cardinality(A)
      BY <3>3, FS_Subset
    <3>6. QED
      BY <2>2, <2>6, <3>2, <3>4, <3>5
  <2>8. QED
    BY <1>1, <2>7
<1>6. QED
  BY <1>1, <1>2, <1>5 DEF Surround

(* The transposed graph. *)
GraphOf(G, L) ==
    /\ DOMAIN G = 0 .. L /\ \A v \in 0 .. L : G[v] \subseteq 0 .. L
    /\ \A w \in 0 .. L : Surround({a \in 0 .. L : w \in G[a]}, w, L)

LEMMA EdgesAdded ==
    ASSUME ForestOK, SesOK, NEW L, VerticesOf(tree_to_graph, L), AddEdges
    PROVE  GraphOf(gT', L) /\ visited' = [v \in 0 .. L |-> "UNMARKED"]
<1> DEFINE U == UNION {Range(tree_to_graph[j]) : j \in Channel}
           far == Max(U)
<1>1. PICK graph : /\ graph = [v \in 0 .. far |-> Reduced(EdgesFrom(v))]
                   /\ gT' = [v \in 0 .. far |-> {w \in 0 .. far : v \in graph[w]}]
                   /\ visited' = [v \in 0 .. far |-> "UNMARKED"]
  <2>1. \E l \in {far} : \E graph \in {[v \in 0 .. l |-> Reduced(EdgesFrom(v))]} :
           /\ gT' = [v \in 0 .. l |-> {w \in 0 .. l : v \in graph[w]}]
           /\ visited' = [v \in 0 .. l |-> "UNMARKED"]
    BY DEF AddEdges
  <2> HIDE DEF far
  <2>2. \E graph \in {[v \in 0 .. far |-> Reduced(EdgesFrom(v))]} :
           /\ gT' = [v \in 0 .. far |-> {w \in 0 .. far : v \in graph[w]}]
           /\ visited' = [v \in 0 .. far |-> "UNMARKED"]
    BY <2>1
  <2>3. QED
    BY <2>2
<1>2. U = 0 .. L
  <2>1. \A j \in Channel : DOMAIN tree_to_graph[j] = NodeOf(j)
    BY DEF VerticesOf
  <2>2. \A v : v \in U <=> \E j \in Channel : \E n \in NodeOf(j) : tree_to_graph[j][n] = v
    BY <2>1 DEF Range
  <2>3. \A v \in 0 .. L : v \in U
    BY <2>2 DEF VerticesOf
  <2>4. \A j \in Channel : \A n \in NodeOf(j) : tree_to_graph[j][n] \in 0 .. L
    BY DEF VerticesOf
  <2>5. \A v \in U : v \in 0 .. L
    BY <2>2, <2>4
  <2> HIDE DEF U
  <2>6. QED
    BY <2>3, <2>5
<1>3. far = L
  <2>1. L \in Nat
    BY DEF VerticesOf
  <2>2. IsFiniteSet(0 .. L) /\ 0 .. L \subseteq Int /\ L \in 0 .. L
    BY <2>1, FS_Interval
  <2>3. Max(0 .. L) \in 0 .. L /\ \A y \in 0 .. L : y <= Max(0 .. L)
    <3> DEFINE I == 0 .. L
    <3>1. IsFiniteSet(I) /\ I \subseteq Int /\ I # {}
      BY <2>2
    <3> HIDE DEF I
    <3>2. Max(I) \in I /\ \A y \in I : y <= Max(I)
      BY <3>1, FiniteExtrema
    <3>3. QED
      BY <3>2 DEF I
  <2> DEFINE x == Max(0 .. L)
  <2>4. x \in 0 .. L /\ L <= x
    BY <2>2, <2>3
  <2> HIDE DEF x
  <2>5. x = L
    BY <2>1, <2>4
  <2>6. QED
    BY <1>2, <2>5 DEF x
<1> HIDE DEF far, U
<1>4. \A w \in 0 .. L : Surround(graph[w], w, L)
  BY <1>1, <1>3, EdgesSurround, ReducedSurround
<1>5. gT' = [v \in 0 .. L |-> {w \in 0 .. L : v \in graph[w]}]
  BY <1>1, <1>3
<1>6. \A w \in 0 .. L : {a \in 0 .. L : w \in gT'[a]} = graph[w]
  BY <1>4, <1>5 DEF Surround
<1>7. QED
  BY <1>1, <1>3, <1>4, <1>5, <1>6 DEF GraphOf

-----------------------------------------------------------------------------
(* The inclusion of the shapes, as a relation between the vertices. *)
Inclusion(L) ==
    {e \in (0 .. L) \X (0 .. L) :
        \E j, k \in Channel : \E n \in NodeOf(j), x \in NodeOf(k) :
            /\ tree_to_graph[j][n] = e[1] /\ tree_to_graph[k][x] = e[2]
            /\ Reg(j, n) \subseteq Reg(k, x) /\ Reg(j, n) # Reg(k, x)}

(* The edges of the graph G are inclusions, and lead to all of them. *)
GraphIs(G, L, In) ==
    /\ L \in Nat /\ DOMAIN G = 0 .. L /\ \A v \in 0 .. L : G[v] \subseteq 0 .. L
    /\ \A v \in 0 .. L : <<v, v>> \notin In
    /\ \A u, v, w \in 0 .. L : <<u, v>> \in In /\ <<v, w>> \in In => <<u, w>> \in In
    /\ \A v \in 0 .. L : v # 0 => <<v, 0>> \in In
    /\ \A v \in 0 .. L : \A w \in G[v] : <<w, v>> \in In
    /\ \A u, w \in 0 .. L : <<w, u>> \in In => \E a \in 0 .. L : w \in G[a] /\ (a = u \/ <<a, u>> \in In)

LEMMA InclusionIs ==
    ASSUME ForestOK, NEW L, VerticesOf(tree_to_graph, L), NEW v \in 0 .. L, NEW w \in 0 .. L
    PROVE  <<v, w>> \in Inclusion(L) <=> Inside(v, w)
<1>1. /\ \A j \in Channel : \A n \in NodeOf(j) : Shape(tree_to_graph[j][n]) = Reg(j, n)
      /\ \A y \in 0 .. L : \E j \in Channel : \E n \in NodeOf(j) : tree_to_graph[j][n] = y /\ Shape(y) = Reg(j, n)
  BY ShapesAre
<1>2. <<v, w>> \in Inclusion(L) <=>
        \E j, k \in Channel : \E n \in NodeOf(j), x \in NodeOf(k) :
            /\ tree_to_graph[j][n] = v /\ tree_to_graph[k][x] = w
            /\ Reg(j, n) \subseteq Reg(k, x) /\ Reg(j, n) # Reg(k, x)
  BY DEF Inclusion
<1>3. ASSUME <<v, w>> \in Inclusion(L) PROVE Inside(v, w)
  BY <1>1, <1>2, <1>3 DEF Inside
<1>4. ASSUME Inside(v, w) PROVE <<v, w>> \in Inclusion(L)
  <2>1. PICK j \in Channel : \E n \in NodeOf(j) : tree_to_graph[j][n] = v /\ Shape(v) = Reg(j, n)
    BY <1>1
  <2>2. PICK n \in NodeOf(j) : tree_to_graph[j][n] = v /\ Shape(v) = Reg(j, n)
    BY <2>1
  <2>3. PICK k \in Channel : \E x \in NodeOf(k) : tree_to_graph[k][x] = w /\ Shape(w) = Reg(k, x)
    BY <1>1
  <2>4. PICK x \in NodeOf(k) : tree_to_graph[k][x] = w /\ Shape(w) = Reg(k, x)
    BY <2>3
  <2>5. Reg(j, n) \subseteq Reg(k, x) /\ Reg(j, n) # Reg(k, x)
    BY <1>4, <2>2, <2>4 DEF Inside
  <2>6. QED
    BY <1>2, <2>2, <2>4, <2>5
<1>5. QED
  BY <1>3, <1>4

LEMMA GraphIsInclusion ==
    ASSUME ForestOK, NEW L, VerticesOf(tree_to_graph, L), NEW G, GraphOf(G, L)
    PROVE  GraphIs(G, L, Inclusion(L))
<1> DEFINE V == 0 .. L
           In == Inclusion(L)
<1>1. L \in Nat /\ DOMAIN G = V /\ \A v \in V : G[v] \subseteq V
  BY DEF VerticesOf, GraphOf
<1>2. \A v, w \in V : <<v, w>> \in In <=> Inside(v, w)
  BY InclusionIs
<1>3. /\ \A v \in V : Shape(v) \subseteq Faces
      /\ \A v, w \in V : Shape(v) = Shape(w) => v = w
      /\ 0 \in V /\ Shape(0) = Faces
  BY ShapesAre
<1>4. \A w \in V : Surround({a \in V : w \in G[a]}, w, L)
  BY DEF GraphOf
<1> HIDE DEF V, In
<1>5. \A v \in V : <<v, v>> \notin In
  BY <1>2 DEF Inside
<1>6. \A u, v, w \in V : <<u, v>> \in In /\ <<v, w>> \in In => <<u, w>> \in In
  <2>1. \A u, v, w \in V : Inside(u, v) /\ Inside(v, w) => Inside(u, w)
    BY DEF Inside
  <2>2. QED
    BY <1>2, <2>1
<1>7. \A v \in V : v # 0 => <<v, 0>> \in In
  BY <1>2, <1>3 DEF Inside
<1>8. \A v \in V : \A w \in G[v] : <<w, v>> \in In
  BY <1>1, <1>2, <1>4 DEF Surround
<1>9. ASSUME NEW u \in V, NEW w \in V, <<w, u>> \in In
      PROVE  \E a \in V : w \in G[a] /\ (a = u \/ <<a, u>> \in In)
  <2>1. PICK a \in V : w \in G[a] /\ Shape(a) \subseteq Shape(u)
    BY <1>2, <1>4, <1>9 DEF Surround, V
  <2>2. a = u \/ Inside(a, u)
    BY <1>3, <2>1 DEF Inside
  <2>3. QED
    BY <1>2, <2>1, <2>2
<1>10. QED
  BY <1>1, <1>5, <1>6, <1>7, <1>8, <1>9 DEF GraphIs, V, In

-----------------------------------------------------------------------------
(* The topological sort.  A vertex that is open has above it, in the stack,  *)
(* only shapes that it includes, among which all those that are not sorted.  *)
IsOpen(u, G, In, vis, s) ==
    \E h \in 1 .. Len(s) :
        /\ s[h] = u
        /\ \A x \in 1 .. Len(s) : x > h => <<s[x], u>> \in In
        /\ \A w \in G[u] : vis[w] = "PERMANENT" \/ \E x \in 1 .. Len(s) : x > h /\ s[x] = w

IsTopoOrder(G, r) ==
    \A a \in 1 .. Len(r) : \A w \in G[r[a]] : \E b \in 1 .. Len(r) : a < b /\ r[b] = w

TopoIs(L, G, In, vis, s, r, a) ==
    /\ vis \in [0 .. L -> {"UNMARKED", "TEMPORARY", "PERMANENT"}]
    /\ s \in Seq(0 .. L) /\ r \in Seq(0 .. L) /\ a \in 0 .. L + 1
    /\ IsInjective(r) /\ IsTopoOrder(G, r)
    /\ \A v \in 0 .. L : vis[v] = "PERMANENT" <=> v \in Range(r)
    /\ \A v \in 0 .. L : vis[v] = "TEMPORARY" => IsOpen(v, G, In, vis, s)
    /\ \A v \in 0 .. L : v < a => vis[v] = "PERMANENT" \/ v \in Range(s)

LEMMA TopoAtFirst ==
    ASSUME NEW L, NEW G, NEW In, GraphIs(G, L, In)
    PROVE  TopoIs(L, G, In, [v \in 0 .. L |-> "UNMARKED"], <<>>, <<>>, 0)
<1>1. L \in Nat
  BY DEF GraphIs
<1>2. <<>> \in Seq(0 .. L) /\ IsInjective(<<>>) /\ Range(<<>>) = {} /\ IsTopoOrder(G, <<>>)
  BY DEF IsInjective, Range, IsTopoOrder
<1>3. 0 \in 0 .. L + 1 /\ \A v \in 0 .. L : ~(v < 0)
  BY <1>1
<1>4. QED
  BY <1>2, <1>3 DEF TopoIs

LEMMA TopoPushes ==
    ASSUME NEW L, NEW G, NEW In, NEW vis, NEW r, NEW a \in 0 .. L, GraphIs(G, L, In),
           TopoIs(L, G, In, vis, <<>>, r, a)
    PROVE  TopoIs(L, G, In, vis, <<a>>, r, a + 1)
<1>1. L \in Nat
  BY DEF GraphIs
<1>2. <<a>> \in Seq(0 .. L) /\ Range(<<a>>) = {a}
  BY DEF Range
<1>3. \A v \in 0 .. L : vis[v] # "TEMPORARY"
  BY DEF TopoIs, IsOpen
<1>4. \A v \in 0 .. L : v < a + 1 => v < a \/ v = a
  BY <1>1
<1>5. \A v \in 0 .. L : v < a => vis[v] = "PERMANENT"
  BY DEF TopoIs, Range
<1>6. a + 1 \in 0 .. L + 1
  BY <1>1
<1>7. QED
  BY <1>2, <1>3, <1>4, <1>5, <1>6 DEF TopoIs

LEMMA TopoPopsSorted ==
    ASSUME NEW L, NEW G, NEW In, NEW vis, NEW s, NEW r, NEW a, GraphIs(G, L, In),
           TopoIs(L, G, In, vis, s, r, a), s # <<>>, vis[Last(s)] = "PERMANENT"
    PROVE  TopoIs(L, G, In, vis, Front(s), r, a)
<1> DEFINE n == Len(s)
           f == Front(s)
           v == Last(s)
<1>1. s \in Seq(0 .. L)
  BY DEF TopoIs
<1>2. /\ n \in Nat \ {0} /\ f \in Seq(0 .. L) /\ Len(f) = n - 1
      /\ \A pos \in 1 .. n - 1 : f[pos] = s[pos]
      /\ v = s[n] /\ v \in 0 .. L
  BY <1>1, FrontAndLast
<1> HIDE DEF n, f, v
<1>3. \A x \in 1 .. n : x = n \/ x \in 1 .. n - 1
  BY <1>2
<1>4. \A w \in Range(s) : w = v \/ w \in Range(f)
  <2>1. DOMAIN s = 1 .. n /\ DOMAIN f = 1 .. n - 1
    BY <1>1, <1>2, LenProperties DEF n
  <2>2. QED
    BY <1>2, <1>3, <2>1 DEF Range
<1>5. ASSUME NEW u \in 0 .. L, vis[u] = "TEMPORARY" PROVE IsOpen(u, G, In, vis, f)
  <2>1. IsOpen(u, G, In, vis, s)
    BY <1>5 DEF TopoIs
  <2>2. PICK h \in 1 .. n :
            /\ s[h] = u
            /\ \A x \in 1 .. n : x > h => <<s[x], u>> \in In
            /\ \A w \in G[u] : vis[w] = "PERMANENT" \/ \E x \in 1 .. n : x > h /\ s[x] = w
    BY <2>1 DEF IsOpen, n
  <2>3. u # v
    BY <1>5 DEF v
  <2>4. h \in 1 .. n - 1
    BY <1>2, <1>3, <2>2, <2>3
  <2>5. \A x \in 1 .. n - 1 : x \in 1 .. n
    BY <1>2
  <2>6. f[h] = u /\ \A x \in 1 .. n - 1 : x > h => <<f[x], u>> \in In
    BY <1>2, <2>2, <2>4, <2>5
  <2>7. vis[v] = "PERMANENT"
    BY DEF v
  <2>8. ASSUME NEW w \in G[u] PROVE vis[w] = "PERMANENT" \/ \E x \in 1 .. n - 1 : x > h /\ f[x] = w
    BY <1>2, <1>3, <2>2, <2>7
  <2>9. QED
    BY <1>2, <2>4, <2>6, <2>8 DEF IsOpen
<1>6. \A w \in 0 .. L : w < a => vis[w] = "PERMANENT" \/ w \in Range(f)
  <2>1. vis[v] = "PERMANENT"
    BY DEF v
  <2>2. QED
    BY <1>4, <2>1 DEF TopoIs
<1>7. TopoIs(L, G, In, vis, f, r, a)
  BY <1>2, <1>5, <1>6 DEF TopoIs
<1>8. QED
  BY <1>7 DEF f

LEMMA OrderExtends ==
    ASSUME NEW V, NEW G, NEW r \in Seq(V), NEW v \in V, IsInjective(r), IsTopoOrder(G, r),
           v \notin Range(r), \A w \in G[v] : w \in Range(r)
    PROVE  /\ <<v>> \o r \in Seq(V) /\ Range(<<v>> \o r) = Range(r) \cup {v}
           /\ IsInjective(<<v>> \o r) /\ IsTopoOrder(G, <<v>> \o r)
<1> DEFINE m == Len(r)
           q == <<v>> \o r
<1>1. m \in Nat /\ DOMAIN r = 1 .. m
  BY LenProperties
<1>2. <<v>> \in Seq(V) /\ Len(<<v>>) = 1 /\ <<v>>[1] = v /\ Range(<<v>>) = {v} /\ IsInjective(<<v>>)
  BY DEF Range, IsInjective
<1>3. q \in Seq(V) /\ Range(q) = {v} \cup Range(r) /\ IsInjective(q)
  <2> DEFINE t == <<v>>
  <2>1. t \in Seq(V) /\ IsInjective(t) /\ Range(t) = {v} /\ q = t \o r
    BY <1>2
  <2> HIDE DEF t, q
  <2>2. Range(t) \cap Range(r) = {}
    BY <2>1
  <2>3. QED
    BY <2>1, <2>2, InjectiveConcat
<1>4. Len(q) = m + 1 /\ \A pos \in 1 .. m + 1 : q[pos] = IF pos <= 1 THEN v ELSE r[pos - 1]
  <2> DEFINE t == <<v>>
  <2>1. t \in Seq(V) /\ Len(t) = 1 /\ t[1] = v
    BY <1>2
  <2> HIDE DEF t, q, m
  <2>2. q = t \o r
    BY DEF t, q
  <2>3. Len(q) = Len(t) + Len(r) /\ \A pos \in 1 .. Len(q) : q[pos] = IF pos <= Len(t) THEN t[pos] ELSE r[pos - Len(t)]
    BY <2>1, <2>2, ConcatProperties
  <2>7. Len(q) = 1 + m /\ \A pos \in 1 .. Len(q) : q[pos] = IF pos <= 1 THEN t[pos] ELSE r[pos - 1]
    BY <2>1, <2>3 DEF m
  <2>4. 1 + m = m + 1
    BY <1>1
  <2>5. \A pos \in 1 .. m + 1 : pos <= 1 => pos = 1
    BY <1>1
  <2>6. QED
    BY <2>1, <2>7, <2>4, <2>5
<1> HIDE DEF q, m
<1>5. ASSUME NEW pos \in 1 .. m + 1, NEW w \in G[q[pos]] PROVE \E b \in 1 .. m + 1 : pos < b /\ q[b] = w
  <2>1. ASSUME NEW k \in 1 .. m, r[k] = w, pos <= k PROVE \E b \in 1 .. m + 1 : pos < b /\ q[b] = w
    <3> DEFINE b == k + 1
    <3>1. b \in 1 .. m + 1 /\ pos < b /\ ~(b <= 1) /\ b - 1 = k
      BY <1>1, <2>1
    <3> HIDE DEF b
    <3>2. q[b] = w
      BY <1>4, <2>1, <3>1
    <3>3. QED
      BY <3>1, <3>2
  <2>2. CASE pos <= 1
    <3>1. pos = 1 /\ q[pos] = v
      BY <1>1, <1>4, <2>2
    <3>2. PICK k \in 1 .. m : r[k] = w
      BY <1>1, <1>5, <3>1 DEF Range
    <3>3. pos <= k
      BY <3>1
    <3>4. QED
      BY <2>1, <3>2, <3>3
  <2>3. CASE pos > 1
    <3>1. pos - 1 \in 1 .. m /\ q[pos] = r[pos - 1]
      BY <1>1, <1>4, <2>3
    <3>2. PICK k \in 1 .. m : pos - 1 < k /\ r[k] = w
      BY <1>5, <3>1 DEF IsTopoOrder, m
    <3>3. pos <= k
      BY <1>1, <3>2
    <3>4. QED
      BY <2>1, <3>2, <3>3
  <2>4. QED
    BY <1>1, <2>2, <2>3
<1>6. IsTopoOrder(G, q)
  BY <1>4, <1>5 DEF IsTopoOrder
<1>7. QED
  BY <1>3, <1>6 DEF q

LEMMA TopoCloses ==
    ASSUME NEW L, NEW G, NEW In, NEW vis, NEW s, NEW r, NEW a, GraphIs(G, L, In),
           TopoIs(L, G, In, vis, s, r, a), s # <<>>, vis[Last(s)] = "TEMPORARY"
    PROVE  TopoIs(L, G, In, [vis EXCEPT ![Last(s)] = "PERMANENT"], Front(s), <<Last(s)>> \o r, a)
<1> DEFINE n == Len(s)
           f == Front(s)
           v == Last(s)
           vis2 == [vis EXCEPT ![v] = "PERMANENT"]
           q == <<v>> \o r
<1>1. /\ vis \in [0 .. L -> {"UNMARKED", "TEMPORARY", "PERMANENT"}]
      /\ s \in Seq(0 .. L) /\ r \in Seq(0 .. L) /\ a \in 0 .. L + 1
      /\ IsInjective(r) /\ IsTopoOrder(G, r)
      /\ \A u \in 0 .. L : vis[u] = "PERMANENT" <=> u \in Range(r)
      /\ \A u \in 0 .. L : vis[u] = "TEMPORARY" => IsOpen(u, G, In, vis, s)
      /\ \A u \in 0 .. L : u < a => vis[u] = "PERMANENT" \/ u \in Range(s)
  BY DEF TopoIs
<1>2. /\ n \in Nat \ {0} /\ f \in Seq(0 .. L) /\ Len(f) = n - 1
      /\ \A pos \in 1 .. n - 1 : f[pos] = s[pos]
      /\ v = s[n] /\ v \in 0 .. L
  BY <1>1, FrontAndLast
<1>3. /\ \A u \in 0 .. L : G[u] \subseteq 0 .. L
      /\ \A u \in 0 .. L : <<u, u>> \notin In
  BY DEF GraphIs
<1>4. vis[v] = "TEMPORARY"
  OBVIOUS
<1> HIDE DEF n, f, v
<1>5. \A x \in 1 .. n : x = n \/ x \in 1 .. n - 1
  BY <1>2
<1>6. \A w \in Range(s) : w = v \/ w \in Range(f)
  <2>1. DOMAIN s = 1 .. n /\ DOMAIN f = 1 .. n - 1
    BY <1>1, <1>2, LenProperties DEF n
  <2>2. QED
    BY <1>2, <1>5, <2>1 DEF Range
<1>7. /\ vis2 \in [0 .. L -> {"UNMARKED", "TEMPORARY", "PERMANENT"}]
      /\ \A u \in 0 .. L : vis2[u] = IF u = v THEN "PERMANENT" ELSE vis[u]
  BY <1>1, <1>2
<1> HIDE DEF vis2
<1>8. \A u \in 0 .. L : vis[u] = "TEMPORARY" =>
          \E h \in 1 .. n :
            /\ s[h] = u
            /\ \A x \in 1 .. n : x > h => <<s[x], u>> \in In
            /\ \A w \in G[u] : vis[w] = "PERMANENT" \/ \E x \in 1 .. n : x > h /\ s[x] = w
  BY <1>1 DEF IsOpen, n
<1>9. \A w \in G[v] : w \in Range(r)
  <2>1. PICK h \in 1 .. n :
            /\ s[h] = v
            /\ \A x \in 1 .. n : x > h => <<s[x], v>> \in In
            /\ \A w \in G[v] : vis[w] = "PERMANENT" \/ \E x \in 1 .. n : x > h /\ s[x] = w
    BY <1>2, <1>4, <1>8
  <2>2. n \in 1 .. n /\ ~(n > h)
    <3>1. n \in 1 .. n
      BY <1>2
    <3>2. QED
      BY <1>2, <1>3, <2>1, <3>1
  <2>3. \A x \in 1 .. n : ~(x > h)
    BY <1>2, <2>2
  <2>4. \A w \in G[v] : vis[w] = "PERMANENT"
    BY <2>1, <2>3
  <2>5. QED
    BY <1>1, <1>2, <1>3, <2>4
<1>10. v \notin Range(r)
  BY <1>1, <1>2, <1>4
<1>11. q \in Seq(0 .. L) /\ Range(q) = Range(r) \cup {v} /\ IsInjective(q) /\ IsTopoOrder(G, q)
  <2> DEFINE V == 0 .. L
  <2>1. r \in Seq(V) /\ v \in V /\ IsInjective(r) /\ IsTopoOrder(G, r)
    BY <1>1, <1>2
  <2> HIDE DEF V
  <2>2. <<v>> \o r \in Seq(V) /\ Range(<<v>> \o r) = Range(r) \cup {v}
        /\ IsInjective(<<v>> \o r) /\ IsTopoOrder(G, <<v>> \o r)
    BY <1>9, <1>10, <2>1, OrderExtends
  <2>3. QED
    BY <2>2 DEF V
<1> HIDE DEF q
<1>12. \A u \in 0 .. L : vis2[u] = "PERMANENT" <=> u \in Range(q)
  BY <1>1, <1>7, <1>11
<1>13. ASSUME NEW u \in 0 .. L, vis2[u] = "TEMPORARY" PROVE IsOpen(u, G, In, vis2, f)
  <2>1. u # v /\ vis[u] = "TEMPORARY"
    BY <1>7, <1>13
  <2>2. PICK h \in 1 .. n :
            /\ s[h] = u
            /\ \A x \in 1 .. n : x > h => <<s[x], u>> \in In
            /\ \A w \in G[u] : vis[w] = "PERMANENT" \/ \E x \in 1 .. n : x > h /\ s[x] = w
    BY <1>8, <2>1
  <2>3. h \in 1 .. n - 1
    BY <1>2, <1>5, <2>1, <2>2
  <2>4. \A x \in 1 .. n - 1 : x \in 1 .. n
    BY <1>2
  <2>5. f[h] = u /\ \A x \in 1 .. n - 1 : x > h => <<f[x], u>> \in In
    BY <1>2, <2>2, <2>3, <2>4
  <2>6. ASSUME NEW w \in G[u] PROVE vis2[w] = "PERMANENT" \/ \E x \in 1 .. n - 1 : x > h /\ f[x] = w
    <3>1. w \in 0 .. L
      BY <1>3
    <3>2. CASE vis[w] = "PERMANENT" \/ w = v
      BY <1>7, <3>1, <3>2
    <3>3. CASE vis[w] # "PERMANENT" /\ w # v
      <4>1. PICK x \in 1 .. n : x > h /\ s[x] = w
        BY <2>2, <3>3
      <4>2. x \in 1 .. n - 1
        BY <1>2, <1>5, <3>3, <4>1
      <4>3. QED
        BY <1>2, <4>1, <4>2
    <3>4. QED
      BY <3>2, <3>3
  <2>7. Len(f) = n - 1 /\ \E y \in 1 .. n - 1 : y = h
    BY <1>2, <2>3
  <2> HIDE DEF n
  <2>8. \E y \in 1 .. n - 1 :
            /\ f[y] = u
            /\ \A x \in 1 .. n - 1 : x > y => <<f[x], u>> \in In
            /\ \A w \in G[u] : vis2[w] = "PERMANENT" \/ \E x \in 1 .. n - 1 : x > y /\ f[x] = w
    BY <2>5, <2>6, <2>7
  <2>9. QED
    BY <2>7, <2>8 DEF IsOpen
<1>14. \A w \in 0 .. L : w < a => vis2[w] = "PERMANENT" \/ w \in Range(f)
  BY <1>1, <1>6, <1>7
<1>15. TopoIs(L, G, In, vis2, f, q, a)
  BY <1>1, <1>2, <1>7, <1>11, <1>12, <1>13, <1>14 DEF TopoIs
<1>16. QED
  BY <1>15 DEF vis2, f, q, v

LEMMA TopoOpens ==
    ASSUME NEW L, NEW G, NEW In, NEW vis, NEW s, NEW r, NEW a, GraphIs(G, L, In),
           TopoIs(L, G, In, vis, s, r, a), s # <<>>, vis[Last(s)] = "UNMARKED",
           NEW t \in Seq(0 .. L), Range(t) = G[Last(s)]
    PROVE  TopoIs(L, G, In, [vis EXCEPT ![Last(s)] = "TEMPORARY"], s \o t, r, a)
<1> DEFINE n == Len(s)
           k == Len(t)
           v == Last(s)
           vis2 == [vis EXCEPT ![v] = "TEMPORARY"]
           q == s \o t
<1>1. /\ vis \in [0 .. L -> {"UNMARKED", "TEMPORARY", "PERMANENT"}]
      /\ s \in Seq(0 .. L) /\ r \in Seq(0 .. L) /\ a \in 0 .. L + 1
      /\ IsInjective(r) /\ IsTopoOrder(G, r)
      /\ \A u \in 0 .. L : vis[u] = "PERMANENT" <=> u \in Range(r)
      /\ \A u \in 0 .. L : vis[u] = "TEMPORARY" => IsOpen(u, G, In, vis, s)
      /\ \A u \in 0 .. L : u < a => vis[u] = "PERMANENT" \/ u \in Range(s)
  BY DEF TopoIs
<1>2. n \in Nat \ {0} /\ v = s[n] /\ v \in 0 .. L
  BY <1>1, FrontAndLast
<1>3. /\ \A u \in 0 .. L : G[u] \subseteq 0 .. L
      /\ \A u, x, w \in 0 .. L : <<u, x>> \in In /\ <<x, w>> \in In => <<u, w>> \in In
      /\ \A u \in 0 .. L : \A w \in G[u] : <<w, u>> \in In
  BY DEF GraphIs
<1>4. vis[v] = "UNMARKED" /\ Range(t) = G[v] /\ k \in Nat /\ DOMAIN t = 1 .. k
  BY LenProperties
<1> HIDE DEF n, v, k
<1>5. q \in Seq(0 .. L) /\ Len(q) = n + k /\ \A pos \in 1 .. n + k : q[pos] = IF pos <= n THEN s[pos] ELSE t[pos - n]
  <2> HIDE DEF q
  <2>1. q = s \o t
    BY DEF q
  <2>2. q \in Seq(0 .. L) /\ Len(q) = n + k /\ \A pos \in 1 .. Len(q) : q[pos] = IF pos <= n THEN s[pos] ELSE t[pos - n]
    BY <1>1, <2>1, ConcatProperties DEF n, k
  <2>3. QED
    BY <2>2
<1>6. Range(q) = Range(s) \cup Range(t)
  BY <1>1, InjectiveConcat
<1> HIDE DEF q
<1>7. /\ vis2 \in [0 .. L -> {"UNMARKED", "TEMPORARY", "PERMANENT"}]
      /\ \A u \in 0 .. L : vis2[u] = IF u = v THEN "TEMPORARY" ELSE vis[u]
  BY <1>1, <1>2
<1> HIDE DEF vis2
<1>8. \A x \in 1 .. n : x \in 1 .. n + k /\ q[x] = s[x]
  BY <1>2, <1>4, <1>5
<1>9. \A x \in 1 .. n + k : x > n => q[x] \in G[v]
  <2> SUFFICES ASSUME NEW x \in 1 .. n + k, x > n PROVE q[x] \in G[v]
    OBVIOUS
  <2>1. x - n \in 1 .. k /\ q[x] = t[x - n]
    BY <1>2, <1>4, <1>5
  <2>2. QED
    BY <1>4, <2>1 DEF Range
<1>10. \A w \in G[v] : \E x \in 1 .. n + k : x > n /\ q[x] = w
  <2> SUFFICES ASSUME NEW w \in G[v] PROVE \E x \in 1 .. n + k : x > n /\ q[x] = w
    OBVIOUS
  <2>1. PICK y \in 1 .. k : t[y] = w
    BY <1>4 DEF Range
  <2>2. n + y \in 1 .. n + k /\ n + y > n /\ (n + y) - n = y /\ ~(n + y <= n)
    BY <1>2, <1>4
  <2>3. q[n + y] = w
    BY <1>5, <2>1, <2>2
  <2>4. QED
    BY <2>2, <2>3
<1>11. IsOpen(v, G, In, vis2, q)
  <2>1. n \in 1 .. n + k /\ q[n] = v
    BY <1>2, <1>8
  <2>2. \A x \in 1 .. n + k : x > n => <<q[x], v>> \in In
    BY <1>2, <1>3, <1>9
  <2>3. QED
    BY <1>5, <1>10, <2>1, <2>2 DEF IsOpen
<1>12. ASSUME NEW u \in 0 .. L, vis[u] = "TEMPORARY" PROVE IsOpen(u, G, In, vis2, q)
  <2>1. u # v
    BY <1>4, <1>12
  <2>2. PICK h \in 1 .. n :
            /\ s[h] = u
            /\ \A x \in 1 .. n : x > h => <<s[x], u>> \in In
            /\ \A w \in G[u] : vis[w] = "PERMANENT" \/ \E x \in 1 .. n : x > h /\ s[x] = w
    BY <1>1, <1>12 DEF IsOpen, n
  <2>3. h < n
    BY <1>2, <2>1, <2>2
  <2>4. <<v, u>> \in In
    <3>1. n \in 1 .. n
      BY <1>2
    <3>2. QED
      BY <1>2, <2>2, <2>3, <3>1
  <2>5. ASSUME NEW x \in 1 .. n + k, x > h PROVE <<q[x], u>> \in In
    <3>1. CASE x <= n
      <4>1. x \in 1 .. n
        BY <1>2, <1>4, <3>1
      <4>2. QED
        BY <1>8, <2>2, <2>5, <4>1
    <3>2. CASE x > n
      <4>1. q[x] \in G[v]
        BY <1>9, <3>2
      <4>2. QED
        BY <1>2, <1>3, <2>4, <4>1
    <3>3. QED
      BY <1>2, <1>4, <3>1, <3>2
  <2>6. ASSUME NEW w \in G[u] PROVE vis2[w] = "PERMANENT" \/ \E x \in 1 .. n + k : x > h /\ q[x] = w
    <3>1. w \in 0 .. L
      BY <1>3
    <3>2. CASE vis[w] = "PERMANENT"
      BY <1>4, <1>7, <3>1, <3>2
    <3>3. CASE vis[w] # "PERMANENT"
      BY <1>8, <2>2, <3>3
    <3>4. QED
      BY <3>2, <3>3
  <2>7. h \in 1 .. n + k /\ q[h] = u
    BY <1>8, <2>2
  <2>8. QED
    BY <1>5, <2>5, <2>6, <2>7 DEF IsOpen
<1>13. \A u \in 0 .. L : vis2[u] = "TEMPORARY" => IsOpen(u, G, In, vis2, q)
  BY <1>7, <1>11, <1>12
<1>14. \A u \in 0 .. L : vis2[u] = "PERMANENT" <=> u \in Range(r)
  BY <1>1, <1>4, <1>7
<1>15. \A u \in 0 .. L : u < a => vis2[u] = "PERMANENT" \/ u \in Range(q)
  <2>1. v \in Range(s)
    <3>1. DOMAIN s = 1 .. n /\ n \in 1 .. n
      BY <1>1, <1>2, LenProperties DEF n
    <3>2. QED
      BY <1>2, <3>1 DEF Range
  <2>2. QED
    BY <1>1, <1>6, <1>7, <2>1
<1>16. TopoIs(L, G, In, vis2, q, r, a)
  BY <1>1, <1>5, <1>7, <1>13, <1>14, <1>15 DEF TopoIs
<1>17. QED
  BY <1>16 DEF vis2, q, v

(* The order at the end. *)
IsOrderOf(L, G, r) ==
    r \in Seq(0 .. L) /\ IsInjective(r) /\ IsTopoOrder(G, r) /\ Range(r) = 0 .. L

LEMMA TopoEnds ==
    ASSUME NEW L, NEW G, NEW In, NEW vis, NEW r, NEW a, GraphIs(G, L, In),
           TopoIs(L, G, In, vis, <<>>, r, a), a \notin 0 .. L
    PROVE  IsOrderOf(L, G, r)
<1>1. L \in Nat
  BY DEF GraphIs
<1>2. a \in 0 .. L + 1
  BY DEF TopoIs
<1>3. \A v \in 0 .. L : v < a
  BY <1>1, <1>2
<1>4. Range(<<>>) = {}
  BY DEF Range
<1>5. \A v \in 0 .. L : v \in Range(r)
  BY <1>3, <1>4 DEF TopoIs
<1>6. r \in Seq(0 .. L) /\ IsInjective(r) /\ IsTopoOrder(G, r)
  BY DEF TopoIs
<1>7. Range(r) \subseteq 0 .. L
  <2>1. \A pos \in DOMAIN r : r[pos] \in 0 .. L
    BY <1>6, ElementOfSeq, LenProperties
  <2>2. QED
    BY <2>1 DEF Range
<1>8. QED
  BY <1>5, <1>6, <1>7 DEF IsOrderOf

LEMMA AscendingIs ==
    ASSUME NEW L \in Nat, NEW S, S \subseteq 0 .. L
    PROVE  Ascending(S) \in Seq(0 .. L) /\ Range(Ascending(S)) = S
<1> DEFINE M == Max(S \cup {0})
           s == [k \in 1 .. M + 1 |-> k - 1]
<1>1. M \in 0 .. L /\ \A x \in S : x <= M
  <2> DEFINE T == S \cup {0}
  <2>1. IsFiniteSet(0 .. L) /\ T \subseteq 0 .. L
    BY FS_Interval
  <2>2. IsFiniteSet(T)
    BY <2>1, FS_Subset
  <2>3. T \subseteq Int /\ T # {} /\ S \subseteq T
    BY <2>1
  <2> HIDE DEF T
  <2>4. Max(T) \in T /\ \A y \in T : y <= Max(T)
    BY <2>2, <2>3, FiniteExtrema
  <2>5. QED
    BY <2>1, <2>3, <2>4 DEF T
<1> HIDE DEF M
<1>2. s \in Seq(0 .. L)
  <2>1. \A k \in 1 .. M + 1 : k - 1 \in 0 .. L
    BY <1>1
  <2>2. M + 1 \in Nat
    BY <1>1
  <2>3. QED
    BY <2>1, <2>2
<1>3. S \subseteq Range(s)
  <2> SUFFICES ASSUME NEW x \in S PROVE x \in Range(s)
    OBVIOUS
  <2>1. x + 1 \in 1 .. M + 1 /\ (x + 1) - 1 = x
    BY <1>1
  <2>2. s[x + 1] = x /\ DOMAIN s = 1 .. M + 1
    BY <2>1
  <2>3. QED
    BY <2>1, <2>2 DEF Range
<1> HIDE DEF s
<1>4. Among(s, S) \in Seq(0 .. L) /\ Range(Among(s, S)) = S
  <2> DEFINE V == 0 .. L
  <2>1. s \in Seq(V)
    BY <1>2
  <2> HIDE DEF V
  <2>2. Among(s, S) \in Seq(V) /\ Range(Among(s, S)) = Range(s) \cap S
    BY <2>1, AmongIs
  <2>3. QED
    BY <1>3, <2>2 DEF V
<1>5. QED
  BY <1>4 DEF Ascending, s, M

(* The steps of the topological sort. *)
LEMMA StartFromKeeps ==
    ASSUME NEW L, NEW In, GraphIs(gT, L, In), TopoIs(L, gT, In, visited, st, res, at), StartFrom
    PROVE  TopoIs(L, gT, In, visited', st', res', at')
<1>1. st = <<>> /\ at \in 0 .. L /\ st' = <<at>> /\ at' = at + 1 /\ visited' = visited /\ res' = res
  BY DEF StartFrom, Vertex, GraphIs
<1>2. TopoIs(L, gT, In, visited, <<>>, res, at)
  BY <1>1
<1>3. QED
  BY <1>1, <1>2, TopoPushes

LEMMA VisitTopKeeps ==
    ASSUME NEW L, NEW In, GraphIs(gT, L, In), TopoIs(L, gT, In, visited, st, res, at), VisitTop
    PROVE  TopoIs(L, gT, In, visited', st', res', at')
<1> DEFINE v == Last(st)
<1>1. st # <<>> /\ at' = at
  BY DEF VisitTop
<1>2. st \in Seq(0 .. L)
  BY DEF TopoIs
<1>3. v \in 0 .. L
  BY <1>1, <1>2, FrontAndLast
<1>4. visited[v] \in {"UNMARKED", "TEMPORARY", "PERMANENT"}
  BY <1>3 DEF TopoIs
<1>5. CASE visited[v] = "PERMANENT"
  <2>1. st' = Front(st) /\ visited' = visited /\ res' = res
    BY <1>5 DEF VisitTop
  <2>2. QED
    BY <1>1, <1>5, <2>1, TopoPopsSorted
<1>6. CASE visited[v] = "TEMPORARY"
  <2>1. st' = Front(st) /\ visited' = [visited EXCEPT ![v] = "PERMANENT"] /\ res' = <<v>> \o res
    BY <1>6 DEF VisitTop
  <2>2. QED
    BY <1>1, <1>6, <2>1, TopoCloses
<1>7. CASE visited[v] = "UNMARKED"
  <2>1. st' = st \o Ascending(gT[v]) /\ visited' = [visited EXCEPT ![v] = "TEMPORARY"] /\ res' = res
    BY <1>7 DEF VisitTop
  <2>2. L \in Nat /\ gT[v] \subseteq 0 .. L
    BY <1>3 DEF GraphIs
  <2>3. Ascending(gT[v]) \in Seq(0 .. L) /\ Range(Ascending(gT[v])) = gT[v]
    BY <2>2, AscendingIs
  <2>4. TopoIs(L, gT, In, [visited EXCEPT ![Last(st)] = "TEMPORARY"], st \o Ascending(gT[v]), res, at)
    BY <1>1, <1>7, <2>3, TopoOpens
  <2>5. QED
    BY <1>1, <2>1, <2>4
<1>8. QED
  BY <1>4, <1>5, <1>6, <1>7

LEMMA EndTopoOrders ==
    ASSUME NEW L, NEW In, GraphIs(gT, L, In), TopoIs(L, gT, In, visited, st, res, at), EndTopo
    PROVE  IsOrderOf(L, gT, res)
<1>1. st = <<>> /\ at \notin 0 .. L
  BY DEF EndTopo, Vertex, GraphIs
<1>2. TopoIs(L, gT, In, visited, <<>>, res, at)
  BY <1>1
<1>3. QED
  BY <1>1, <1>2, TopoEnds

-----------------------------------------------------------------------------
(* The depths when the vertices before rank a of the order are considered. *)
DeepIs(L, G, r, gd, a) ==
    /\ a \in 1 .. Len(r) + 1
    /\ gd \in [0 .. L -> Int] /\ gd[0] = 0
    /\ \A b \in 1 .. Len(r) : b < a => \A w \in G[r[b]] : gd[r[b]] + 1 <= gd[w]
    /\ \A v \in 0 .. L : v = 0 \/ gd[v] = -1 \/ \E b \in 1 .. Len(r) : b < a /\ v \in G[r[b]] /\ gd[v] = gd[r[b]] + 1

(* The depths are the lengths of the longest chains of inclusions. *)
LongestIs(L, In, gd) ==
    /\ gd \in [0 .. L -> Nat]
    /\ \A v, u \in 0 .. L : <<v, u>> \in In => gd[u] + 1 <= gd[v]
    /\ \A v \in 0 .. L : gd[v] = 0 \/ \E u \in 0 .. L : <<v, u>> \in In /\ gd[v] = gd[u] + 1

LEMMA DeepAtFirst ==
    ASSUME NEW L, NEW G, NEW In, NEW r, GraphIs(G, L, In), IsOrderOf(L, G, r)
    PROVE  DeepIs(L, G, r, [v \in 0 .. L |-> IF v = 0 THEN 0 ELSE -1], 1)
<1> DEFINE n == Len(r)
           gd == [v \in 0 .. L |-> IF v = 0 THEN 0 ELSE -1]
<1>1. L \in Nat /\ n \in Nat
  BY LenProperties DEF GraphIs, IsOrderOf
<1> HIDE DEF n
<1>2. 1 \in 1 .. n + 1 /\ \A b \in 1 .. n : ~(b < 1)
  BY <1>1
<1>3. gd \in [0 .. L -> Int] /\ gd[0] = 0 /\ \A v \in 0 .. L : v = 0 \/ gd[v] = -1
  BY <1>1
<1> HIDE DEF gd
<1>4. DeepIs(L, G, r, gd, 1)
  BY <1>2, <1>3 DEF DeepIs, n
<1>5. QED
  BY <1>4 DEF gd

(* What is included in a vertex of the order comes after it. *)
LEMMA RootIsLast ==
    ASSUME NEW L, NEW G, NEW In, GraphIs(G, L, In), NEW u \in 0 .. L
    PROVE  0 \notin G[u] /\ u \notin G[u] /\ 0 \in 0 .. L /\ G[u] \subseteq 0 .. L
<1>1. L \in Nat /\ 0 \in 0 .. L
  BY DEF GraphIs
<1>2. G[u] \subseteq 0 .. L
  BY DEF GraphIs
<1>3. \A w \in G[u] : <<w, u>> \in In
  BY DEF GraphIs
<1>4. <<u, u>> \notin In /\ <<0, 0>> \notin In
  BY <1>1 DEF GraphIs
<1>5. ASSUME 0 \in G[u] PROVE FALSE
  <2>1. <<0, u>> \in In
    BY <1>3, <1>5
  <2>2. u # 0
    BY <1>4, <2>1
  <2>3. <<u, 0>> \in In
    BY <2>2 DEF GraphIs
  <2>4. \A x, y, w \in 0 .. L : <<x, y>> \in In /\ <<y, w>> \in In => <<x, w>> \in In
    BY DEF GraphIs
  <2>5. QED
    BY <1>1, <1>4, <2>1, <2>3, <2>4
<1>6. QED
  BY <1>1, <1>2, <1>3, <1>4, <1>5

(* The depths when what is included in u is deeper than it. *)
Deepened(L, G, gd, u) == [e \in 0 .. L |-> IF e \in G[u] THEN Max({gd[e], gd[u] + 1}) ELSE gd[e]]

LEMMA Deepens ==
    ASSUME NEW L, NEW G, NEW In, NEW r, NEW gd, NEW a, GraphIs(G, L, In), IsOrderOf(L, G, r),
           DeepIs(L, G, r, gd, a), a <= Len(r)
    PROVE  DeepIs(L, G, r, Deepened(L, G, gd, r[a]), a + 1)
<1> DEFINE n == Len(r)
           u == r[a]
           gd2 == [e \in 0 .. L |-> IF e \in G[u] THEN Max({gd[e], gd[u] + 1}) ELSE gd[e]]
<1>1. r \in Seq(0 .. L) /\ n \in Nat /\ DOMAIN r = 1 .. n
  BY LenProperties DEF IsOrderOf
<1>2. \A b \in 1 .. n : r[b] \in 0 .. L
  BY <1>1, ElementOfSeq
<1>3. \A b, d \in 1 .. n : r[b] = r[d] => b = d
  BY <1>1 DEF IsOrderOf, IsInjective
<1>4. \A b \in 1 .. n : \A w \in G[r[b]] : \E d \in 1 .. n : b < d /\ r[d] = w
  BY DEF IsOrderOf, IsTopoOrder
<1>5. /\ a \in 1 .. n + 1
      /\ gd \in [0 .. L -> Int] /\ gd[0] = 0
      /\ \A b \in 1 .. n : b < a => \A w \in G[r[b]] : gd[r[b]] + 1 <= gd[w]
      /\ \A v \in 0 .. L : v = 0 \/ gd[v] = -1 \/ \E b \in 1 .. n : b < a /\ v \in G[r[b]] /\ gd[v] = gd[r[b]] + 1
  BY DEF DeepIs
<1>6. a \in 1 .. n /\ a <= n
  BY <1>1, <1>5
<1> HIDE DEF n
<1>7. u \in 0 .. L
  BY <1>2, <1>6
<1> HIDE DEF u
<1>8. 0 \notin G[u] /\ u \notin G[u] /\ 0 \in 0 .. L /\ G[u] \subseteq 0 .. L
  BY <1>7, RootIsLast
<1>9. \A x, y \in Int : Max({x, y}) \in {x, y} /\ x <= Max({x, y}) /\ y <= Max({x, y})
  <2> SUFFICES ASSUME NEW x \in Int, NEW y \in Int
               PROVE Max({x, y}) \in {x, y} /\ x <= Max({x, y}) /\ y <= Max({x, y})
    OBVIOUS
  <2> DEFINE T == {x, y}
  <2>1. IsFiniteSet(T)
    <3>1. IsFiniteSet({x}) /\ IsFiniteSet({y})
      BY FS_Singleton
    <3>2. T = {x} \cup {y}
      OBVIOUS
    <3>3. QED
      BY <3>1, <3>2, FS_Union
  <2>2. T \subseteq Int /\ T # {} /\ x \in T /\ y \in T
    OBVIOUS
  <2> HIDE DEF T
  <2>3. Max(T) \in T /\ \A z \in T : z <= Max(T)
    BY <2>1, <2>2, FiniteExtrema
  <2>4. QED
    BY <2>2, <2>3 DEF T
<1>10. \A e \in 0 .. L : gd[e] \in Int
  BY <1>5
<1>11. \A e \in 0 .. L : gd2[e] = IF e \in G[u] THEN Max({gd[e], gd[u] + 1}) ELSE gd[e]
  OBVIOUS
<1>12. /\ \A e \in 0 .. L : gd2[e] \in Int /\ gd[e] <= gd2[e]
       /\ \A e \in 0 .. L : e \in G[u] => gd[u] + 1 <= gd2[e] /\ gd2[e] \in {gd[e], gd[u] + 1}
       /\ \A e \in 0 .. L : e \notin G[u] => gd2[e] = gd[e]
  <2>1. gd[u] + 1 \in Int
    BY <1>7, <1>10
  <2>2. ASSUME NEW e \in 0 .. L, e \in G[u]
        PROVE  gd2[e] \in Int /\ gd[e] <= gd2[e] /\ gd[u] + 1 <= gd2[e] /\ gd2[e] \in {gd[e], gd[u] + 1}
    <3>1. gd2[e] = Max({gd[e], gd[u] + 1})
      BY <1>11, <2>2
    <3> HIDE DEF gd2
    <3>2. gd[e] \in Int
      BY <1>10
    <3>3. Max({gd[e], gd[u] + 1}) \in {gd[e], gd[u] + 1} /\ gd[e] <= Max({gd[e], gd[u] + 1})
          /\ gd[u] + 1 <= Max({gd[e], gd[u] + 1})
      BY <1>9, <2>1, <3>2
    <3>4. QED
      BY <2>1, <3>1, <3>2, <3>3
  <2>3. ASSUME NEW e \in 0 .. L, e \notin G[u] PROVE gd2[e] = gd[e] /\ gd2[e] \in Int /\ gd[e] <= gd2[e]
    BY <1>10, <1>11, <2>3
  <2>4. QED
    BY <2>2, <2>3
<1>13. gd2 \in [0 .. L -> Int]
  BY <1>12
<1> HIDE DEF gd2
<1>14. \A b \in 1 .. n : b < a + 1 => gd2[r[b]] = gd[r[b]]
  <2> SUFFICES ASSUME NEW b \in 1 .. n, b < a + 1, r[b] \in G[u] PROVE FALSE
    BY <1>2, <1>12
  <2>1. PICK d \in 1 .. n : a < d /\ r[d] = r[b]
    BY <1>4, <1>6 DEF u
  <2>2. d = b
    BY <1>3, <2>1
  <2>3. QED
    BY <1>6, <2>1, <2>2
<1>15. \A b \in 1 .. n : b < a + 1 => b < a \/ b = a
  BY <1>6
<1>16. ASSUME NEW b \in 1 .. n, b < a + 1, NEW w \in G[r[b]] PROVE gd2[r[b]] + 1 <= gd2[w]
  <2>1. w \in 0 .. L /\ r[b] \in 0 .. L
    BY <1>2, RootIsLast
  <2>2. gd2[r[b]] = gd[r[b]] /\ gd[r[b]] \in Int /\ gd[w] \in Int /\ gd2[w] \in Int /\ gd[w] <= gd2[w]
    BY <1>10, <1>12, <1>14, <1>16, <2>1
  <2>3. CASE b = a
    BY <1>12, <2>1, <2>2, <2>3 DEF u
  <2>4. CASE b < a
    <3>1. gd[r[b]] + 1 <= gd[w]
      BY <1>5, <2>4
    <3>2. QED
      BY <2>2, <3>1
  <2>5. QED
    BY <1>15, <1>16, <2>3, <2>4
<1>17. ASSUME NEW v \in 0 .. L, v # 0, gd2[v] # -1
       PROVE  \E b \in 1 .. n : b < a + 1 /\ v \in G[r[b]] /\ gd2[v] = gd2[r[b]] + 1
  <2>1. CASE gd2[v] = gd[v]
    <3>1. PICK b \in 1 .. n : b < a /\ v \in G[r[b]] /\ gd[v] = gd[r[b]] + 1
      BY <1>5, <1>17, <2>1
    <3>2. b < a + 1
      BY <1>6, <3>1
    <3>3. QED
      BY <1>14, <2>1, <3>1, <3>2
  <2>2. CASE gd2[v] # gd[v]
    <3>1. v \in G[u] /\ gd2[v] = gd[u] + 1
      BY <1>12, <2>2
    <3>2. a < a + 1
      BY <1>6
    <3>3. gd2[r[a]] = gd[u] /\ v \in G[r[a]]
      BY <1>6, <1>14, <3>1, <3>2 DEF u
    <3>4. QED
      BY <1>6, <3>1, <3>2, <3>3
  <2>3. QED
    BY <2>1, <2>2
<1>18. gd2[0] = 0 /\ a + 1 \in 1 .. n + 1
  BY <1>1, <1>5, <1>6, <1>8, <1>12
<1>19. DeepIs(L, G, r, gd2, a + 1)
  BY <1>13, <1>16, <1>17, <1>18 DEF DeepIs, n
<1>20. QED
  BY <1>19 DEF gd2, u, Deepened

LEMMA DeepIsLongest ==
    ASSUME NEW L, NEW G, NEW In, NEW r, NEW gd, NEW a, GraphIs(G, L, In), IsOrderOf(L, G, r),
           DeepIs(L, G, r, gd, a), a > Len(r)
    PROVE  LongestIs(L, In, gd)
<1> DEFINE n == Len(r)
<1>1. r \in Seq(0 .. L) /\ n \in Nat /\ DOMAIN r = 1 .. n
  BY LenProperties DEF IsOrderOf
<1>2. \A b \in 1 .. n : r[b] \in 0 .. L
  BY <1>1, ElementOfSeq
<1>3. \A b, d \in 1 .. n : r[b] = r[d] => b = d
  BY <1>1 DEF IsOrderOf, IsInjective
<1>4. \A b \in 1 .. n : \A w \in G[r[b]] : \E d \in 1 .. n : b < d /\ r[d] = w
  BY DEF IsOrderOf, IsTopoOrder
<1>5. \A v \in 0 .. L : \E b \in 1 .. n : r[b] = v
  BY <1>1 DEF IsOrderOf, Range
<1>6. /\ a \in 1 .. n + 1 /\ a > n
      /\ gd \in [0 .. L -> Int] /\ gd[0] = 0
      /\ \A b \in 1 .. n : b < a => \A w \in G[r[b]] : gd[r[b]] + 1 <= gd[w]
      /\ \A v \in 0 .. L : v = 0 \/ gd[v] = -1 \/ \E b \in 1 .. n : b < a /\ v \in G[r[b]] /\ gd[v] = gd[r[b]] + 1
  BY DEF DeepIs
<1>7. /\ 0 \in 0 .. L
      /\ \A v \in 0 .. L : G[v] \subseteq 0 .. L
      /\ \A v \in 0 .. L : v # 0 => <<v, 0>> \in In
      /\ \A v \in 0 .. L : \A w \in G[v] : <<w, v>> \in In
      /\ \A u, w \in 0 .. L : <<w, u>> \in In => \E x \in 0 .. L : w \in G[x] /\ (x = u \/ <<x, u>> \in In)
  BY DEF GraphIs
<1> HIDE DEF n
<1>8. \A b \in 1 .. n : b < a
  BY <1>1, <1>6
<1>9. \A v \in 0 .. L : \A w \in G[v] : gd[v] + 1 <= gd[w]
  <2> SUFFICES ASSUME NEW v \in 0 .. L, NEW w \in G[v] PROVE gd[v] + 1 <= gd[w]
    OBVIOUS
  <2>1. PICK b \in 1 .. n : r[b] = v
    BY <1>5
  <2>2. QED
    BY <1>6, <1>8, <2>1
<1>10. \A v \in 0 .. L : gd[v] \in Int
  BY <1>6
<1>11. ASSUME NEW w \in 0 .. L, NEW u \in 0 .. L, <<w, u>> \in In PROVE gd[u] + 1 <= gd[w]
  <2> DEFINE S == {b \in 1 .. n : \E y \in 0 .. L : <<r[b], y>> \in In /\ ~(gd[y] + 1 <= gd[r[b]])}
  <2>1. S = {}
    <3> SUFFICES ASSUME S # {} PROVE FALSE
      OBVIOUS
    <3>1. IsFiniteSet(1 .. n) /\ S \subseteq 1 .. n
      BY <1>1, FS_Interval
    <3>2. IsFiniteSet(S) /\ S \subseteq Int
      <4>1. 1 .. n \subseteq Int
        BY <1>1
      <4> HIDE DEF S
      <4>2. QED
        BY <3>1, <4>1, FS_Subset
    <3>3. PICK b \in S : \A d \in S : b <= d
      <4> HIDE DEF S
      <4>1. QED
        BY <3>2, LeastOfSome
    <3>4. PICK y \in 0 .. L : <<r[b], y>> \in In /\ ~(gd[y] + 1 <= gd[r[b]])
      BY <3>3
    <3>5. b \in 1 .. n /\ r[b] \in 0 .. L
      BY <1>2
    <3>6. PICK x \in 0 .. L : r[b] \in G[x] /\ (x = y \/ <<x, y>> \in In)
      BY <1>7, <3>4, <3>5
    <3>7. gd[x] + 1 <= gd[r[b]]
      BY <1>9, <3>6
    <3>8. x # y
      BY <3>4, <3>7
    <3>9. PICK pos \in 1 .. n : r[pos] = x
      BY <1>5
    <3>10. pos < b
      <4>1. PICK d \in 1 .. n : pos < d /\ r[d] = r[b]
        BY <1>4, <3>6, <3>9
      <4>2. d = b
        BY <1>3, <3>5, <4>1
      <4>3. QED
        BY <4>1, <4>2
    <3>11. pos \notin S
      <4>1. ~(b <= pos)
        BY <3>5, <3>10
      <4>2. QED
        BY <3>3, <4>1
    <3>12. gd[y] + 1 <= gd[x]
      BY <3>6, <3>8, <3>9, <3>11
    <3>13. gd[y] \in Int /\ gd[x] \in Int /\ gd[r[b]] \in Int
      BY <1>10, <3>5
    <3>14. QED
      BY <3>4, <3>7, <3>12, <3>13
  <2>2. PICK b \in 1 .. n : r[b] = w
    BY <1>5
  <2>3. QED
    BY <1>11, <2>1, <2>2
<1>12. ASSUME NEW v \in 0 .. L, v # 0 PROVE gd[v] \in Nat /\ \E u \in 0 .. L : <<v, u>> \in In /\ gd[v] = gd[u] + 1
  <2>1. gd[0] + 1 <= gd[v] /\ gd[v] \in Int
    BY <1>7, <1>10, <1>11, <1>12
  <2>2. gd[v] >= 1
    BY <1>6, <2>1
  <2>3. gd[v] # -1
    BY <2>2
  <2>4. PICK b \in 1 .. n : v \in G[r[b]] /\ gd[v] = gd[r[b]] + 1
    BY <1>6, <1>12, <2>3
  <2>5. r[b] \in 0 .. L /\ <<v, r[b]>> \in In
    BY <1>2, <1>7, <2>4
  <2>6. QED
    BY <2>1, <2>2, <2>4, <2>5
<1>13. \A v \in 0 .. L : gd[v] \in Nat
  BY <1>6, <1>12
<1>14. gd \in [0 .. L -> Nat]
  BY <1>6, <1>13
<1>15. QED
  BY <1>6, <1>11, <1>12, <1>14 DEF LongestIs

LEMMA GreatestIs ==
    ASSUME NEW S, NEW m \in Nat, m \in S, \A y \in S : y \in Nat /\ y <= m
    PROVE  Max(S) = m
<1>1. S \subseteq 0 .. m /\ IsFiniteSet(0 .. m)
  BY FS_Interval
<1>2. IsFiniteSet(S) /\ S \subseteq Int /\ S # {}
  <2>1. IsFiniteSet(S)
    BY <1>1, FS_Subset
  <2>2. QED
    BY <2>1
<1>3. Max(S) \in S /\ \A y \in S : y <= Max(S)
  BY <1>2, FiniteExtrema
<1>4. Max(S) <= m /\ m <= Max(S) /\ Max(S) \in Nat
  BY <1>3
<1>5. QED
  BY <1>4

LEMMA ChannelsAre == IsFiniteSet(Channel) /\ 1 \in Channel
<1>1. 1 \in Int /\ 3 \in Int /\ 1 \in 1 .. 3
  OBVIOUS
<1>2. IsFiniteSet(1 .. 3)
  BY <1>1, FS_Interval
<1>3. QED
  BY <1>1, <1>2 DEF Channel, ntrees

(* The depth of the deepest shape that holds a face is the length of the    *)
(* longest chain of shapes around it.                                       *)
DeepestAt(gd, q) == Max({gd[tree_to_graph[j][trees[j].node_map[q]]] : j \in Channel})

LEMMA ChainsAre ==
    ASSUME ForestOK, NEW L, VerticesOf(tree_to_graph, L), NEW gd, LongestIs(L, Inclusion(L), gd), NEW q \in Faces
    PROVE  q \in UNION ChannelShapes /\ LongestChains(ChannelShapes)[q] = DeepestAt(gd, q)
<1> DEFINE shapes == ChannelShapes
           chain == CHOOSE u : u = [S \in shapes |->
                                       Max({0} \cup {u[T] + 1 : T \in {U \in shapes : S \subseteq U /\ U # S}})]
<1>a. LongestChains(shapes) = [x \in UNION shapes |-> Max({chain[S] : S \in {T \in shapes : x \in T}})]
  BY DEF LongestChains
<1>b. shapes = UNION {{RegionOf(trees[j], n) : n \in NodesOf(trees[j])} : j \in Channel}
  BY DEF ChannelShapes
<1>c. chain = CHOOSE u : u = [S \in shapes |->
                                 Max({0} \cup {u[T] + 1 : T \in {U \in shapes : S \subseteq U /\ U # S}})]
  OBVIOUS
<1> HIDE DEF shapes, chain
<1> DEFINE V == 0 .. L
           Larger(S) == {U \in shapes : S \subseteq U /\ U # S}
           best(u, S) == Max({0} \cup {u[T] + 1 : T \in Larger(S)})
           Is(u) == u = [S \in shapes |-> best(u, S)]
<1>1. /\ \A j \in Channel : \A n \in NodeOf(j) : tree_to_graph[j][n] \in V /\ Shape(tree_to_graph[j][n]) = Reg(j, n)
      /\ \A v \in V : \E j \in Channel : \E n \in NodeOf(j) : tree_to_graph[j][n] = v /\ Shape(v) = Reg(j, n)
      /\ \A v, w \in V : Shape(v) = Shape(w) => v = w
  BY ShapesAre
<1>2. /\ \A v \in V : gd[v] \in Nat
      /\ \A v, u \in V : Inside(v, u) => gd[u] + 1 <= gd[v]
      /\ \A v \in V : gd[v] = 0 \/ \E u \in V : Inside(v, u) /\ gd[v] = gd[u] + 1
  BY InclusionIs DEF LongestIs
<1>3. \A R : R \in shapes <=> \E j \in Channel : \E n \in NodeOf(j) : R = Reg(j, n)
  <2> DEFINE of(j) == {RegionOf(trees[j], n) : n \in NodesOf(trees[j])}
  <2>1. \A R, j : R \in of(j) <=> \E n \in NodeOf(j) : R = Reg(j, n)
    BY DEF NodeOf, Reg
  <2>2. \A R : R \in shapes <=> \E j \in Channel : R \in of(j)
    BY <1>b, Zenon
  <2> HIDE DEF of
  <2>3. QED
    BY <2>1, <2>2
<1>4. /\ \A v \in V : Shape(v) \in shapes
      /\ \A R \in shapes : \E v \in V : Shape(v) = R
  <2> HIDE DEF V
  <2>1. ASSUME NEW v \in V PROVE Shape(v) \in shapes
    <3>1. PICK j \in Channel : \E n \in NodeOf(j) : Shape(v) = Reg(j, n)
      BY <1>1
    <3>2. QED
      BY <1>3, <3>1
  <2>2. ASSUME NEW R \in shapes PROVE \E v \in V : Shape(v) = R
    <3>1. PICK j \in Channel : \E n \in NodeOf(j) : R = Reg(j, n)
      BY <1>3
    <3>2. PICK n \in NodeOf(j) : R = Reg(j, n)
      BY <3>1
    <3>3. QED
      BY <1>1, <3>2
  <2>3. QED
    BY <2>1, <2>2
<1> HIDE DEF V
<1> DEFINE vertex(R) == CHOOSE v \in V : Shape(v) = R
           w == [R \in shapes |-> gd[vertex(R)]]
<1>5. \A R \in shapes : vertex(R) \in V /\ Shape(vertex(R)) = R
  BY <1>4
<1>6. \A v \in V : vertex(Shape(v)) = v
  BY <1>1, <1>4, <1>5
<1> HIDE DEF vertex
<1>7. \A R \in shapes : w[R] \in Nat /\ w[R] = gd[vertex(R)]
  BY <1>2, <1>5
<1> HIDE DEF w
<1>8. \A R, U \in shapes : R \subseteq U /\ U # R => w[U] + 1 <= w[R]
  BY <1>2, <1>5, <1>7 DEF Inside
<1>9. \A R \in shapes : w[R] = 0 \/ \E U \in Larger(R) : w[R] = w[U] + 1
  <2> SUFFICES ASSUME NEW R \in shapes, w[R] # 0 PROVE \E U \in Larger(R) : w[R] = w[U] + 1
    OBVIOUS
  <2>1. PICK u \in V : Inside(vertex(R), u) /\ gd[vertex(R)] = gd[u] + 1
    BY <1>2, <1>5, <1>7
  <2>2. Shape(u) \in shapes /\ w[Shape(u)] = gd[u]
    BY <1>4, <1>6, <1>7
  <2>3. QED
    BY <1>5, <1>7, <2>1, <2>2 DEF Inside
<1>10. \A u : \A R \in shapes : (\A U \in Larger(R) : u[U] = w[U]) => best(u, R) = w[R]
  <2> SUFFICES ASSUME NEW u, NEW R \in shapes, \A U \in Larger(R) : u[U] = w[U] PROVE best(u, R) = w[R]
    OBVIOUS
  <2> DEFINE B == {0} \cup {u[U] + 1 : U \in Larger(R)}
  <2>1. w[R] \in B
    BY <1>9
  <2>2. \A y \in B : y \in Nat /\ y <= w[R]
    <3> SUFFICES ASSUME NEW y \in B PROVE y \in Nat /\ y <= w[R]
      OBVIOUS
    <3>1. CASE y = 0
      BY <1>7, <3>1
    <3>2. CASE y # 0
      <4>1. PICK U \in Larger(R) : y = w[U] + 1
        BY <3>2
      <4>2. U \in shapes /\ w[U] + 1 <= w[R] /\ w[U] \in Nat
        BY <1>7, <1>8
      <4>3. QED
        BY <4>1, <4>2
    <3>3. QED
      BY <3>1, <3>2
  <2> HIDE DEF B
  <2>3. w[R] \in Nat
    BY <1>7
  <2>4. Max(B) = w[R]
    BY <2>1, <2>2, <2>3, GreatestIs
  <2>5. QED
    BY <2>4 DEF B
<1>11. Is(w)
  <2> HIDE DEF best
  <2>1. \A R \in shapes : w[R] = best(w, R)
    BY <1>10
  <2>2. w = [R \in shapes |-> w[R]]
    BY DEF w
  <2>3. QED
    BY <2>1, <2>2
<1>12. Is(chain)
  <2>1. chain = CHOOSE u : Is(u)
    BY <1>c
  <2> HIDE DEF Is
  <2>2. QED
    BY <1>11, <2>1
<1>13. \A R \in shapes : chain[R] = w[R]
  <2> DEFINE N == {w[R] : R \in {U \in shapes : chain[U] # w[U]}}
  <2>1. N = {}
    <3> SUFFICES ASSUME N # {} PROVE FALSE
      OBVIOUS
    <3>1. PICK R \in shapes : chain[R] # w[R] /\ \A U \in shapes : chain[U] # w[U] => w[R] <= w[U]
      <4>1. N \subseteq Nat
        BY <1>7
      <4>2. PICK x \in N : \A y \in N : x <= y
        <5> HIDE DEF N
        <5>1. QED
          BY <4>1, LeastElement
      <4>3. PICK R \in shapes : chain[R] # w[R] /\ x = w[R]
        BY <4>2
      <4>4. \A U \in shapes : chain[U] # w[U] => w[U] \in N
        OBVIOUS
      <4> HIDE DEF N
      <4>5. QED
        BY <4>2, <4>3, <4>4
    <3>2. \A U \in Larger(R) : chain[U] = w[U]
      <4> SUFFICES ASSUME NEW U \in Larger(R), chain[U] # w[U] PROVE FALSE
        OBVIOUS
      <4>1. w[U] + 1 <= w[R] /\ w[R] <= w[U] /\ w[U] \in Nat /\ w[R] \in Nat
        BY <1>7, <1>8, <3>1
      <4>2. QED
        BY <4>1
    <3>3. best(chain, R) = w[R]
      <4> HIDE DEF best, Larger
      <4>1. QED
        BY <1>10, <3>2
    <3>4. chain[R] = best(chain, R)
      <4> HIDE DEF best
      <4>1. QED
        BY <1>12
    <3>5. QED
      BY <3>1, <3>3, <3>4
  <2>2. \A U \in shapes : chain[U] # w[U] => w[U] \in N
    OBVIOUS
  <2> HIDE DEF N
  <2>3. QED
    BY <2>1, <2>2
<1> HIDE DEF best, Larger, Is
<1> DEFINE node(j) == trees[j].node_map[q]
           own(j) == gd[tree_to_graph[j][node(j)]]
           A == {own(j) : j \in Channel}
           C == {chain[S] : S \in {T \in shapes : q \in T}}
<1>14. \A j \in Channel : RegionsOK(trees[j])
  BY DEF ForestOK
<1>15. \A j \in Channel : /\ node(j) \in NodeOf(j) /\ q \in Reg(j, node(j))
                          /\ \A n \in NodeOf(j) : q \in Reg(j, n) => Reg(j, node(j)) \subseteq Reg(j, n)
  <2> SUFFICES ASSUME NEW j \in Channel
               PROVE  /\ node(j) \in NodeOf(j) /\ q \in Reg(j, node(j))
                      /\ \A n \in NodeOf(j) : q \in Reg(j, n) => Reg(j, node(j)) \subseteq Reg(j, n)
    OBVIOUS
  <2>1. trees[j].node_map \in [Faces -> NodeOf(j)]
    BY <1>14 DEF RegionsOK, NodeOf
  <2>2. node(j) \in NodeOf(j)
    BY <2>1
  <2>3. \A n \in NodeOf(j) : q \in Reg(j, n) <=> Reg(j, node(j)) \subseteq Reg(j, n)
    BY <1>14 DEF RegionsOK, NodeOf, Reg
  <2>4. QED
    BY <2>2, <2>3
<1> HIDE DEF node
<1>16. \A j \in Channel : own(j) \in Nat /\ own(j) = w[Reg(j, node(j))] /\ Reg(j, node(j)) \in shapes
  <2> SUFFICES ASSUME NEW j \in Channel
               PROVE own(j) \in Nat /\ own(j) = w[Reg(j, node(j))] /\ Reg(j, node(j)) \in shapes
    OBVIOUS
  <2> DEFINE v == tree_to_graph[j][node(j)]
  <2>1. v \in V /\ Shape(v) = Reg(j, node(j))
    BY <1>1, <1>15
  <2>2. own(j) = gd[v]
    OBVIOUS
  <2> HIDE DEF v, own
  <2>3. Reg(j, node(j)) \in shapes
    BY <1>4, <2>1
  <2>4. w[Reg(j, node(j))] = gd[v]
    BY <1>6, <1>7, <2>1, <2>3
  <2>5. QED
    BY <1>7, <2>2, <2>3, <2>4
<1> HIDE DEF own
<1>17. \A j \in Channel : own(j) \in C
  BY <1>13, <1>15, <1>16
<1>18. \A x \in C : x \in Nat /\ \E j \in Channel : x <= own(j)
  <2> SUFFICES ASSUME NEW x \in C PROVE x \in Nat /\ \E j \in Channel : x <= own(j)
    OBVIOUS
  <2>1. PICK S \in shapes : q \in S /\ x = chain[S]
    OBVIOUS
  <2> HIDE DEF C
  <2>2. PICK j \in Channel : \E n \in NodeOf(j) : S = Reg(j, n)
    BY <1>3
  <2>3. Reg(j, node(j)) \subseteq S
    BY <1>15, <2>1, <2>2
  <2>4. x = w[S] /\ w[S] \in Nat
    BY <1>7, <1>13, <2>1
  <2>5. w[S] <= w[Reg(j, node(j))]
    <3>1. w[Reg(j, node(j))] \in Nat /\ Reg(j, node(j)) \in shapes
      BY <1>7, <1>16
    <3>2. QED
      BY <1>8, <2>3, <2>4, <3>1
  <2>6. QED
    BY <1>16, <2>4, <2>5
<1>19. IsFiniteSet(A) /\ A \subseteq Nat /\ A # {}
  <2>1. IsFiniteSet(Channel) /\ 1 \in Channel
    BY ChannelsAre
  <2>2. IsFiniteSet(A)
    <3> DEFINE f == [j \in Channel |-> own(j)]
    <3>1. f \in Surjection(Channel, A)
      BY DEF Surjection
    <3>2. QED
      BY <2>1, <3>1, FS_Surjection
  <2>3. QED
    BY <1>16, <2>1, <2>2
<1>20. Max(A) \in A /\ \A y \in A : y <= Max(A)
  <2> HIDE DEF A
  <2>1. A \subseteq Int
    BY <1>19
  <2>2. QED
    BY <1>19, <2>1, FiniteExtrema
<1>21. Max(C) = Max(A)
  <2>1. Max(A) \in C /\ Max(A) \in Nat
    BY <1>17, <1>19, <1>20
  <2>2. \A x \in C : x \in Nat /\ x <= Max(A)
    <3> SUFFICES ASSUME NEW x \in C PROVE x \in Nat /\ x <= Max(A)
      OBVIOUS
    <3>1. PICK j \in Channel : x <= own(j) /\ x \in Nat
      BY <1>18
    <3>2. own(j) <= Max(A) /\ own(j) \in Nat
      BY <1>16, <1>20
    <3> HIDE DEF A, C
    <3>3. QED
      BY <2>1, <3>1, <3>2
  <2> HIDE DEF A, C
  <2>3. QED
    BY <2>1, <2>2, GreatestIs
<1>22. q \in UNION shapes
  BY <1>15, <1>16, ChannelsAre
<1>23. LongestChains(shapes)[q] = Max(C)
  BY <1>a, <1>22
<1>24. DeepestAt(gd, q) = Max(A)
  BY DEF DeepestAt, own, node
<1>25. QED
  BY <1>21, <1>22, <1>23, <1>24 DEF shapes

-----------------------------------------------------------------------------
(* The stages: the trees of the channels are computed when they are fused.  *)
Propagating == {"immerse", "pop", "visit", "maxtree"}

Fusing == {"vertices", "edges", "topo", "depths"}

StageOK ==
    /\ stage \in Propagating \cup Fusing \cup {"tos_end", "end"}
    /\ Len(inputs) = ntrees + 1 => c = ntrees + 1
    /\ stage \in Fusing => c = ntrees /\ Len(inputs) = ntrees

TreesOK ==
    stage # "end" =>
        /\ trees \in Seq(Range(trees))
        /\ Len(trees) = IF stage \in Propagating THEN c - 1 ELSE c
        /\ \A k \in 1 .. Len(trees) : k <= ntrees => IsTree(trees[k], Doubled(BoxOf(1)))

GrownInv == InputsOK /\ FrontInv /\ StageOK /\ TreesOK

LEMMA GrownAtFirst ==
    ASSUME MtosInit
    PROVE  GrownInv
<1>1. InputsOK
  BY InputsAtFirst
<1>2. stage = "immerse" /\ c = 1 /\ lists = [l \in Level |-> <<>>] /\ trees = <<>>
  BY DEF MtosInit, Init
<1>3. Len(inputs) \in {1, ntrees}
  BY MtosAssumption DEF MtosInit, Init
<1>4. FrontInv
  BY <1>2 DEF FrontInv, FacesOK, StacksOK, FrontOK, QueueEmpty
<1>5. StageOK
  BY <1>2, <1>3 DEF StageOK, Propagating, Fusing, ntrees
<1>6. TreesOK
  BY <1>2 DEF TreesOK, Propagating, Range
<1>7. QED
  BY <1>1, <1>4, <1>5, <1>6 DEF GrownInv

(* What no step of the propagation, but its end, changes. *)
LEMMA RestKeepsFront ==
    ASSUME FrontInv, QueueEmpty, stage # "immerse", stage' \notin {"pop", "visit"},
           UNCHANGED <<ord, lists>>, DOMAIN inputs'[1] = DOMAIN inputs[1],
           (stage' # "immerse" /\ c' = c) \/ (stage' = "immerse" /\ c' = c + 1), c \in Int
    PROVE  FrontInv'
<1>1. BoxOf(c)' = IF c' <= ntrees THEN DOMAIN inputs[1] ELSE Doubled(DOMAIN inputs[1])
  BY DEF BoxOf
<1>2. BoxOf(c - 1)' = IF c' - 1 <= ntrees THEN DOMAIN inputs[1] ELSE Doubled(DOMAIN inputs[1])
  BY DEF BoxOf
<1>3. BoxOf(c) = IF c <= ntrees THEN DOMAIN inputs[1] ELSE Doubled(DOMAIN inputs[1])
  BY DEF BoxOf
<1>4. ord \in [Doubled(BoxOf(c)) -> Int]
  BY DEF FrontInv, FacesOK
<1>5. FacesOK'
  <2>1. CASE stage' # "immerse" /\ c' = c
    <3>1. BoxOf(c)' = BoxOf(c)
      BY <1>1, <1>3, <2>1
    <3>2. QED
      BY <1>4, <2>1, <3>1 DEF FacesOK
  <2>2. CASE stage' = "immerse" /\ c' = c + 1
    <3>1. c' - 1 = c
      BY <2>2
    <3>2. BoxOf(c - 1)' = BoxOf(c)
      BY <1>2, <1>3, <3>1
    <3>3. QED
      BY <1>4, <2>2, <3>2 DEF FacesOK
  <2>3. QED
    BY <2>1, <2>2
<1>6. StacksOK'
  BY DEF FrontInv, StacksOK, QueueEmpty
<1>7. FrontOK'
  BY DEF FrontOK
<1>8. QED
  BY <1>5, <1>6, <1>7 DEF FrontInv

LEMMA FirstInput ==
    ASSUME InputsOK
    PROVE  1 \in 1 .. Len(inputs) /\ c \in 1 .. Len(inputs) /\ Len(inputs) \in Nat /\ c \in Int
BY DEF InputsOK, ntrees

LEMMA InputsStay ==
    ASSUME InputsOK, UNCHANGED <<inputs, pstart>>, c' \in 1 .. Len(inputs)
    PROVE  InputsOK'
<1>1. BoxOf(1)' = BoxOf(1)
  BY DEF BoxOf
<1>2. \A k : BoxOf(k)' = BoxOf(k)
  BY DEF BoxOf
<1>3. QED
  BY <1>1, <1>2 DEF InputsOK

LEMMA TreesStay ==
    ASSUME TreesOK, UNCHANGED <<inputs, trees>>, stage # "end",
           (IF stage' \in Propagating THEN c' - 1 ELSE c') = IF stage \in Propagating THEN c - 1 ELSE c
    PROVE  TreesOK'
<1>1. BoxOf(1)' = BoxOf(1)
  BY DEF BoxOf
<1>2. QED
  BY <1>1 DEF TreesOK

LEMMA PropagationKeeps ==
    ASSUME GrownInv, Immerse \/ PopFace \/ VisitFace \/ EndPropagation
    PROVE  GrownInv'
<1>1. /\ stage \in Propagating /\ stage' \in Propagating
      /\ UNCHANGED <<inputs, pstart, c, trees>>
  <2>1. CASE Immerse
    BY <2>1 DEF Immerse, Propagating
  <2>2. CASE PopFace
    BY <2>2 DEF PopFace, Propagating
  <2>3. CASE VisitFace
    BY <2>3 DEF VisitFace, Propagating
  <2>4. CASE EndPropagation
    BY <2>4 DEF EndPropagation, Propagating
  <2>5. QED
    BY <2>1, <2>2, <2>3, <2>4
<1>2. InputsOK /\ FrontInv /\ StageOK /\ TreesOK
  BY DEF GrownInv
<1>3. InputsOK'
  BY <1>1, <1>2, FirstInput, InputsStay
<1>4. FrontInv'
  <2>1. CASE EndPropagation
    <3>1. /\ QueueEmpty /\ stage # "immerse" /\ stage' \notin {"pop", "visit"} /\ stage' # "immerse"
          /\ UNCHANGED <<ord, lists, inputs, c>>
      BY <2>1 DEF EndPropagation
    <3>2. QED
      BY <1>2, <3>1, FirstInput, RestKeepsFront
  <2>2. QED
    BY <1>2, <2>1, ImmerseKeeps, PopFaceKeeps, VisitFaceKeeps
<1>5. StageOK'
  BY <1>1, <1>2 DEF StageOK, Propagating, Fusing
<1>6. TreesOK'
  BY <1>1, <1>2, TreesStay DEF Propagating
<1>7. QED
  BY <1>3, <1>4, <1>5, <1>6 DEF GrownInv

LEMMA EndTosKeeps ==
    ASSUME GrownInv, EndTos
    PROVE  GrownInv'
<1>1. PICK made \in MaxTreeOfDepths : trees' = Append(trees, made)
  BY DEF EndTos
<1>2. /\ stage = "maxtree" /\ stage' = "tos_end"
      /\ UNCHANGED <<inputs, pstart, c, ord, lists>>
  BY DEF EndTos
<1>3. InputsOK /\ FrontInv /\ StageOK /\ TreesOK
  BY DEF GrownInv
<1>4. c \in 1 .. ntrees + 1 /\ c \in Int
  BY <1>3 DEF InputsOK, ntrees
<1>5. ord \in [Doubled(BoxOf(c)) -> Int] /\ Faces = Doubled(BoxOf(c))
  BY <1>2, <1>3 DEF FrontInv, FacesOK, Faces
<1>6. IsTree(made, Faces)
  BY <1>3, <1>4, <1>5, BoxesAre, TreeOfDepthsIs
<1>7. c <= ntrees => Faces = Doubled(BoxOf(1))
  BY <1>5 DEF BoxOf, ntrees
<1>8. trees \in Seq(Range(trees)) /\ Len(trees) = c - 1
      /\ \A k \in 1 .. Len(trees) : k <= ntrees => IsTree(trees[k], Doubled(BoxOf(1)))
  BY <1>2, <1>3 DEF TreesOK, Propagating
<1>9. /\ trees' \in Seq(Range(trees)') /\ Len(trees') = c
      /\ \A k \in 1 .. c - 1 : trees'[k] = trees[k]
      /\ trees'[c] = made
  <2> DEFINE S == Range(trees) \cup {made}
             n == Len(trees)
  <2>1. trees \in Seq(S)
    BY <1>8, SeqMonotonic
  <2>2. made \in S
    OBVIOUS
  <2> HIDE DEF S
  <2>3. trees' \in Seq(S) /\ Len(trees') = n + 1 /\ (\A k \in 1 .. n : trees'[k] = trees[k]) /\ trees'[n + 1] = made
    BY <1>1, <2>1, <2>2, AppendProperties
  <2>4. n = c - 1 /\ n + 1 = c
    BY <1>4, <1>8
  <2>5. trees' \in Seq(Range(trees'))
    BY <2>3, SeqOfRange
  <2>6. QED
    BY <2>3, <2>4, <2>5 DEF Range
<1>10. InputsOK'
  BY <1>2, <1>3, FirstInput, InputsStay
<1>11. FrontInv'
  <2>1. QueueEmpty
    BY <1>2, <1>3 DEF FrontInv, StacksOK
  <2>2. QED
    BY <1>2, <1>3, <1>4, <2>1, RestKeepsFront
<1>12. StageOK'
  BY <1>2, <1>3 DEF StageOK, Propagating, Fusing
<1>13. BoxOf(1)' = BoxOf(1)
  BY <1>2 DEF BoxOf
<1>14. TreesOK'
  <2>1. \A k \in 1 .. c : k \in 1 .. c - 1 \/ k = c
    BY <1>4
  <2>2. \A k \in 1 .. c : k <= ntrees => IsTree(trees'[k], Doubled(BoxOf(1)))
    BY <1>6, <1>7, <1>8, <1>9, <2>1
  <2>3. QED
    BY <1>2, <1>9, <1>13, <2>2 DEF TreesOK, Propagating
<1>15. QED
  BY <1>10, <1>11, <1>12, <1>14 DEF GrownInv

LEMMA NextChannelKeeps ==
    ASSUME GrownInv, NextChannel
    PROVE  GrownInv'
<1>1. /\ stage = "tos_end" /\ c < Len(inputs) /\ c' = c + 1 /\ stage' = "immerse"
      /\ UNCHANGED <<inputs, pstart, ord, lists, trees>>
  BY DEF NextChannel
<1>2. InputsOK /\ FrontInv /\ StageOK /\ TreesOK
  BY DEF GrownInv
<1>3. InputsOK'
  <2>1. c + 1 \in 1 .. Len(inputs)
    BY <1>1, <1>2, FirstInput
  <2>2. QED
    BY <1>1, <1>2, <2>1, InputsStay
<1>4. FrontInv'
  <2>1. QueueEmpty
    BY <1>1, <1>2 DEF FrontInv, StacksOK
  <2>2. QED
    BY <1>1, <1>2, <2>1, FirstInput, RestKeepsFront
<1>5. StageOK'
  <2>1. Len(inputs) # ntrees + 1
    <3>1. Len(inputs) = ntrees + 1 => c = Len(inputs)
      BY <1>2 DEF StageOK
    <3>2. c \in Int /\ c < Len(inputs)
      BY <1>1, <1>2, FirstInput
    <3>3. QED
      BY <3>1, <3>2
  <2>2. QED
    BY <1>1, <1>2, <2>1 DEF StageOK, Propagating, Fusing
<1>6. TreesOK'
  <2>1. c' - 1 = c
    BY <1>1, <1>2, FirstInput
  <2>2. QED
    BY <1>1, <1>2, <2>1, TreesStay DEF Propagating
<1>7. QED
  BY <1>3, <1>4, <1>5, <1>6 DEF GrownInv

(* The steps of the fusion, but the last one. *)
LEMMA FusionKeeps ==
    ASSUME GrownInv, NEW from, NEW to \in Fusing, Fusion(from, to), UNCHANGED <<inputs, c>>,
           from \in Fusing \/ (from = "tos_end" /\ c = ntrees /\ Len(inputs) = ntrees)
    PROVE  GrownInv'
<1>1. stage = from /\ stage' = to /\ UNCHANGED <<pstart, ord, lists, trees>>
  BY DEF Fusion
<1>2. InputsOK /\ FrontInv /\ StageOK /\ TreesOK
  BY DEF GrownInv
<1>3. /\ stage \notin Propagating /\ stage # "immerse" /\ stage # "end" /\ stage \notin {"pop", "visit"}
      /\ stage' \notin Propagating /\ stage' # "immerse" /\ stage' \notin {"pop", "visit"}
  BY <1>1 DEF Fusing, Propagating
<1>4. InputsOK'
  BY <1>1, <1>2, FirstInput, InputsStay
<1>5. FrontInv'
  <2>1. QueueEmpty
    BY <1>2, <1>3 DEF FrontInv, StacksOK
  <2>2. QED
    BY <1>1, <1>2, <1>3, <2>1, FirstInput, RestKeepsFront
<1>6. StageOK'
  BY <1>1, <1>2 DEF StageOK
<1>7. TreesOK'
  BY <1>1, <1>2, <1>3, TreesStay
<1>8. QED
  BY <1>4, <1>5, <1>6, <1>7 DEF GrownInv

LEMMA SaturateKeeps ==
    ASSUME GrownInv, Saturate
    PROVE  GrownInv'
<1>1. stage = "tos_end" /\ stage' = "end" /\ UNCHANGED <<inputs, pstart, c, ord, lists>>
  BY DEF Saturate
<1>2. InputsOK /\ FrontInv /\ StageOK
  BY DEF GrownInv
<1>3. InputsOK'
  BY <1>1, <1>2, FirstInput, InputsStay
<1>4. FrontInv'
  <2>1. QueueEmpty
    BY <1>1, <1>2 DEF FrontInv, StacksOK
  <2>2. QED
    BY <1>1, <1>2, <2>1, FirstInput, RestKeepsFront
<1>5. StageOK' /\ TreesOK'
  BY <1>1, <1>2 DEF StageOK, TreesOK, Propagating, Fusing
<1>6. QED
  BY <1>3, <1>4, <1>5 DEF GrownInv

-----------------------------------------------------------------------------
(* The graph at each stage. *)
SortOK(L) ==
    /\ VerticesOf(tree_to_graph, L) /\ GraphIs(gT, L, Inclusion(L))
    /\ stage = "topo" => TopoIs(L, gT, Inclusion(L), visited, st, res, at)
    /\ stage = "depths" => IsOrderOf(L, gT, res) /\ DeepIs(L, gT, res, graph_depth, at)

GraphInv ==
    /\ stage \in Fusing => SesOK
    /\ stage = "edges" => VerticesOK
    /\ stage \in {"topo", "depths"} => \E L : SortOK(L)
    /\ c <= ntrees /\ stage \notin {"topo", "depths"} => st = <<>> /\ res = <<>>

LEMMA ForestThen ==
    ASSUME GrownInv, stage \in Fusing \/ (stage = "tos_end" /\ c = ntrees)
    PROVE  /\ ForestOK /\ c = ntrees /\ Faces = Doubled(BoxOf(1))
           /\ ord \in [Faces -> Int] /\ QueueEmpty
<1>1. InputsOK /\ FrontInv /\ StageOK /\ TreesOK
  BY DEF GrownInv
<1>2. c = ntrees /\ stage # "end" /\ stage \notin Propagating /\ stage # "immerse" /\ stage \notin {"pop", "visit"}
  BY <1>1 DEF StageOK, Fusing, Propagating
<1>3. ord \in [Doubled(BoxOf(c)) -> Int] /\ BoxOf(c) = BoxOf(1)
  BY <1>1, <1>2 DEF FrontInv, FacesOK, BoxOf, ntrees
<1>4. Faces = Doubled(BoxOf(1))
  BY <1>3 DEF Faces
<1>5. \A k \in 1 .. ntrees : IsTree(trees[k], Faces)
  <2>1. Len(trees) = ntrees
    BY <1>1, <1>2 DEF TreesOK
  <2>2. \A k \in 1 .. ntrees : k <= ntrees
    BY DEF ntrees
  <2>3. QED
    BY <1>1, <1>2, <1>4, <2>1, <2>2 DEF TreesOK
<1>6. \A k \in Channel : RegionsOK(trees[k])
  BY <1>5, RegionsAreOK DEF Channel
<1>7. IsFiniteSet(Faces) /\ Faces # {}
  BY <1>1, <1>4, DoubledIs DEF InputsOK
<1>8. QED
  BY <1>1, <1>2, <1>3, <1>4, <1>6, <1>7 DEF ForestOK, FrontInv, StacksOK

(* The shapes are those of the trees. *)
LEMMA ShapesStay ==
    ASSUME UNCHANGED <<trees, ord>>
    PROVE  /\ \A j : NodeOf(j)' = NodeOf(j)
           /\ \A j, n : Reg(j, n)' = Reg(j, n)
           /\ \A s, j, k, n : Encloses(s, j, k, n)' = Encloses(s, j, k, n)
           /\ \A g, L : VerticesOf(g, L)' = VerticesOf(g, L)
<1>1. \A j : NodeOf(j)' = NodeOf(j)
  BY DEF NodeOf
<1>2. \A j, n : Reg(j, n)' = Reg(j, n)
  BY DEF Reg, RegionOf, Faces
<1>3. \A s, j, k, n : Encloses(s, j, k, n)' = Encloses(s, j, k, n)
  BY <1>1, <1>2 DEF Encloses
<1>4. \A g, L : VerticesOf(g, L)' = VerticesOf(g, L)
  BY <1>1, <1>2 DEF VerticesOf
<1>5. QED
  BY <1>1, <1>2, <1>3, <1>4

LEMMA SesStay ==
    ASSUME UNCHANGED <<trees, ord, ses>>, SesOK
    PROVE  SesOK'
BY ShapesStay DEF SesOK

LEMMA VerticesStay ==
    ASSUME UNCHANGED <<trees, ord, tree_to_graph>>, NEW L
    PROVE  VerticesOf(tree_to_graph, L)' = VerticesOf(tree_to_graph, L) /\ Inclusion(L)' = Inclusion(L)
<1>1. /\ \A j : NodeOf(j)' = NodeOf(j)
      /\ \A j, n : Reg(j, n)' = Reg(j, n)
  BY ShapesStay
<1>2. VerticesOf(tree_to_graph, L)' = VerticesOf(tree_to_graph, L)
  BY <1>1 DEF VerticesOf
<1>3. Inclusion(L)' = Inclusion(L)
  BY <1>1 DEF Inclusion
<1>4. QED
  BY <1>2, <1>3

LEMMA EnclosingShapesAdded ==
    ASSUME GrownInv, GraphInv, ComputeEnclosingShapes
    PROVE  GrownInv' /\ GraphInv'
<1>1. /\ c = ntrees /\ Len(inputs) = ntrees /\ Fusion("tos_end", "vertices")
      /\ UNCHANGED <<inputs, c, st, res>>
  BY DEF ComputeEnclosingShapes
<1>2. stage = "tos_end" /\ stage' = "vertices" /\ UNCHANGED <<trees, ord>>
  BY <1>1 DEF Fusion
<1>3. GrownInv'
  BY <1>1, FusionKeeps DEF Fusing
<1>4. ForestOK
  BY <1>1, <1>2, ForestThen
<1>5. \A j, k \in Channel : \A n \in NodeOf(j) : ses'[j][k][n] = EnclosingShape(j, k, n)
  <2>1. ses' = [j \in Channel |-> [k \in Channel |-> [n \in NodesOf(trees[j]) |-> EnclosingShape(j, k, n)]]]
    BY DEF ComputeEnclosingShapes
  <2>2. QED
    BY <2>1 DEF NodeOf
<1>6. \A j, k \in Channel : \A n \in NodeOf(j) : Encloses(ses'[j][k][n], j, k, n)
  BY <1>4, <1>5, EnclosingShapeIs
<1>7. SesOK'
  BY <1>2, <1>6, ShapesStay DEF SesOK
<1>8. st' = <<>> /\ res' = <<>>
  BY <1>1, <1>2 DEF GraphInv, ntrees
<1>9. GraphInv'
  BY <1>2, <1>7, <1>8 DEF GraphInv
<1>10. QED
  BY <1>3, <1>9

LEMMA VerticesAdded ==
    ASSUME GrownInv, GraphInv, AddVertices
    PROVE  GrownInv' /\ GraphInv'
<1>1. Fusion("vertices", "edges") /\ UNCHANGED <<inputs, c, ses, st, res>>
  BY DEF AddVertices
<1>2. stage = "vertices" /\ stage' = "edges" /\ UNCHANGED <<trees, ord>>
  BY <1>1 DEF Fusion
<1>3. GrownInv'
  BY <1>1, FusionKeeps DEF Fusing
<1>4. ForestOK /\ c = ntrees /\ SesOK
  BY <1>2, ForestThen DEF GraphInv, Fusing
<1>5. VerticesOf(tree_to_graph', Cardinality(Added))
  BY <1>4, LinksAre, VerticesAreShapes
<1>6. VerticesOK'
  <2>1. PICK L : VerticesOf(tree_to_graph', L)
    BY <1>5
  <2>2. VerticesOf(tree_to_graph, L)'
    <3>1. /\ \A j : NodeOf(j)' = NodeOf(j)
          /\ \A j, n : Reg(j, n)' = Reg(j, n)
      BY <1>2, ShapesStay
    <3>2. QED
      BY <2>1, <3>1 DEF VerticesOf
  <2>3. QED
    BY <2>2 DEF VerticesOK
<1>7. SesOK'
  BY <1>1, <1>2, <1>4, SesStay
<1>8. st' = <<>> /\ res' = <<>>
  BY <1>1, <1>2, <1>4 DEF GraphInv, ntrees
<1>9. GraphInv'
  BY <1>2, <1>6, <1>7, <1>8 DEF GraphInv
<1>10. QED
  BY <1>3, <1>9

LEMMA AddEdgesKeeps ==
    ASSUME GrownInv, GraphInv, AddEdges
    PROVE  GrownInv' /\ GraphInv'
<1>1. Fusion("edges", "topo") /\ UNCHANGED <<inputs, c, ses, tree_to_graph, st, res>> /\ at' = 0
  BY DEF AddEdges
<1>2. stage = "edges" /\ stage' = "topo" /\ UNCHANGED <<trees, ord>>
  BY <1>1 DEF Fusion
<1>3. GrownInv'
  BY <1>1, FusionKeeps DEF Fusing
<1>4. ForestOK /\ c = ntrees /\ SesOK /\ VerticesOK
  BY <1>2, ForestThen DEF GraphInv, Fusing
<1>5. PICK L : VerticesOf(tree_to_graph, L)
  BY <1>4 DEF VerticesOK
<1>6. GraphOf(gT', L) /\ visited' = [v \in 0 .. L |-> "UNMARKED"]
  BY <1>4, <1>5, EdgesAdded
<1>7. GraphIs(gT', L, Inclusion(L))
  BY <1>4, <1>5, <1>6, GraphIsInclusion
<1>8. st' = <<>> /\ res' = <<>>
  BY <1>1, <1>2, <1>4 DEF GraphInv, ntrees
<1>9. TopoIs(L, gT', Inclusion(L), visited', st', res', at')
  BY <1>1, <1>6, <1>7, <1>8, TopoAtFirst
<1>10. VerticesOf(tree_to_graph, L)' /\ Inclusion(L)' = Inclusion(L)
  BY <1>1, <1>2, <1>5, VerticesStay
<1>11. SortOK(L)'
  BY <1>2, <1>7, <1>9, <1>10 DEF SortOK
<1>12. SesOK'
  BY <1>1, <1>2, <1>4, SesStay
<1>13. GraphInv'
  BY <1>2, <1>8, <1>11, <1>12 DEF GraphInv
<1>14. QED
  BY <1>3, <1>13

(* The topological sort and the depths. *)
LEMMA SortKeeps ==
    ASSUME GrownInv, GraphInv, NEW from \in {"topo", "depths"}, NEW to \in {"topo", "depths"}, Fusion(from, to),
           UNCHANGED <<inputs, c, ses, tree_to_graph, gT>>,
           NEW L, VerticesOf(tree_to_graph, L), GraphIs(gT, L, Inclusion(L)),
           to = "topo" => TopoIs(L, gT, Inclusion(L), visited', st', res', at'),
           to = "depths" => IsOrderOf(L, gT, res') /\ DeepIs(L, gT, res', graph_depth', at')
    PROVE  GrownInv' /\ GraphInv'
<1>1. stage = from /\ stage' = to /\ UNCHANGED <<trees, ord>>
  BY DEF Fusion
<1>2. GrownInv'
  BY FusionKeeps DEF Fusing
<1>3. SesOK
  BY <1>1 DEF GraphInv, Fusing
<1>4. SesOK'
  BY <1>1, <1>3, SesStay
<1>5. VerticesOf(tree_to_graph, L)' /\ Inclusion(L)' = Inclusion(L)
  BY <1>1, VerticesStay
<1>6. SortOK(L)'
  BY <1>1, <1>5 DEF SortOK
<1>7. GraphInv'
  BY <1>1, <1>4, <1>6 DEF GraphInv
<1>8. QED
  BY <1>2, <1>7

LEMMA TopoKeeps ==
    ASSUME GrownInv, GraphInv, StartFrom \/ VisitTop
    PROVE  GrownInv' /\ GraphInv'
<1>1. Fusion("topo", "topo") /\ UNCHANGED <<inputs, c, ses, tree_to_graph, gT>>
  BY DEF StartFrom, VisitTop
<1>2. stage = "topo"
  BY <1>1 DEF Fusion
<1>3. PICK L : SortOK(L)
  BY <1>2 DEF GraphInv
<1>4. /\ VerticesOf(tree_to_graph, L) /\ GraphIs(gT, L, Inclusion(L))
      /\ TopoIs(L, gT, Inclusion(L), visited, st, res, at)
  BY <1>2, <1>3 DEF SortOK
<1>5. TopoIs(L, gT, Inclusion(L), visited', st', res', at')
  BY <1>4, StartFromKeeps, VisitTopKeeps
<1>6. QED
  BY <1>1, <1>4, <1>5, SortKeeps

LEMMA EndTopoKeeps ==
    ASSUME GrownInv, GraphInv, EndTopo
    PROVE  GrownInv' /\ GraphInv'
<1>1. /\ Fusion("topo", "depths") /\ UNCHANGED <<inputs, c, ses, tree_to_graph, gT, res>>
      /\ at' = 1 /\ graph_depth' = [v \in Vertex |-> IF v = 0 THEN 0 ELSE -1]
  BY DEF EndTopo
<1>2. stage = "topo"
  BY <1>1 DEF Fusion
<1>3. PICK L : SortOK(L)
  BY <1>2 DEF GraphInv
<1>4. /\ VerticesOf(tree_to_graph, L) /\ GraphIs(gT, L, Inclusion(L))
      /\ TopoIs(L, gT, Inclusion(L), visited, st, res, at)
  BY <1>2, <1>3 DEF SortOK
<1>5. IsOrderOf(L, gT, res)
  BY <1>4, EndTopoOrders
<1>6. Vertex = 0 .. L
  BY <1>4 DEF Vertex, GraphIs
<1>7. DeepIs(L, gT, res', graph_depth', at')
  BY <1>1, <1>4, <1>5, <1>6, DeepAtFirst
<1>8. QED
  BY <1>1, <1>4, <1>5, <1>7, SortKeeps

LEMMA DeepenKeeps ==
    ASSUME GrownInv, GraphInv, Deepen
    PROVE  GrownInv' /\ GraphInv'
<1>1. /\ Fusion("depths", "depths") /\ UNCHANGED <<inputs, c, ses, tree_to_graph, gT, res>>
      /\ at <= Len(res) /\ at' = at + 1
      /\ graph_depth' = [e \in Vertex |-> IF e \in gT[res[at]]
                                          THEN Max({graph_depth[e], graph_depth[res[at]] + 1})
                                          ELSE graph_depth[e]]
  BY DEF Deepen
<1>2. stage = "depths"
  BY <1>1 DEF Fusion
<1>3. PICK L : SortOK(L)
  BY <1>2 DEF GraphInv
<1>4. /\ VerticesOf(tree_to_graph, L) /\ GraphIs(gT, L, Inclusion(L))
      /\ IsOrderOf(L, gT, res) /\ DeepIs(L, gT, res, graph_depth, at)
  BY <1>2, <1>3 DEF SortOK
<1>5. Vertex = 0 .. L
  BY <1>4 DEF Vertex, GraphIs
<1>6. DeepIs(L, gT, res', graph_depth', at')
  <2>1. DeepIs(L, gT, res, Deepened(L, gT, graph_depth, res[at]), at + 1)
    BY <1>1, <1>4, Deepens
  <2>2. graph_depth' = Deepened(L, gT, graph_depth, res[at])
    BY <1>1, <1>5 DEF Deepened
  <2>3. QED
    BY <1>1, <2>1, <2>2
<1>7. QED
  BY <1>1, <1>4, <1>6, SortKeeps

-----------------------------------------------------------------------------
(* The map of the depths. *)
LEMMA DepthMapIs ==
    ASSUME GrownInv, GraphInv, ComputeDepthMap
    PROVE  /\ ForestOK /\ c = ntrees /\ Len(inputs) = ntrees
           /\ DepthMap \in [Faces -> Int]
           /\ \E L : VerticesOf(tree_to_graph, L) /\ LongestIs(L, Inclusion(L), graph_depth)
<1>1. stage = "depths" /\ at > Len(res)
  BY DEF ComputeDepthMap, Fusion
<1>2. ForestOK /\ c = ntrees
  BY <1>1, ForestThen DEF Fusing
<1>3. Len(inputs) = ntrees
  BY <1>1 DEF GrownInv, StageOK, Fusing
<1>4. PICK L : /\ VerticesOf(tree_to_graph, L) /\ GraphIs(gT, L, Inclusion(L))
               /\ IsOrderOf(L, gT, res) /\ DeepIs(L, gT, res, graph_depth, at)
  BY <1>1 DEF GraphInv, SortOK
<1>5. LongestIs(L, Inclusion(L), graph_depth)
  BY <1>1, <1>4, DeepIsLongest
<1>6. ASSUME NEW q \in Faces
      PROVE  Max({graph_depth[tree_to_graph[j][trees[j].node_map[q]]] : j \in Channel}) \in Int
  <2> DEFINE own(j) == graph_depth[tree_to_graph[j][trees[j].node_map[q]]]
             A == {own(j) : j \in Channel}
  <2>1. \A j \in Channel : own(j) \in Nat
    <3> SUFFICES ASSUME NEW j \in Channel PROVE own(j) \in Nat
      OBVIOUS
    <3>1. trees[j].node_map \in [Faces -> NodesOf(trees[j])]
      BY <1>2 DEF ForestOK, RegionsOK
    <3>2. trees[j].node_map[q] \in NodeOf(j)
      BY <3>1 DEF NodeOf
    <3>3. tree_to_graph[j] \in [NodeOf(j) -> 0 .. L]
      BY <1>4 DEF VerticesOf
    <3>4. tree_to_graph[j][trees[j].node_map[q]] \in 0 .. L
      BY <3>2, <3>3
    <3>5. graph_depth \in [0 .. L -> Nat]
      BY <1>5 DEF LongestIs
    <3>6. QED
      BY <3>4, <3>5
  <2> HIDE DEF own
  <2>2. IsFiniteSet(A)
    <3> DEFINE f == [j \in Channel |-> own(j)]
    <3>1. f \in Surjection(Channel, A)
      BY DEF Surjection
    <3>2. QED
      BY <3>1, ChannelsAre, FS_Surjection
  <2>3. A \subseteq Int /\ A # {}
    BY <2>1, ChannelsAre
  <2>4. Max(A) \in Int
    <3> HIDE DEF A
    <3>1. QED
      BY <2>2, <2>3, FiniteExtrema
  <2>5. QED
    BY <2>4 DEF own
<1>7. DepthMap \in [Faces -> Int]
  BY <1>6 DEF DepthMap
<1>8. QED
  BY <1>2, <1>3, <1>4, <1>5, <1>7

LEMMA DepthMapKeepsGrown ==
    ASSUME GrownInv, GraphInv, ComputeDepthMap
    PROVE  GrownInv' /\ GraphInv'
<1>1. /\ Fusion("depths", "immerse") /\ inputs' = Append(inputs, DepthMap) /\ c' = c + 1
      /\ UNCHANGED graphVars
  BY DEF ComputeDepthMap
<1>2. stage = "depths" /\ stage' = "immerse" /\ UNCHANGED <<pstart, ord, lists, trees>>
  BY <1>1 DEF Fusion
<1>3. InputsOK /\ FrontInv /\ StageOK /\ TreesOK
  BY DEF GrownInv
<1>4. c = ntrees /\ Len(inputs) = ntrees /\ DepthMap \in [Faces -> Int]
  BY DepthMapIs
<1>5. Faces = Doubled(BoxOf(1)) /\ QueueEmpty
  BY <1>2, ForestThen DEF Fusing
<1> DEFINE box == BoxOf(1)
           S == ImagesOf(box)
<1>6. DepthMap \in S
  BY <1>4, <1>5 DEF ImagesOf
<1>7. inputs \in Seq(S)
  BY <1>3 DEF InputsOK
<1> HIDE DEF S
<1>8. /\ inputs' \in Seq(S) /\ Len(inputs') = 4 /\ inputs'[4] = DepthMap
      /\ \A k \in 1 .. 3 : inputs'[k] = inputs[k]
  <2>1. Len(inputs) = 3 /\ 3 + 1 = 4
    BY <1>4 DEF ntrees
  <2>2. /\ inputs' \in Seq(S) /\ Len(inputs') = Len(inputs) + 1 /\ inputs'[Len(inputs) + 1] = DepthMap
        /\ \A k \in 1 .. Len(inputs) : inputs'[k] = inputs[k]
    BY <1>1, <1>6, <1>7, AppendProperties
  <2>3. QED
    BY <2>1, <2>2
<1>9. inputs'[1] = inputs[1] /\ BoxOf(1)' = box
  BY <1>8 DEF BoxOf
<1>10. \A k \in 1 .. 4 : BoxOf(k)' = BoxOf(k) /\ (k = 4 => BoxOf(k) = Doubled(box)) /\ (k = 4 \/ k \in 1 .. 3)
  BY <1>9 DEF BoxOf, ntrees
<1>11. \A k \in 1 .. 3 : inputs[k] \in [BoxOf(k) -> Int]
  BY <1>3, <1>4 DEF InputsOK, ntrees
<1>12. \A k \in 1 .. 4 : inputs'[k] \in [BoxOf(k)' -> Int]
  BY <1>4, <1>5, <1>8, <1>10, <1>11
<1>13. InputsOK'
  <2>1. c' \in 1 .. Len(inputs') /\ Len(inputs') \in {1, ntrees, ntrees + 1} /\ Len(inputs') = 4
    BY <1>1, <1>4, <1>8 DEF ntrees
  <2>2. inputs' \in Seq(ImagesOf(BoxOf(1)'))
    BY <1>8, <1>9 DEF S
  <2>3. IsOrigined(box) /\ pstart' \in Doubled(box) /\ IsNeighbourhood(Doubled(box)) /\ IsNeighbourhood(Doubled(Doubled(box)))
    BY <1>2, <1>3 DEF InputsOK
  <2>4. QED
    BY <1>9, <1>12, <2>1, <2>2, <2>3 DEF InputsOK
<1>14. FrontInv'
  <2>1. c \in Int /\ stage # "immerse" /\ stage' \notin {"pop", "visit"}
    BY <1>2, <1>3, FirstInput
  <2>2. QED
    BY <1>1, <1>2, <1>3, <1>5, <1>9, <2>1, RestKeepsFront
<1>15. StageOK'
  <2>1. c' = ntrees + 1
    BY <1>1, <1>4
  <2>2. QED
    BY <1>2, <2>1 DEF StageOK, Propagating, Fusing
<1>16. TreesOK'
  <2>1. stage # "end" /\ stage \notin Propagating /\ stage' \in Propagating /\ stage' # "end"
    BY <1>2 DEF Propagating
  <2>2. c' - 1 = c
    BY <1>1, <1>3, FirstInput
  <2>3. QED
    BY <1>2, <1>3, <1>9, <2>1, <2>2 DEF TreesOK
<1>17. GraphInv'
  <2>1. ~(c' <= ntrees)
    BY <1>1, <1>4 DEF ntrees
  <2>2. QED
    BY <1>2, <2>1 DEF GraphInv, Fusing
<1>18. QED
  BY <1>13, <1>14, <1>15, <1>16, <1>17 DEF GrownInv

LEMMA ChannelShapesStay == UNCHANGED <<trees, ord>> => ChannelShapes' = ChannelShapes
<1> DEFINE of(j) == {RegionOf(trees[j], n) : n \in NodesOf(trees[j])}
<1>1. \A R : R \in ChannelShapes <=> \E j \in Channel : R \in of(j)
  BY Zenon DEF ChannelShapes
<1>2. \A R : R \in ChannelShapes' <=> \E j \in Channel : R \in of(j)'
  BY Zenon DEF ChannelShapes
<1> SUFFICES ASSUME UNCHANGED <<trees, ord>> PROVE ChannelShapes' = ChannelShapes
  OBVIOUS
<1>3. \A j, n : RegionOf(trees[j], n)' = RegionOf(trees[j], n)
  BY DEF RegionOf, Faces
<1>4. \A j : of(j)' = of(j)
  BY <1>3
<1> HIDE DEF of
<1>5. QED
  BY <1>1, <1>2, <1>4

LEMMA DepthMapIsLongest ==
    ASSUME GrownInv, GraphInv, ComputeDepthMap
    PROVE  DepthMapIsLongestChain'
<1>1. /\ inputs' = Append(inputs, DepthMap) /\ c' = c + 1 /\ UNCHANGED <<trees, ord>>
  BY DEF ComputeDepthMap, Fusion
<1>2. ForestOK /\ c = ntrees /\ Len(inputs) = ntrees
  BY DepthMapIs
<1>3. PICK L : VerticesOf(tree_to_graph, L) /\ LongestIs(L, Inclusion(L), graph_depth)
  BY DepthMapIs
<1>4. inputs'[c'] = DepthMap
  <2>1. c' = Len(inputs) + 1
    BY <1>1, <1>2
  <2>2. inputs \in Seq(ImagesOf(BoxOf(1)))
    BY DEF GrownInv, InputsOK
  <2>3. QED
    BY <1>1, <2>1, <2>2
<1>5. ChannelShapes' = ChannelShapes
  BY <1>1, ChannelShapesStay
<1>6. \A q \in Faces : q \in UNION ChannelShapes /\ LongestChains(ChannelShapes)[q] = DeepestAt(graph_depth, q)
  BY <1>2, <1>3, ChainsAre
<1>7. DepthMap = LongestChains(ChannelShapes)
  <2>1. DepthMap = [q \in Faces |-> DeepestAt(graph_depth, q)]
    BY DEF DepthMap, DeepestAt
  <2>2. UNION ChannelShapes = Faces
    <3>1. ChannelShapes \subseteq SUBSET Faces
      BY DEF ChannelShapes, RegionOf
    <3>2. QED
      BY <1>6, <3>1
  <2>3. LongestChains(ChannelShapes) = [q \in UNION ChannelShapes |-> LongestChains(ChannelShapes)[q]]
    BY DEF LongestChains
  <2>4. QED
    BY <1>6, <2>1, <2>2, <2>3
<1>8. inputs'[c'] = LongestChains(ChannelShapes')
  BY <1>4, <1>5, <1>7
<1>9. QED
  BY <1>8 DEF DepthMapIsLongestChain

-----------------------------------------------------------------------------
(* The invariant: the trees computed so far, the propagation and the graph. *)
MtosInv == GrownInv /\ GraphInv /\ DepthMapIsLongestChain

LEMMA MtosAtFirst ==
    ASSUME MtosInit
    PROVE  MtosInv
<1>1. stage = "immerse" /\ st = <<>> /\ res = <<>> /\ c = 1
  BY DEF MtosInit, Init
<1>2. GraphInv
  BY <1>1 DEF GraphInv, Fusing
<1>3. DepthMapIsLongestChain
  BY <1>1 DEF DepthMapIsLongestChain, ntrees
<1>4. QED
  BY <1>2, <1>3, GrownAtFirst DEF MtosInv

LEMMA GraphWaits ==
    ASSUME GraphInv, UNCHANGED graphVars, c \in Int, c' \in {c, c + 1},
           stage' \notin Fusing, stage \notin Fusing
    PROVE  GraphInv'
<1>1. c' <= ntrees => c <= ntrees
  BY DEF ntrees
<1>2. st' = st /\ res' = res
  BY DEF graphVars
<1>3. QED
  BY <1>1, <1>2 DEF GraphInv, Fusing

LEMMA TosStepKeeps ==
    ASSUME MtosInv, TosStep
    PROVE  MtosInv'
<1>1. GrownInv /\ GraphInv /\ UNCHANGED graphVars
  BY DEF MtosInv, TosStep
<1>2. c' = c /\ stage' # "immerse" /\ stage' \notin Fusing /\ stage \notin Fusing
  <2>1. CASE Immerse
    BY <2>1 DEF Immerse, Fusing
  <2>2. CASE PopFace
    BY <2>2 DEF PopFace, Fusing
  <2>3. CASE VisitFace
    BY <2>3 DEF VisitFace, Fusing
  <2>4. CASE EndPropagation
    BY <2>4 DEF EndPropagation, Fusing
  <2>5. CASE EndTos
    BY <2>5 DEF EndTos, Fusing
  <2>6. QED
    BY <2>1, <2>2, <2>3, <2>4, <2>5 DEF TosStep, TosNext
<1>3. GrownInv'
  BY <1>1, PropagationKeeps, EndTosKeeps DEF TosStep, TosNext
<1>4. GraphInv'
  <2>1. c \in Int
    BY <1>1, FirstInput DEF GrownInv
  <2>2. QED
    BY <1>1, <1>2, <2>1, GraphWaits
<1>5. DepthMapIsLongestChain'
  BY <1>2 DEF DepthMapIsLongestChain
<1>6. QED
  BY <1>3, <1>4, <1>5 DEF MtosInv

LEMMA NextChannelHolds ==
    ASSUME MtosInv, NextChannel
    PROVE  MtosInv'
<1>1. GrownInv /\ GraphInv /\ UNCHANGED graphVars
  BY DEF MtosInv, NextChannel, graphVars
<1>2. stage = "tos_end" /\ stage' = "immerse" /\ c < Len(inputs) /\ c' = c + 1
  BY DEF NextChannel
<1>3. c \in Int /\ Len(inputs) \in {1, ntrees, ntrees + 1} /\ (Len(inputs) = ntrees + 1 => c = ntrees + 1)
  BY <1>1, FirstInput DEF GrownInv, InputsOK, StageOK
<1>4. GrownInv'
  BY <1>1, NextChannelKeeps
<1>5. GraphInv'
  BY <1>1, <1>2, <1>3, GraphWaits DEF Fusing
<1>6. c' # ntrees + 1
  <2> DEFINE n == Len(inputs)
  <2>1. n \in {1, 3, 4} /\ (n = 4 => c = 4) /\ c < n /\ c \in Int
    BY <1>2, <1>3 DEF ntrees
  <2> HIDE DEF n
  <2>2. c # 3
    BY <2>1
  <2>3. QED
    BY <1>2, <2>1, <2>2 DEF ntrees
<1>7. DepthMapIsLongestChain'
  BY <1>6 DEF DepthMapIsLongestChain, ntrees
<1>8. QED
  BY <1>4, <1>5, <1>7 DEF MtosInv

LEMMA FusionHolds ==
    ASSUME MtosInv,
           \/ ComputeEnclosingShapes \/ AddVertices \/ AddEdges
           \/ StartFrom \/ VisitTop \/ EndTopo \/ Deepen
    PROVE  MtosInv'
<1>1. GrownInv /\ GraphInv
  BY DEF MtosInv
<1>2. stage' # "immerse"
  BY DEF ComputeEnclosingShapes, AddVertices, AddEdges, StartFrom, VisitTop, EndTopo, Deepen, Fusion
<1>3. DepthMapIsLongestChain'
  BY <1>2 DEF DepthMapIsLongestChain
<1>4. GrownInv' /\ GraphInv'
  BY <1>1, EnclosingShapesAdded, VerticesAdded, AddEdgesKeeps, TopoKeeps, EndTopoKeeps, DeepenKeeps
<1>5. QED
  BY <1>3, <1>4 DEF MtosInv

LEMMA LastStepsHold ==
    ASSUME MtosInv, ComputeDepthMap \/ Saturate
    PROVE  MtosInv'
<1>1. GrownInv /\ GraphInv
  BY DEF MtosInv
<1>2. CASE ComputeDepthMap
  BY <1>1, <1>2, DepthMapKeepsGrown, DepthMapIsLongest DEF MtosInv
<1>3. CASE Saturate
  <2>1. stage = "tos_end" /\ stage' = "end" /\ c' = c /\ UNCHANGED graphVars
    BY <1>3 DEF Saturate
  <2>2. GraphInv'
    BY <1>1, <2>1, FirstInput, GraphWaits DEF GrownInv, Fusing
  <2>3. DepthMapIsLongestChain'
    BY <2>1 DEF DepthMapIsLongestChain
  <2>4. QED
    BY <1>1, <1>3, <2>2, <2>3, SaturateKeeps DEF MtosInv
<1>4. QED
  BY <1>2, <1>3

LEMMA MtosStays ==
    ASSUME MtosInv, UNCHANGED mtosVars
    PROVE  MtosInv'
<1>1. /\ UNCHANGED <<inputs, pstart, c, stage, inf, sup, ord, lists, previous_level, cur_level, p,
                     depth, depth2lvl, trees>>
      /\ UNCHANGED <<ses, tree_to_graph, gT, st, visited, res, at, graph_depth>>
  BY DEF mtosVars, tosVars, propagationVars, graphVars
<1>2. InputsOK' = InputsOK
  BY <1>1 DEF InputsOK, BoxOf
<1>3. FrontInv' = FrontInv
  BY <1>1 DEF FrontInv, FacesOK, StacksOK, FrontOK, IntervalsOK, WaitOK, DepthsOK, PopOK, VisitOK, AllMarked, OnlyStart,
              BoxOf, QueueEmpty, Waiting, AtLevel, Faces
<1>4. StageOK' = StageOK /\ TreesOK' = TreesOK
  BY <1>1 DEF StageOK, TreesOK, BoxOf
<1>5. GrownInv' = GrownInv
  BY <1>2, <1>3, <1>4 DEF GrownInv
<1>6. \A j : NodeOf(j)' = NodeOf(j)
  BY <1>1, ShapesStay
<1>7. \A L : VerticesOf(tree_to_graph, L)' = VerticesOf(tree_to_graph, L) /\ Inclusion(L)' = Inclusion(L)
  BY <1>1, VerticesStay
<1>8. SesOK' = SesOK
  BY <1>1, <1>6, ShapesStay DEF SesOK
<1>9. VerticesOK' = VerticesOK
  BY <1>7 DEF VerticesOK
<1>10. \A L : SortOK(L)' = SortOK(L)
  BY <1>1, <1>7 DEF SortOK
<1>11. GraphInv' = GraphInv
  BY <1>1, <1>8, <1>9, <1>10 DEF GraphInv
<1>12. ChannelShapes' = ChannelShapes
  BY <1>1, ChannelShapesStay
<1>13. DepthMapIsLongestChain' = DepthMapIsLongestChain
  BY <1>1, <1>12 DEF DepthMapIsLongestChain
<1>14. QED
  BY <1>5, <1>11, <1>13 DEF MtosInv

LEMMA MtosKeeps ==
    ASSUME MtosInv, [MtosNext]_mtosVars
    PROVE  MtosInv'
<1>1. CASE UNCHANGED mtosVars
  BY <1>1, MtosStays
<1>2. CASE MtosNext
  BY <1>2, TosStepKeeps, NextChannelHolds, FusionHolds, LastStepsHold DEF MtosNext
<1>3. QED
  BY <1>1, <1>2

LEMMA MtosInvHolds == MtosSpec => []MtosInv
BY MtosAtFirst, MtosKeeps, PTL DEF MtosSpec

(***************************************************************************)
(* FrontIsSound: the faces wait once, at a level of their interval, and    *)
(* the depths are those of levels of the intervals, for every image.       *)
(***************************************************************************)
THEOREM FrontIsAlwaysSound == MtosSpec => []FrontIsSound
<1>1. MtosInv => FrontIsSound
  BY FrontIsSoundThen DEF MtosInv, GrownInv
<1>2. QED
  BY <1>1, MtosInvHolds, PTL

(***************************************************************************)
(* DepthMapIsLongestChain: the depths of the faces are the lengths of the  *)
(* longest chains of shapes, whatever the trees of the three channels.     *)
(***************************************************************************)
THEOREM DepthsAreLongestChains == MtosSpec => []DepthMapIsLongestChain
<1>1. MtosInv => DepthMapIsLongestChain
  BY DEF MtosInv
<1>2. QED
  BY <1>1, MtosInvHolds, PTL
=============================================================================
