------------------------------ MODULE DataLemmas ------------------------------
(***************************************************************************)
(* Facts about the data of the models which the provers do not find by     *)
(* themselves: products, quotients and extrema of integers, induction over *)
(* naturals (over the set of those that satisfy a property, since a lemma  *)
(* that takes an operator cannot be instantiated), sequences, counting,    *)
(* sums over finite sets, connected components.                            *)
(***************************************************************************)
EXTENDS Integers, Connectivity, SequencesExt, FiniteSetTheorems, SequenceTheorems, TLAPS

LEMMA ProductsGrow ==
    ASSUME NEW a \in Int, NEW b \in Int, NEW c \in Nat \ {0}, a < b
    PROVE  a * c < b * c
<1>1. (b - a) * c > 0
  OBVIOUS
<1>2. (b - a) * c = b * c - a * c
  OBVIOUS
<1>3. a * c \in Int /\ b * c \in Int
  OBVIOUS
<1>4. QED
  BY <1>1, <1>2, <1>3

LEMMA ProductsKeep ==
    ASSUME NEW a \in Nat, NEW c \in Nat \ {0}
    PROVE  a <= a * c
<1>1. c - 1 \in Nat /\ a * (c - 1) \in Nat
  OBVIOUS
<1>2. a * c = a * (c - 1) + a
  OBVIOUS
<1>3. QED
  BY <1>1, <1>2

LEMMA HalfIsBetween ==
    ASSUME NEW a \in Nat \ {0}, a # 1
    PROVE  a \div 2 \in Int /\ 0 < a \div 2 /\ a \div 2 < a
OBVIOUS

LEMMA MultiplesAreApart ==
    ASSUME NEW a \in Int, NEW b \in Int, NEW w \in Nat \ {0},
           a % w = 0, b % w = 0, a < b
    PROVE  a + w <= b
<1>1. a = (w * (a \div w)) + (a % w) /\ b = (w * (b \div w)) + (b % w)
  OBVIOUS
<1> DEFINE p == a \div w
           q == b \div w
<1>2. p \in Int /\ q \in Int
  OBVIOUS
<1> HIDE DEF p, q
<1>3. a = w * p /\ b = w * q
  BY <1>1, <1>2 DEF p, q
<1>4. p < q
  <2>1. CASE q < p
    BY <1>2, <1>3, <2>1, ProductsGrow
  <2>2. CASE q = p
    BY <1>3, <2>2
  <2>3. QED
    BY <1>2, <2>1, <2>2
<1>5. CASE p + 1 = q
  BY <1>2, <1>3, <1>5
<1>6. CASE p + 1 < q
  <2>1. (p + 1) * w < q * w
    BY <1>2, <1>6, ProductsGrow
  <2>2. (p + 1) * w = w * p + w /\ q * w = w * q
    BY <1>2
  <2>3. QED
    BY <1>2, <1>3, <2>1, <2>2
<1>7. QED
  BY <1>2, <1>4, <1>5, <1>6

LEMMA MinOfTwo ==
    ASSUME NEW a \in Int, NEW b \in Int
    PROVE  Min({a, b}) = IF a <= b THEN a ELSE b
<1> DEFINE m == IF a <= b THEN a ELSE b
<1>1. m \in {a, b} /\ \A y \in {a, b} : m <= y
  OBVIOUS
<1>2. \A x \in {a, b} : (\A y \in {a, b} : x <= y) => x = m
  OBVIOUS
<1>3. QED
  BY <1>1, <1>2 DEF Min

LEMMA DivisionBounds ==
    ASSUME NEW a \in Int, NEW w \in Nat \ {0}
    PROVE  a \div w \in Int /\ w * (a \div w) <= a /\ a < w * (a \div w) + w
<1>1. a = (w * (a \div w)) + (a % w) /\ a % w \in 0 .. w - 1 /\ a \div w \in Int
  OBVIOUS
<1>2. w * (a \div w) \in Int
  BY <1>1
<1>3. QED
  BY <1>1, <1>2

(* The remainder of a sum is that of the sum of the remainders. *)
LEMMA RemainderIsUnique ==
    ASSUME NEW a \in Int, NEW w \in Nat \ {0}, NEW q \in Int, NEW r \in 0 .. w - 1,
           a = w * q + r
    PROVE  a % w = r
<1> DEFINE p == a \div w
           s == a % w
<1>1. p \in Int /\ s \in 0 .. w - 1 /\ a = w * p + s
  OBVIOUS
<1> HIDE DEF p, s
<1>2. w * q \in Int /\ w * p \in Int
  BY <1>1
<1>3. w * q - w * p = s - r
  BY <1>1, <1>2
<1>4. CASE p < q
  <2>1. (p + 1) * w <= q * w
    <3>1. CASE p + 1 = q
      BY <3>1
    <3>2. CASE p + 1 < q
      BY <1>1, <3>2, ProductsGrow
    <3>3. QED
      BY <1>1, <1>4, <3>1, <3>2
  <2>2. (p + 1) * w = w * p + w /\ q * w = w * q
    BY <1>1
  <2>3. QED
    BY <1>1, <1>2, <1>3, <2>1, <2>2
<1>5. CASE q < p
  <2>1. (q + 1) * w <= p * w
    <3>1. CASE q + 1 = p
      BY <3>1
    <3>2. CASE q + 1 < p
      BY <1>1, <3>2, ProductsGrow
    <3>3. QED
      BY <1>1, <1>5, <3>1, <3>2
  <2>2. (q + 1) * w = w * q + w /\ p * w = w * p
    BY <1>1
  <2>3. QED
    BY <1>1, <1>2, <1>3, <2>1, <2>2
<1>6. CASE p = q
  <2>1. s = r
    BY <1>1, <1>2, <1>3, <1>6
  <2>2. QED
    BY <2>1 DEF s
<1>7. QED
  BY <1>1, <1>4, <1>5, <1>6

LEMMA RemainderOfSum ==
    ASSUME NEW a \in Int, NEW b \in Int, NEW w \in Nat \ {0}
    PROVE  /\ a % w \in 0 .. w - 1
           /\ (a % w) % w = a % w
           /\ ((a % w) + (b % w)) % w = (a + b) % w
<1> DEFINE x == a % w
           y == b % w
           p == a \div w
           q == b \div w
<1>1. /\ p \in Int /\ x \in 0 .. w - 1 /\ a = w * p + x
      /\ q \in Int /\ y \in 0 .. w - 1 /\ b = w * q + y
  OBVIOUS
<1>2. x % w = x
  BY <1>1
<1> HIDE DEF x, y, p, q
<1> DEFINE s == (x + y) % w
           k == (x + y) \div w
<1>3. s \in 0 .. w - 1 /\ k \in Int /\ x + y = w * k + s
  BY <1>1
<1> HIDE DEF s, k
<1>4. a + b = w * (p + q + k) + s
  <2>1. w * (p + q + k) = w * p + w * q + w * k
    BY <1>1, <1>3
  <2>2. w * p \in Int /\ w * q \in Int /\ w * k \in Int
    BY <1>1, <1>3
  <2>3. QED
    BY <1>1, <1>3, <2>1, <2>2
<1>5. (a + b) % w = s
  <2>1. p + q + k \in Int /\ a + b \in Int
    BY <1>1, <1>3
  <2>2. QED
    BY <1>3, <1>4, <2>1, RemainderIsUnique
<1>6. QED
  BY <1>1, <1>2, <1>5 DEF x, y, s

LEMMA MaxOfTwo ==
    ASSUME NEW a \in Int, NEW b \in Int
    PROVE  Max({a, b}) = IF a <= b THEN b ELSE a
<1> DEFINE m == IF a <= b THEN b ELSE a
<1>1. m \in {a, b} /\ \A y \in {a, b} : y <= m
  OBVIOUS
<1>2. \A x \in {a, b} : (\A y \in {a, b} : x >= y) => x = m
  OBVIOUS
<1>3. QED
  BY <1>1, <1>2 DEF Max

(* The quotients of two numbers are as close as the numbers are. *)
LEMMA QuotientsAreClose ==
    ASSUME NEW a \in Int, NEW b \in Int, NEW w \in Nat \ {0}, a <= b + w
    PROVE  a \div w <= b \div w + 1
<1> DEFINE p == a \div w
           q == b \div w
<1>1. p \in Int /\ w * p <= a
  BY DivisionBounds
<1>2. q \in Int /\ b < w * q + w
  BY DivisionBounds
<1> HIDE DEF p, q
<1>3. w * p \in Int /\ w * q \in Int
  BY <1>1, <1>2
<1>4. ASSUME q + 1 < p PROVE FALSE
  <2>1. (q + 1) * w < p * w
    BY <1>1, <1>2, <1>4, ProductsGrow
  <2>2. (q + 1) * w = w * q + w /\ p * w = w * p
    BY <1>1, <1>2
  <2>3. ASSUME q + 2 < p PROVE FALSE
    <3>1. (q + 2) * w < p * w
      BY <1>1, <1>2, <2>3, ProductsGrow
    <3>2. (q + 2) * w = w * q + 2 * w
      BY <1>2
    <3>3. QED
      BY <1>1, <1>2, <1>3, <2>2, <3>1, <3>2
  <2>4. p = q + 2
    BY <1>1, <1>2, <1>4, <2>3
  <2>5. w * p = w * q + 2 * w
    BY <1>2, <2>4
  <2>6. QED
    BY <1>1, <1>2, <1>3, <2>5
<1>5. QED
  BY <1>1, <1>2, <1>4 DEF p, q

-----------------------------------------------------------------------------
(* A set of naturals that is not empty has a least element. *)
LEMMA LeastElement ==
    ASSUME NEW T \in SUBSET Nat, T # {}
    PROVE  \E m \in T : \A k \in T : m <= k
<1> DEFINE R == OpToRel(<, Nat)
<1>1. IsWellFoundedOn(R, Nat)
  BY NatLessThanWellFounded, Zenon
<1>2. \A x, y \in Nat : <<y, x>> \in R <=> y < x
  BY Zenon DEF OpToRel
<1> HIDE DEF R
<1>3. PICK x \in T : \A y \in T : ~(<<y, x>> \in R)
  BY <1>1, WFMin
<1>4. ASSUME NEW k \in T PROVE x <= k
  <2>1. x \in Nat /\ k \in Nat /\ ~(k < x)
    BY <1>2, <1>3
  <2>2. QED
    BY <2>1
<1>5. QED
  BY <1>4

(* Induction over the naturals. *)
LEMMA SetOfAllNaturals ==
    ASSUME NEW T \in SUBSET Nat, 0 \in T, \A n \in T : n + 1 \in T
    PROVE  T = Nat
<1> SUFFICES ASSUME Nat \ T # {} PROVE FALSE
  OBVIOUS
<1>1. PICK m \in Nat \ T : \A k \in Nat \ T : m <= k
  BY LeastElement
<1>2. m # 0 /\ m - 1 \in Nat
  BY <1>1
<1>3. m - 1 \in T
  BY <1>1, <1>2
<1>4. QED
  BY <1>1, <1>3

(* The successive values of a function exist: a recursive definition of them *)
(* is their CHOOSE.                                                          *)
IsClosed(g, S) == \A s \in S : g[s] \in S

IsIterated(u, g, x, n) == u = [j \in 0 .. n |-> IF j = 0 THEN x ELSE g[u[j - 1]]]

LEMMA IteratesExist ==
    ASSUME NEW S, NEW g, NEW x \in S, IsClosed(g, S), NEW n \in Nat
    PROVE  \E u \in [0 .. n -> S] : IsIterated(u, g, x, n)
<1> USE DEF IsClosed, IsIterated
<1> DEFINE IsIter(u, m) == IsIterated(u, g, x, m)
           T == {m \in Nat : \E u \in [0 .. m -> S] : IsIter(u, m)}
<1>1. 0 \in T
  <2> DEFINE u == [j \in 0 .. 0 |-> x]
  <2>1. u \in [0 .. 0 -> S]
    OBVIOUS
  <2>2. IsIter(u, 0)
    OBVIOUS
  <2>3. QED
    BY <2>1, <2>2
<1>2. ASSUME NEW m \in T PROVE m + 1 \in T
  <2>1. m \in Nat
    OBVIOUS
  <2>2. PICK u \in [0 .. m -> S] : IsIter(u, m)
    OBVIOUS
  <2> DEFINE v == [j \in 0 .. m + 1 |-> IF j = m + 1 THEN g[u[m]] ELSE u[j]]
  <2>3. v \in [0 .. m + 1 -> S]
    BY <2>1
  <2>4. ASSUME NEW j \in 0 .. m + 1 PROVE v[j] = IF j = 0 THEN x ELSE g[v[j - 1]]
    <3>1. CASE j = m + 1
      BY <2>1, <3>1
    <3>2. CASE j # m + 1
      <4>1. j \in 0 .. m
        BY <2>1, <3>2
      <4>2. u[j] = IF j = 0 THEN x ELSE g[u[j - 1]]
        BY <2>2, <4>1
      <4>3. j # 0 => j - 1 \in 0 .. m + 1 /\ j - 1 # m + 1
        BY <2>1, <4>1
      <4>4. QED
        BY <3>2, <4>1, <4>2, <4>3
    <3>3. QED
      BY <3>1, <3>2
  <2> HIDE DEF v
  <2>5. v = [j \in 0 .. m + 1 |-> v[j]]
    BY <2>3
  <2>6. IsIter(v, m + 1)
    BY <2>4, <2>5
  <2> HIDE DEF IsIter
  <2>7. QED
    BY <2>1, <2>3, <2>6
<1> HIDE DEF T
<1>3. T = Nat
  BY <1>1, <1>2, SetOfAllNaturals DEF T
<1>4. QED
  BY <1>3 DEF T

(* The same for steps that depend on their rank. *)
IsRecursion(u, g, x, n) ==
    u = [j \in 0 .. n |-> IF j = 0 THEN x ELSE g[<<j, u[j - 1]>>]]

LEMMA RecursionExists ==
    ASSUME NEW S, NEW g, NEW x \in S, NEW n \in Nat,
           \A j \in 1 .. n, s \in S : g[<<j, s>>] \in S
    PROVE  \E u \in [0 .. n -> S] : IsRecursion(u, g, x, n)
<1> DEFINE V == (0 .. n) \X S
           h == [e \in V |-> IF e[1] < n THEN <<e[1] + 1, g[<<e[1] + 1, e[2]>>]>> ELSE e]
<1>1. <<0, x>> \in V
  OBVIOUS
<1>2. \A e \in V : /\ h[e] \in V
                   /\ e[1] < n => h[e] = <<e[1] + 1, g[<<e[1] + 1, e[2]>>]>>
  OBVIOUS
<1>3. IsClosed(h, V)
  BY <1>2 DEF IsClosed
<1> HIDE DEF h
<1>4. PICK w \in [0 .. n -> V] : IsIterated(w, h, <<0, x>>, n)
  BY <1>1, <1>3, IteratesExist
<1>5. w[0] = <<0, x>> /\ \A j \in 1 .. n : w[j] = h[w[j - 1]]
  BY <1>4 DEF IsIterated
<1> DEFINE T == {m \in Nat : m <= n => w[m][1] = m}
<1>6. 0 \in T
  BY <1>5
<1>7. ASSUME NEW m \in T PROVE m + 1 \in T
  <2>1. m \in Nat /\ (m <= n => w[m][1] = m)
    OBVIOUS
  <2>2. CASE m + 1 <= n
    <3>1. w[m] \in V /\ w[m][1] = m /\ w[m + 1] = h[w[m]]
      <4>1. m \in 0 .. n /\ m + 1 \in 1 .. n /\ (m + 1) - 1 = m
        BY <2>1, <2>2
      <4>2. w[m] \in V
        BY <4>1
      <4>3. w[m + 1] = h[w[(m + 1) - 1]]
        BY <1>5, <4>1
      <4>4. QED
        BY <2>1, <2>2, <4>1, <4>2, <4>3
    <3>2. w[m + 1][1] = m + 1
      <4>1. w[m][1] < n
        BY <2>1, <2>2, <3>1
      <4>2. h[w[m]] = <<w[m][1] + 1, g[<<w[m][1] + 1, w[m][2]>>]>>
        BY <1>2, <3>1, <4>1
      <4>3. QED
        BY <3>1, <4>2
    <3>3. QED
      BY <2>1, <3>2
  <2>3. CASE ~(m + 1 <= n)
    BY <2>1, <2>3
  <2>4. QED
    BY <2>2, <2>3
<1> HIDE DEF T
<1>8. T = Nat
  BY <1>6, <1>7, SetOfAllNaturals DEF T
<1>9. \A m \in 0 .. n : w[m] \in V /\ w[m][1] = m
  BY <1>8 DEF T
<1> DEFINE u == [j \in 0 .. n |-> w[j][2]]
<1>10. u \in [0 .. n -> S]
  BY <1>9
<1>11. ASSUME NEW j \in 0 .. n
       PROVE  u[j] = IF j = 0 THEN x ELSE g[<<j, u[j - 1]>>]
  <2>1. CASE j = 0
    BY <1>5, <2>1
  <2>2. CASE j # 0
    <3>1. j - 1 \in 0 .. n /\ j - 1 < n /\ (j - 1) + 1 = j /\ j \in 1 .. n
      BY <2>2
    <3>2. w[j - 1] \in V /\ w[j - 1][1] = j - 1 /\ w[j] = h[w[j - 1]]
      BY <1>5, <1>9, <3>1
    <3>3. w[j][2] = g[<<j, w[j - 1][2]>>]
      <4>1. w[j - 1][1] < n
        BY <3>1, <3>2
      <4>2. h[w[j - 1]] = <<w[j - 1][1] + 1, g[<<w[j - 1][1] + 1, w[j - 1][2]>>]>>
        BY <1>2, <3>2, <4>1
      <4>3. QED
        BY <3>1, <3>2, <4>2
    <3>4. QED
      BY <2>2, <3>1, <3>3
  <2>3. QED
    BY <2>1, <2>2
<1> HIDE DEF u
<1>12. u = [j \in 0 .. n |-> u[j]]
  BY <1>10
<1>13. IsRecursion(u, g, x, n)
  BY <1>11, <1>12 DEF IsRecursion
<1>14. QED
  BY <1>10, <1>13

-----------------------------------------------------------------------------
(* The front of a sequence and its last element. *)
LEMMA FrontAndLast ==
    ASSUME NEW S, NEW s \in Seq(S), s # <<>>
    PROVE  /\ Len(s) \in Nat \ {0}
           /\ Front(s) \in Seq(S) /\ Len(Front(s)) = Len(s) - 1
           /\ \A i \in 1 .. Len(s) - 1 : Front(s)[i] = s[i]
           /\ Last(s) = s[Len(s)] /\ Last(s) \in S
<1>1. Len(s) \in Nat \ {0}
  BY EmptySeq
<1>2. \A i \in 1 .. Len(s) : s[i] \in S
  BY <1>1
<1>3. /\ Front(s) \in Seq(S) /\ Len(Front(s)) = Len(s) - 1
      /\ \A i \in 1 .. Len(s) - 1 : Front(s)[i] = s[i]
  <2> DEFINE n == Len(s) - 1
  <2>1. n \in Int /\ \A i \in 1 .. n : s[i] \in S
    BY <1>1, <1>2
  <2>2. (IF 1 <= n THEN n - 1 + 1 ELSE 0) = Len(s) - 1 /\ n - 1 + 1 = n
    BY <1>1
  <2>3. \A i \in 1 .. n : 1 + i - 1 = i
    OBVIOUS
  <2> HIDE DEF n
  <2>4. /\ SubSeq(s, 1, n) \in Seq(S)
        /\ Len(SubSeq(s, 1, n)) = IF 1 <= n THEN n - 1 + 1 ELSE 0
        /\ \A i \in 1 .. n - 1 + 1 : SubSeq(s, 1, n)[i] = s[1 + i - 1]
    BY <2>1, SubSeqProperties
  <2>5. QED
    BY <2>2, <2>3, <2>4 DEF Front, n
<1>4. QED
  BY <1>1, <1>2, <1>3 DEF Last

-----------------------------------------------------------------------------
(* Counting: a set whose elements are numbered from 0 on. *)
IsNumbering(g, S, n) ==
    /\ g \in [S -> 0 .. n - 1]
    /\ \A a, b \in S : g[a] = g[b] => a = b
    /\ \A v \in 0 .. n - 1 : \E a \in S : g[a] = v

LEMMA Counted ==
    ASSUME NEW S, NEW n \in Nat, NEW g, IsNumbering(g, S, n)
    PROVE  IsFiniteSet(S) /\ Cardinality(S) = n
<1> USE DEF IsNumbering
<1>1. IsFiniteSet(0 .. n - 1) /\ Cardinality(0 .. n - 1) = n
  BY FS_Interval
<1>2. g \in Injection(S, 0 .. n - 1) /\ g \in Surjection(S, 0 .. n - 1)
  BY DEF Injection, IsInjective, Surjection
<1>3. QED
  BY <1>1, <1>2, FS_Injection

-----------------------------------------------------------------------------
(* The sum of the values of a function over a finite set: Folds computes it *)
(* by taking elements in an order that is not known.                        *)

Taken(A) == CHOOSE x \in A : TRUE

IsSum(F, g, U) ==
    F = [A \in SUBSET U |-> IF A = {} THEN 0 ELSE g[Taken(A)] + F[A \ {Taken(A)}]]

(* An element is taken from a set that has one. *)
LEMMA TakenIsIn == \A A : A # {} => Taken(A) \in A
BY DEF Taken

(* The fold is a function that is defined by recursion over the subsets, and *)
(* there is only one: neither goes without saying for a CHOOSE.              *)
LEMMA SumExists ==
    ASSUME NEW U, IsFiniteSet(U), NEW g, \A x \in U : g[x] \in Int
    PROVE  \E F \in [SUBSET U -> Int] : IsSum(F, g, U)
<1> DEFINE Body(F, A) == IF A = {} THEN 0 ELSE g[Taken(A)] + F[A \ {Taken(A)}]
           IsSumUpTo(F, n) == \A A \in SUBSET U : Cardinality(A) <= n => F[A] = Body(F, A)
           T == {n \in Nat : \E F \in [SUBSET U -> Int] : IsSumUpTo(F, n)}
<1>1. \A A \in SUBSET U : IsFiniteSet(A) /\ Cardinality(A) \in Nat
  BY FS_Subset, FS_CardinalityType
<1>2. \A A \in SUBSET U : A # {} =>
          /\ Taken(A) \in A /\ A \ {Taken(A)} \in SUBSET U
          /\ Cardinality(A \ {Taken(A)}) = Cardinality(A) - 1
  BY <1>1, TakenIsIn, FS_RemoveElement
<1>3. ASSUME NEW F \in [SUBSET U -> Int], NEW A \in SUBSET U
      PROVE  Body(F, A) \in Int
  <2>1. CASE A = {}
    BY <2>1
  <2>2. CASE A # {}
    <3>1. g[Taken(A)] \in Int /\ F[A \ {Taken(A)}] \in Int
      BY <1>2, <2>2
    <3>2. QED
      BY <2>2, <3>1
  <2>3. QED
    BY <2>1, <2>2
<1>4. 0 \in T
  <2> DEFINE F == [A \in SUBSET U |-> 0]
  <2>1. F \in [SUBSET U -> Int]
    OBVIOUS
  <2>2. \A A \in SUBSET U : Cardinality(A) <= 0 => A = {}
    BY <1>1, FS_EmptySet
  <2>3. IsSumUpTo(F, 0)
    BY <2>2
  <2> HIDE DEF F, IsSumUpTo
  <2>4. QED
    BY <2>1, <2>3
<1>5. ASSUME NEW n \in T PROVE n + 1 \in T
  <2>1. PICK F \in [SUBSET U -> Int] : IsSumUpTo(F, n)
    OBVIOUS
  <2> DEFINE G == [A \in SUBSET U |-> Body(F, A)]
  <2>2. G \in [SUBSET U -> Int]
    BY <1>3
  <2>3. ASSUME NEW A \in SUBSET U, Cardinality(A) <= n + 1
        PROVE  G[A] = Body(G, A)
    <3>1. CASE A = {}
      BY <3>1
    <3>2. CASE A # {}
      <4> DEFINE B == A \ {Taken(A)}
      <4>1. B \in SUBSET U /\ Cardinality(B) <= n
        BY <1>1, <1>2, <2>3, <3>2
      <4>2. F[B] = G[B]
        BY <2>1, <4>1
      <4>3. QED
        BY <3>2, <4>2
    <3>3. QED
      BY <3>1, <3>2
  <2>4. IsSumUpTo(G, n + 1)
    BY <2>3
  <2>5. n + 1 \in Nat
    OBVIOUS
  <2> HIDE DEF G, IsSumUpTo
  <2>6. QED
    BY <2>2, <2>4, <2>5
<1> HIDE DEF T
<1>6. T = Nat
  BY <1>4, <1>5, SetOfAllNaturals DEF T
<1>7. Cardinality(U) \in T
  BY <1>1, <1>6
<1>8. PICK F \in [SUBSET U -> Int] : IsSumUpTo(F, Cardinality(U))
  BY <1>7 DEF T
<1>9. \A A \in SUBSET U : F[A] = Body(F, A)
  BY <1>1, <1>8, FS_Subset
<1>10. F = [A \in SUBSET U |-> F[A]]
  OBVIOUS
<1>11. QED
  BY <1>9, <1>10 DEF IsSum

(* Two such functions agree where both are defined. *)
LEMMA SumIsUnique ==
    ASSUME NEW g, NEW U, NEW V, NEW F, NEW G, IsSum(F, g, U), IsSum(G, g, V),
           NEW A \in SUBSET U, A \in SUBSET V, IsFiniteSet(A)
    PROVE  F[A] = G[A]
<1> DEFINE T == {n \in Nat : \A B \in SUBSET A : Cardinality(B) = n => F[B] = G[B]}
<1>1. \A B \in SUBSET A : IsFiniteSet(B) /\ Cardinality(B) \in Nat
  BY FS_Subset, FS_CardinalityType
<1>2. /\ \A B \in SUBSET A : F[B] = IF B = {} THEN 0 ELSE g[Taken(B)] + F[B \ {Taken(B)}]
      /\ \A B \in SUBSET A : G[B] = IF B = {} THEN 0 ELSE g[Taken(B)] + G[B \ {Taken(B)}]
  BY DEF IsSum
<1>3. 0 \in T
  BY <1>1, <1>2, FS_EmptySet
<1>4. ASSUME NEW n \in T PROVE n + 1 \in T
  <2>1. ASSUME NEW B \in SUBSET A, Cardinality(B) = n + 1
        PROVE  F[B] = G[B]
    <3>1. n \in Nat
      OBVIOUS
    <3>2. B # {}
      <4>1. Cardinality({}) = 0 /\ n + 1 # 0
        BY <3>1, FS_EmptySet
      <4>2. QED
        BY <2>1, <4>1
    <3>3. Taken(B) \in B /\ B \ {Taken(B)} \in SUBSET A
      BY <3>2, TakenIsIn
    <3>4. Cardinality(B \ {Taken(B)}) = n
      <4> DEFINE x == Taken(B)
      <4>1. x \in B /\ IsFiniteSet(B)
        BY <1>1, <2>1, <3>3
      <4> HIDE DEF x
      <4>2. Cardinality(B \ {x}) = Cardinality(B) - 1
        BY <4>1, FS_RemoveElement
      <4>3. QED
        BY <2>1, <3>1, <4>2 DEF x
    <3>5. F[B \ {Taken(B)}] = G[B \ {Taken(B)}]
      BY <3>3, <3>4
    <3>6. QED
      BY <1>2, <3>2, <3>5
  <2>2. QED
    BY <2>1
<1> HIDE DEF T
<1>5. T = Nat
  BY <1>3, <1>4, SetOfAllNaturals DEF T
<1>6. QED
  BY <1>1, <1>5 DEF T

(* What the fold computes, for every part of a set. *)
LEMMA SumIsFold ==
    ASSUME NEW U, IsFiniteSet(U), NEW g, \A x \in U : g[x] \in Int,
           NEW A \in SUBSET U, NEW F, IsSum(F, g, U)
    PROVE  SumFunctionOnSet(g, A) = F[A]
<1> DEFINE iter == CHOOSE G : IsSum(G, g, A)
<1>1. IsFiniteSet(A)
  BY FS_Subset
<1>2. IsSum(iter, g, A)
  BY <1>1, SumExists
<1>3. SumFunctionOnSet(g, A) = iter[A]
  BY DEF SumFunctionOnSet, FoldFunctionOnSet, MapThenFoldSet, IsSum, Taken
<1> HIDE DEF iter
<1>4. QED
  BY <1>1, <1>2, <1>3, SumIsUnique

(* The sum of integers is an integer. *)
LEMMA SumIsInteger ==
    ASSUME NEW U, IsFiniteSet(U), NEW g, \A x \in U : g[x] \in Int
    PROVE  SumFunctionOnSet(g, U) \in Int
<1>1. PICK F \in [SUBSET U -> Int] : IsSum(F, g, U)
  BY SumExists
<1>2. SumFunctionOnSet(g, U) = F[U]
  BY <1>1, SumIsFold
<1>3. QED
  BY <1>2

(* The order does not matter: any element may be added last. *)
LEMMA SumOfElement ==
    ASSUME NEW U, IsFiniteSet(U), NEW g, \A x \in U : g[x] \in Int,
           NEW y \in U
    PROVE  SumFunctionOnSet(g, U) = g[y] + SumFunctionOnSet(g, U \ {y})
<1>1. PICK F \in [SUBSET U -> Int] : IsSum(F, g, U)
  BY SumExists
<1>2. \A A \in SUBSET U : SumFunctionOnSet(g, A) = F[A]
  BY <1>1, SumIsFold
<1>3. \A A \in SUBSET U : F[A] = IF A = {} THEN 0 ELSE g[Taken(A)] + F[A \ {Taken(A)}]
  BY <1>1 DEF IsSum
<1>4. \A A \in SUBSET U : IsFiniteSet(A) /\ Cardinality(A) \in Nat
  BY FS_Subset, FS_CardinalityType
<1> DEFINE T == {n \in Nat : \A A \in SUBSET U : Cardinality(A) = n =>
                                \A x \in A : F[A] = g[x] + F[A \ {x}]}
<1>5. 0 \in T
  BY <1>4, FS_EmptySet
<1>6. ASSUME NEW n \in T PROVE n + 1 \in T
  <2>1. ASSUME NEW A \in SUBSET U, Cardinality(A) = n + 1, NEW x \in A
        PROVE  F[A] = g[x] + F[A \ {x}]
    <3> DEFINE t == Taken(A)
               B == A \ {t}
               C == A \ {x}
               D == (A \ {t}) \ {x}
    <3>1. t \in A /\ A # {} /\ n \in Nat
      BY <2>1, TakenIsIn
    <3> HIDE DEF t
    <3>2. B \in SUBSET U /\ C \in SUBSET U /\ D \in SUBSET U
      OBVIOUS
    <3>3. Cardinality(B) = n /\ Cardinality(C) = n
      <4>1. IsFiniteSet(A)
        BY <1>4
      <4>2. Cardinality(B) = Cardinality(A) - 1 /\ Cardinality(C) = Cardinality(A) - 1
        BY <3>1, <4>1, FS_RemoveElement
      <4>3. QED
        BY <2>1, <3>1, <4>2
    <3>4. F[A] = g[t] + F[B]
      BY <1>3, <3>1 DEF t
    <3>5. CASE x = t
      BY <3>4, <3>5
    <3>6. CASE x # t
      <4>1. F[B] = g[x] + F[D]
        BY <3>1, <3>2, <3>3, <3>6
      <4>2. F[C] = g[t] + F[C \ {t}]
        BY <3>1, <3>2, <3>3, <3>6
      <4>3. C \ {t} = D
        OBVIOUS
      <4>4. g[x] \in Int /\ g[t] \in Int /\ F[D] \in Int
        BY <3>1, <3>2
      <4>5. F[C] = g[t] + F[D]
        BY <4>2, <4>3
      <4> HIDE DEF B, C, D
      <4>6. F[A] = g[x] + F[C]
        BY <3>4, <4>1, <4>4, <4>5
      <4>7. QED
        BY <4>6 DEF C
    <3>7. QED
      BY <3>5, <3>6
  <2>2. QED
    BY <2>1
<1> HIDE DEF T
<1>7. T = Nat
  BY <1>5, <1>6, SetOfAllNaturals DEF T
<1>8. F[U] = g[y] + F[U \ {y}]
  BY <1>4, <1>7 DEF T
<1>9. QED
  BY <1>2, <1>8

(* The sum over no element. *)
LEMMA SumOfNothing == \A g : SumFunctionOnSet(g, {}) = 0
<1> SUFFICES ASSUME NEW g PROVE SumFunctionOnSet(g, {}) = 0
  OBVIOUS
<1>1. PICK F \in [SUBSET {} -> Int] : IsSum(F, g, {})
  BY SumExists, FS_EmptySet
<1>2. SumFunctionOnSet(g, {}) = F[{}]
  BY <1>1, SumIsFold, FS_EmptySet
<1>3. F[{}] = 0
  BY <1>1 DEF IsSum
<1>4. QED
  BY <1>2, <1>3

-----------------------------------------------------------------------------
(* The component of a point is the least set that contains it and that no   *)
(* pair of adj leaves inside of S.                                           *)
NoPairLeaves(T, S, adj) == \A o \in T, r \in S : <<o, r>> \in adj => r \in T

IsComponent(C, S, q, adj) ==
    /\ C \subseteq S
    /\ q \in C
    /\ NoPairLeaves(C, S, adj)
    /\ \A T : q \in T /\ NoPairLeaves(T, S, adj) => C \subseteq T

LEMMA ComponentIs ==
    ASSUME NEW S, IsFiniteSet(S), NEW q \in S, NEW adj
    PROVE  IsComponent(Component(S, q, adj), S, q, adj)
<1> DEFINE n == Cardinality(S)
           grow == [A \in SUBSET S |-> {r \in S : \E o \in A : o = r \/ <<o, r>> \in adj}]
           next(A) == UNION {{r \in S : \E o \in near : o = r \/ <<o, r>> \in adj} : near \in {A}}
           Is(u) == u = [m \in 0 .. n |-> IF m = 0 THEN {q} ELSE next(u[m - 1])]
           reach == CHOOSE u : Is(u)
<1>1. Component(S, q, adj) = reach[n]
  BY DEF Component
<1>2. n \in Nat
  BY FS_CardinalityType
<1>3. \A A \in SUBSET S : grow[A] \in SUBSET S /\ next(A) = grow[A]
  OBVIOUS
<1> HIDE DEF grow, next
<1>4. \E u \in [0 .. n -> SUBSET S] : Is(u)
  <2>1. IsClosed(grow, SUBSET S) /\ {q} \in SUBSET S
    BY <1>3 DEF IsClosed
  <2> HIDE DEF n
  <2>2. PICK u \in [0 .. n -> SUBSET S] : IsIterated(u, grow, {q}, n)
    BY <1>2, <2>1, IteratesExist
  <2>3. \A m \in 0 .. n : m # 0 => grow[u[m - 1]] = next(u[m - 1])
    BY <1>2, <1>3, <2>2
  <2>4. u = [m \in 0 .. n |-> IF m = 0 THEN {q} ELSE grow[u[m - 1]]]
    BY <2>2 DEF IsIterated
  <2>5. Is(u)
    BY <2>3, <2>4
  <2>6. QED
    BY <2>5
<1> HIDE DEF n
<1>5. Is(reach)
  <2> HIDE DEF Is
  <2>1. QED
    BY <1>4
<1> HIDE DEF reach
<1>6. reach[0] = {q} /\ \A m \in 0 .. n - 1 : reach[m + 1] = next(reach[m])
  <2>1. \A m \in 0 .. n : reach[m] = IF m = 0 THEN {q} ELSE next(reach[m - 1])
    BY <1>5
  <2>2. 0 \in 0 .. n /\ \A m \in 0 .. n - 1 : m + 1 \in 0 .. n /\ m + 1 # 0 /\ m + 1 - 1 = m
    BY <1>2
  <2>3. QED
    BY <2>1, <2>2
<1> HIDE DEF Is
(* As long as the set grows it gains a point. *)
<1> DEFINE Sized(A, m) == /\ A \in SUBSET S /\ q \in A
                          /\ grow[A] = A \/ Cardinality(A) > m
           Least(A) == \A T : q \in T /\ NoPairLeaves(T, S, adj) => A \subseteq T
<1>7. ASSUME NEW A \in SUBSET S PROVE A \subseteq grow[A]
  BY DEF grow
<1>8. ASSUME NEW m \in Nat, NEW A, Sized(A, m) PROVE Sized(grow[A], m + 1)
  <2>1. grow[A] \in SUBSET S /\ q \in grow[A]
    BY <1>3, <1>7, <1>8
  <2>2. CASE grow[A] = A
    BY <1>8, <2>2
  <2>3. CASE grow[A] # A
    <3>1. IsFiniteSet(grow[A]) /\ IsFiniteSet(A)
      BY <1>8, <2>1, FS_Subset
    <3>2. A \in SUBSET grow[A]
      BY <1>7, <1>8
    <3>3. Cardinality(A) \in Nat /\ Cardinality(grow[A]) \in Nat
      BY <3>1, FS_CardinalityType
    <3>4. Cardinality(A) <= Cardinality(grow[A]) /\ Cardinality(grow[A]) # Cardinality(A)
      BY <2>3, <3>1, <3>2, FS_Subset
    <3>5. Cardinality(A) > m
      BY <1>8, <2>3
    <3>6. Cardinality(grow[A]) > m + 1
      BY <3>3, <3>4, <3>5
    <3>7. QED
      BY <2>1, <3>6
  <2>4. QED
    BY <2>2, <2>3
<1>9. ASSUME NEW A \in SUBSET S, Least(A) PROVE Least(grow[A])
  BY <1>9 DEF grow, NoPairLeaves
<1>10. Sized({q}, 0) /\ Least({q})
  <2>1. Cardinality({q}) = 1
    BY FS_Singleton
  <2>2. QED
    BY <2>1
<1> DEFINE Done == {m \in Nat : m <= n => Sized(reach[m], m) /\ Least(reach[m])}
<1>11. 0 \in Done
  BY <1>6, <1>10
<1>12. ASSUME NEW m \in Done PROVE m + 1 \in Done
  <2> HIDE DEF Sized, Least
  <2>1. m \in Nat
    OBVIOUS
  <2> SUFFICES ASSUME m + 1 <= n PROVE Sized(reach[m + 1], m + 1) /\ Least(reach[m + 1])
    BY <2>1
  <2>2. m \in 0 .. n - 1 /\ m <= n
    BY <1>2, <2>1
  <2>3. Sized(reach[m], m) /\ Least(reach[m])
    BY <2>2
  <2>4. reach[m] \in SUBSET S
    BY <2>3 DEF Sized
  <2>5. reach[m + 1] = grow[reach[m]]
    BY <1>3, <1>6, <2>2, <2>4
  <2>6. QED
    BY <1>8, <1>9, <2>1, <2>3, <2>4, <2>5
<1> HIDE DEF Done
<1>13. Done = Nat
  BY <1>11, <1>12, SetOfAllNaturals DEF Done
<1> DEFINE C == reach[n]
<1>14. Sized(C, n) /\ Least(C)
  <2> HIDE DEF Sized, Least
  <2>1. QED
    BY <1>2, <1>13 DEF Done
<1> HIDE DEF C
<1>15. grow[C] = C
  <2>1. Cardinality(C) <= n
    BY <1>14, FS_Subset DEF n
  <2>2. Cardinality(C) \in Nat
    BY <1>14, FS_Subset, FS_CardinalityType
  <2>3. QED
    BY <1>2, <1>14, <2>1, <2>2
<1>16. NoPairLeaves(C, S, adj)
  BY <1>14, <1>15 DEF grow, NoPairLeaves
<1>17. QED
  BY <1>1, <1>14, <1>16 DEF IsComponent, C

-----------------------------------------------------------------------------
(* How many cells of a sequence hold an element of a set. *)
Occ(s, T) == Cardinality({a \in DOMAIN s : s[a] \in T})

LEMMA OccIsNatural ==
    ASSUME NEW S, NEW s \in Seq(S), NEW T
    PROVE  /\ Occ(s, T) \in Nat
           /\ IsFiniteSet({a \in DOMAIN s : s[a] \in T})
<1>1. DOMAIN s = 1 .. Len(s) /\ Len(s) \in Nat
  BY LenProperties
<1>2. IsFiniteSet(1 .. Len(s))
  BY <1>1, FS_Interval
<1> DEFINE A == {a \in DOMAIN s : s[a] \in T}
<1>3. A \in SUBSET (1 .. Len(s))
  BY <1>1
<1> HIDE DEF A
<1>4. IsFiniteSet(A)
  BY <1>2, <1>3, FS_Subset
<1>5. QED
  BY <1>4, FS_CardinalityType DEF Occ, A

(* A set of integers that is moved has as many elements. *)
LEMMA MovedCount ==
    ASSUME NEW A \in SUBSET Int, IsFiniteSet(A), NEW k \in Int, NEW B,
           B = {a + k : a \in A}
    PROVE  IsFiniteSet(B) /\ Cardinality(B) = Cardinality(A)
<1> DEFINE m == [a \in A |-> a + k]
<1>1. m \in Bijection(A, B)
  <2>1. m \in [A -> B]
    OBVIOUS
  <2>2. ASSUME NEW a \in A, NEW b \in A, m[a] = m[b] PROVE a = b
    <3>1. a \in Int /\ b \in Int /\ k \in Int /\ a + k = b + k
      BY <2>2
    <3>2. QED
      BY ONLY <3>1
  <2>3. \A b \in B : \E a \in A : m[a] = b
    OBVIOUS
  <2>4. QED
    BY <2>1, <2>2, <2>3 DEF Bijection, Injection, IsInjective, Surjection
<1>2. ExistsBijection(A, B)
  BY <1>1 DEF ExistsBijection
<1>3. QED
  BY <1>2, FS_Bijection

LEMMA OccConcat ==
    ASSUME NEW S, NEW s \in Seq(S), NEW r \in Seq(S), NEW T
    PROVE  Occ(s \o r, T) = Occ(s, T) + Occ(r, T)
<1> DEFINE n == Len(s)
           A == {a \in DOMAIN s : s[a] \in T}
           B == {a \in DOMAIN r : r[a] \in T}
           C == {a + n : a \in B}
           D == {a \in DOMAIN (s \o r) : (s \o r)[a] \in T}
<1>1. /\ n \in Nat /\ Len(r) \in Nat /\ DOMAIN s = 1 .. n /\ DOMAIN r = 1 .. Len(r)
      /\ DOMAIN (s \o r) = 1 .. n + Len(r)
      /\ \A i \in 1 .. n + Len(r) : (s \o r)[i] = IF i <= n THEN s[i] ELSE r[i - n]
  BY LenProperties, ConcatProperties
<1>2. IsFiniteSet(A) /\ IsFiniteSet(B)
  BY OccIsNatural
<1> HIDE DEF n
<1>3. A \in SUBSET (1 .. n) /\ B \in SUBSET (1 .. Len(r))
  BY <1>1
<1>4. D = A \cup C
  <2>1. ASSUME NEW a \in D PROVE a \in A \cup C
    <3>1. a \in 1 .. n + Len(r)
      BY <1>1, <2>1
    <3>2. CASE a <= n
      BY <1>1, <2>1, <3>1, <3>2
    <3>3. CASE ~(a <= n)
      <4>1. a - n \in 1 .. Len(r) /\ a = (a - n) + n
        BY <1>1, <3>1, <3>3
      <4>4. r[a - n] \in T
        <5>1. (s \o r)[a] \in T
          BY <2>1
        <5>2. QED
          BY <1>1, <3>1, <3>3, <5>1
      <4>2. a - n \in B
        BY <1>1, <4>1, <4>4
      <4>3. QED
        BY <4>1, <4>2
    <3>4. QED
      BY <3>2, <3>3
  <2>2. ASSUME NEW a \in A PROVE a \in D
    <3>1. a \in 1 .. n + Len(r) /\ a <= n /\ s[a] \in T
      BY <1>1, <2>2
    <3>2. (s \o r)[a] = s[a]
      BY <1>1, <3>1
    <3>3. QED
      BY <1>1, <3>1, <3>2
  <2>3. ASSUME NEW b \in B PROVE b + n \in D
    <3>1. b + n \in 1 .. n + Len(r) /\ ~(b + n <= n) /\ (b + n) - n = b /\ r[b] \in T
      BY <1>1, <2>3
    <3>2. (s \o r)[b + n] = r[b]
      BY <1>1, <3>1
    <3>3. QED
      BY <1>1, <3>1, <3>2
  <2>4. QED
    BY <2>1, <2>2, <2>3
<1> HIDE DEF A, B, D
<1>5. IsFiniteSet(C) /\ Cardinality(C) = Cardinality(B)
  <2>1. B \in SUBSET Int /\ n \in Int
    BY <1>1, <1>3
  <2>2. QED
    BY <1>2, <2>1, MovedCount
<1>6. A \cap C = {}
  BY <1>1, <1>3
<1> HIDE DEF C
<1>7. Cardinality(D) = Cardinality(A) + Cardinality(C) - Cardinality({})
  BY <1>2, <1>4, <1>5, <1>6, FS_Union
<1>8. Cardinality({}) = 0 /\ Cardinality(A) \in Nat /\ Cardinality(C) \in Nat
  BY <1>2, <1>5, FS_EmptySet, FS_CardinalityType
<1>9. Cardinality(D) = Cardinality(A) + Cardinality(B)
  BY <1>5, <1>7, <1>8
<1>10. QED
  BY <1>9 DEF Occ, A, B, D

LEMMA OccEmpty == \A T : Occ(<<>>, T) = 0
<1> SUFFICES ASSUME NEW T PROVE Occ(<<>>, T) = 0
  OBVIOUS
<1>1. {a \in DOMAIN <<>> : (<<>>)[a] \in T} = {}
  <2>1. DOMAIN <<>> = {}
    OBVIOUS
  <2>2. QED
    BY <2>1
<1>2. QED
  BY <1>1, FS_EmptySet DEF Occ

LEMMA OccSingle ==
    ASSUME NEW f, NEW T
    PROVE  Occ(<<f>>, T) = IF f \in T THEN 1 ELSE 0
<1>1. DOMAIN <<f>> = {1} /\ (<<f>>)[1] = f
  OBVIOUS
<1>2. {a \in DOMAIN <<f>> : (<<f>>)[a] \in T} = IF f \in T THEN {1} ELSE {}
  BY <1>1
<1>3. QED
  BY <1>2, FS_EmptySet, FS_Singleton DEF Occ

LEMMA OccAppend ==
    ASSUME NEW S, NEW s \in Seq(S), NEW f \in S, NEW T
    PROVE  Occ(Append(s, f), T) = Occ(s, T) + (IF f \in T THEN 1 ELSE 0)
<1>1. Append(s, f) = s \o <<f>> /\ <<f>> \in Seq(S)
  BY AppendIsConcat
<1>2. Occ(s \o <<f>>, T) = Occ(s, T) + Occ(<<f>>, T)
  BY <1>1, OccConcat
<1>3. QED
  BY <1>1, <1>2, OccSingle

(* The same cells: as many. *)
LEMMA OccSame ==
    ASSUME NEW s, NEW r, DOMAIN s = DOMAIN r, NEW T, NEW U,
           \A a \in DOMAIN s : s[a] \in T <=> r[a] \in U
    PROVE  Occ(s, T) = Occ(r, U)
<1>1. {a \in DOMAIN s : s[a] \in T} = {a \in DOMAIN r : r[a] \in U}
  OBVIOUS
<1>2. QED
  BY <1>1 DEF Occ

LEMMA OccAll ==
    ASSUME NEW S, NEW s \in Seq(S)
    PROVE  Occ(s, S) = Len(s)
<1>1. Len(s) \in Nat /\ DOMAIN s = 1 .. Len(s)
  BY LenProperties
<1>2. {a \in DOMAIN s : s[a] \in S} = 1 .. Len(s)
  BY <1>1, ElementOfSeq
<1>3. Cardinality(1 .. Len(s)) = IF 1 > Len(s) THEN 0 ELSE Len(s) - 1 + 1
  BY <1>1, FS_Interval
<1>4. Cardinality(1 .. Len(s)) = Len(s)
  BY <1>1, <1>3
<1>5. QED
  BY <1>2, <1>4 DEF Occ

LEMMA OccNone ==
    ASSUME NEW s, NEW T, \A a \in DOMAIN s : s[a] \notin T
    PROVE  Occ(s, T) = 0
<1>1. {a \in DOMAIN s : s[a] \in T} = {}
  OBVIOUS
<1>2. QED
  BY <1>1, FS_EmptySet DEF Occ

(* The successive results of FlattenSeq. *)
IsFlattening(F, ss) ==
    F = [i \in 1 .. Len(ss) |-> IF i = 1 THEN ss[1] ELSE F[i - 1] \o ss[i]]

LEMMA FlattenIs ==
    ASSUME NEW S, NEW ss \in Seq(Seq(S)), ss # <<>>
    PROVE  \E F \in [1 .. Len(ss) -> Seq(S)] :
              /\ F[1] = ss[1]
              /\ \A i \in 2 .. Len(ss) : F[i] = F[i - 1] \o ss[i]
              /\ FlattenSeq(ss) = F[Len(ss)]
<1> DEFINE n == Len(ss)
           Q == Seq(S)
           flatten == CHOOSE F : IsFlattening(F, ss)
<1>1. n \in Nat \ {0} /\ \A i \in 1 .. n : ss[i] \in Q
  BY EmptySeq, ElementOfSeq
<1>2. FlattenSeq(ss) = flatten[n]
  BY <1>1 DEF FlattenSeq, IsFlattening
<1> DEFINE g == [e \in (1 .. n) \X Q |-> e[2] \o ss[e[1]]]
<1>3. \A j \in 1 .. n, s \in Q : g[<<j, s>>] \in Q /\ g[<<j, s>>] = s \o ss[j]
  BY <1>1, ConcatProperties
<1>4. <<>> \in Q
  BY EmptySeq
<1> HIDE DEF g, n, Q, flatten
<1>5. PICK u \in [0 .. n -> Q] : IsRecursion(u, g, <<>>, n)
  BY <1>1, <1>3, <1>4, RecursionExists
<1>6. u[0] = <<>> /\ \A j \in 1 .. n : u[j] = u[j - 1] \o ss[j]
  <2>1. \A j \in 1 .. n : u[j] = g[<<j, u[j - 1]>>] /\ u[j - 1] \in Q
    BY <1>1, <1>5 DEF IsRecursion
  <2>2. u[0] = <<>>
    BY <1>1, <1>5 DEF IsRecursion
  <2>3. QED
    BY <1>3, <2>1, <2>2
<1>7. u[1] = ss[1]
  <2>1. 1 \in 1 .. n /\ 1 - 1 = 0
    BY <1>1
  <2>2. u[1] = <<>> \o ss[1] /\ ss[1] \in Q
    BY <1>1, <1>6, <2>1
  <2>3. QED
    BY <2>2, ConcatEmptySeq DEF Q
<1> DEFINE F == [i \in 1 .. n |-> u[i]]
<1>8. \A i \in 1 .. n : F[i] = IF i = 1 THEN ss[1] ELSE F[i - 1] \o ss[i]
  <2>1. SUFFICES ASSUME NEW i \in 1 .. n, i # 1 PROVE F[i] = F[i - 1] \o ss[i]
    BY <1>1, <1>7
  <2>2. i - 1 \in 1 .. n
    BY <1>1, <2>1
  <2>3. QED
    BY <1>6, <2>1, <2>2
<1>9. IsFlattening(F, ss)
  BY <1>8 DEF IsFlattening, n
<1>10. IsFlattening(flatten, ss)
  BY <1>9 DEF flatten
<1> HIDE DEF F
<1>11. /\ flatten = [i \in 1 .. n |-> flatten[i]]
       /\ flatten[1] = ss[1]
       /\ \A i \in 2 .. n : flatten[i] = flatten[i - 1] \o ss[i]
  <2>1. flatten = [i \in 1 .. n |-> IF i = 1 THEN ss[1] ELSE flatten[i - 1] \o ss[i]]
    BY <1>10 DEF IsFlattening, n
  <2>2. 1 \in 1 .. n
    BY <1>1
  <2>3. flatten[1] = ss[1]
    BY <2>1, <2>2
  <2>4. ASSUME NEW i \in 2 .. n PROVE flatten[i] = flatten[i - 1] \o ss[i]
    <3>1. i \in 1 .. n /\ i # 1
      BY <1>1
    <3>2. QED
      BY <2>1, <3>1
  <2>5. flatten = [i \in 1 .. n |-> flatten[i]]
    BY <2>1
  <2>6. QED
    BY <2>3, <2>4, <2>5
<1> DEFINE T == {m \in Nat : m + 1 \in 1 .. n => flatten[m + 1] \in Q}
<1>12. 0 \in T
  <2>1. 0 + 1 = 1 /\ 1 \in 1 .. n
    BY <1>1
  <2>2. flatten[1] \in Q
    BY <1>1, <1>11, <2>1
  <2>3. QED
    BY <2>1, <2>2
<1>13. ASSUME NEW m \in T PROVE m + 1 \in T
  <2>1. m \in Nat /\ m + 1 \in Nat
    OBVIOUS
  <2>2. SUFFICES ASSUME (m + 1) + 1 \in 1 .. n PROVE flatten[(m + 1) + 1] \in Q
    BY <2>1
  <2>3. m + 1 \in 1 .. n /\ (m + 1) + 1 \in 2 .. n /\ ((m + 1) + 1) - 1 = m + 1
    BY <1>1, <2>1, <2>2
  <2>4. flatten[m + 1] \in Q
    BY <2>3
  <2>5. flatten[(m + 1) + 1] = flatten[m + 1] \o ss[(m + 1) + 1] /\ ss[(m + 1) + 1] \in Q
    BY <1>1, <1>11, <2>2, <2>3
  <2>6. QED
    BY <2>4, <2>5, ConcatProperties DEF Q
<1> HIDE DEF T
<1>14. T = Nat
  BY <1>12, <1>13, SetOfAllNaturals DEF T
<1>15. ASSUME NEW i \in 1 .. n PROVE flatten[i] \in Q
  <2>1. i - 1 \in T /\ (i - 1) + 1 = i
    BY <1>1, <1>14
  <2>2. QED
    BY <2>1 DEF T
<1>16. flatten \in [1 .. n -> Q]
  BY <1>11, <1>15
<1>17. QED
  BY <1>2, <1>11, <1>16 DEF n, Q

LEMMA FlattenType ==
    ASSUME NEW S, NEW ss \in Seq(Seq(S)), ss # <<>>
    PROVE  FlattenSeq(ss) \in Seq(S)
<1>1. Len(ss) \in Nat \ {0}
  BY EmptySeq
<1>2. PICK F \in [1 .. Len(ss) -> Seq(S)] :
         /\ F[1] = ss[1]
         /\ \A i \in 2 .. Len(ss) : F[i] = F[i - 1] \o ss[i]
         /\ FlattenSeq(ss) = F[Len(ss)]
  BY FlattenIs
<1>3. Len(ss) \in 1 .. Len(ss)
  BY <1>1
<1>4. F[Len(ss)] \in Seq(S)
  BY <1>3, Zenon
<1>5. QED
  BY <1>2, <1>4

(* Induction over the first naturals. *)
LEMMA InductionUpTo ==
    ASSUME NEW n \in Nat \ {0}, NEW P,
           1 \in P, \A i \in 2 .. n : i - 1 \in P => i \in P
    PROVE  \A i \in 1 .. n : i \in P
<1> DEFINE T == {m \in Nat : m + 1 \in 1 .. n => m + 1 \in P}
<1>1. 0 \in T
  OBVIOUS
<1>2. ASSUME NEW m \in T PROVE m + 1 \in T
  <2>1. m \in Nat /\ m + 1 \in Nat
    OBVIOUS
  <2>2. SUFFICES ASSUME (m + 1) + 1 \in 1 .. n PROVE (m + 1) + 1 \in P
    BY <2>1
  <2>3. m + 1 \in 1 .. n /\ (m + 1) + 1 \in 2 .. n /\ ((m + 1) + 1) - 1 = m + 1
    BY <2>1, <2>2
  <2>4. m + 1 \in P
    BY <2>3
  <2>5. ((m + 1) + 1) - 1 \in P
    BY <2>3, <2>4
  <2>6. QED
    BY <2>3, <2>5
<1> HIDE DEF T
<1>3. T = Nat
  BY <1>1, <1>2, SetOfAllNaturals DEF T
<1>4. ASSUME NEW i \in 1 .. n PROVE i \in P
  <2>1. i - 1 \in T /\ (i - 1) + 1 = i
    BY <1>3
  <2>2. QED
    BY <2>1 DEF T
<1>5. QED
  BY <1>4

(* The successive counts. *)
AreCounts(c, ss, n, T) ==
    /\ c[1] = Occ(ss[1], T)
    /\ \A i \in 2 .. n : c[i] = c[i - 1] + Occ(ss[i], T)
    /\ Occ(FlattenSeq(ss), T) = c[n]

LEMMA FlattenCounts ==
    ASSUME NEW S, NEW n \in Nat \ {0}, NEW ss \in [1 .. n -> Seq(S)], NEW T
    PROVE  \E c \in [1 .. n -> Nat] : AreCounts(c, ss, n, T)
<1>1. ss \in Seq(Seq(S)) /\ Len(ss) = n /\ ss # <<>>
  <2>1. ss \in Seq(Seq(S)) /\ Len(ss) = n
    OBVIOUS
  <2>2. QED
    BY <2>1, EmptySeq
<1>2. PICK F \in [1 .. Len(ss) -> Seq(S)] :
         /\ F[1] = ss[1]
         /\ \A i \in 2 .. Len(ss) : F[i] = F[i - 1] \o ss[i]
         /\ FlattenSeq(ss) = F[Len(ss)]
  BY <1>1, FlattenIs
<1> DEFINE c == [i \in 1 .. n |-> Occ(F[i], T)]
<1>3. ASSUME NEW i \in 1 .. n PROVE F[i] \in Seq(S) /\ ss[i] \in Seq(S) /\ c[i] \in Nat
  <2>1. F[i] \in Seq(S) /\ ss[i] \in Seq(S)
    BY <1>1, <1>2
  <2>2. Occ(F[i], T) \in Nat
    BY <2>1, OccIsNatural
  <2>3. QED
    BY <2>1, <2>2
<1>4. ASSUME NEW i \in 2 .. n PROVE c[i] = c[i - 1] + Occ(ss[i], T)
  <2>1. i \in 1 .. n /\ i - 1 \in 1 .. n
    OBVIOUS
  <2>2. Occ(F[i - 1] \o ss[i], T) = Occ(F[i - 1], T) + Occ(ss[i], T)
    <3>1. F[i - 1] \in Seq(S) /\ ss[i] \in Seq(S)
      BY <1>3, <2>1
    <3> DEFINE a == F[i - 1]
               b == ss[i]
    <3> HIDE DEF a, b
    <3>2. Occ(a \o b, T) = Occ(a, T) + Occ(b, T)
      BY <3>1, OccConcat DEF a, b
    <3>3. QED
      BY <3>2 DEF a, b
  <2>3. F[i] = F[i - 1] \o ss[i]
    BY <1>1, <1>2
  <2>4. QED
    BY <2>1, <2>2, <2>3
<1>5. c[1] = Occ(ss[1], T) /\ Occ(FlattenSeq(ss), T) = c[n]
  BY <1>1, <1>2
<1>6. c \in [1 .. n -> Nat]
  BY <1>3
<1> HIDE DEF c
<1>7. QED
  BY <1>4, <1>5, <1>6 DEF AreCounts

(* The families of sequences.  (A name, which the provers match.) *)
Family(S, n) == [1 .. n -> Seq(S)]

LEMMA FamilyIs ==
    ASSUME NEW S, NEW n \in Nat \ {0}, NEW ss \in Family(S, n)
    PROVE  /\ FlattenSeq(ss) \in Seq(S)
           /\ \A i \in 1 .. n : ss[i] \in Seq(S)
           /\ DOMAIN ss = 1 .. n
<1>1. ss \in Seq(Seq(S)) /\ Len(ss) = n
  BY DEF Family
<1>2. ss # <<>>
  BY <1>1, EmptySeq
<1>3. QED
  BY <1>1, <1>2, FlattenType DEF Family

(* What is counted in three families of sequences, the first being the sum. *)
Balances(ss, A, rr, B, qq, C, n) ==
    \A i \in 1 .. n : Occ(ss[i], A) = Occ(rr[i], B) + Occ(qq[i], C)

LEMMA FlattenBalance ==
    ASSUME NEW S, NEW n \in Nat \ {0},
           NEW ss \in Family(S, n), NEW rr \in Family(S, n),
           NEW qq \in Family(S, n),
           NEW A, NEW B, NEW C, Balances(ss, A, rr, B, qq, C, n)
    PROVE  Occ(FlattenSeq(ss), A) = Occ(FlattenSeq(rr), B) + Occ(FlattenSeq(qq), C)
<1>1. PICK a \in [1 .. n -> Nat] : AreCounts(a, ss, n, A)
  BY FlattenCounts DEF Family
<1>2. PICK b \in [1 .. n -> Nat] : AreCounts(b, rr, n, B)
  BY FlattenCounts DEF Family
<1>3. PICK c \in [1 .. n -> Nat] : AreCounts(c, qq, n, C)
  BY FlattenCounts DEF Family
<1>4. ASSUME NEW i \in 1 .. n PROVE Occ(rr[i], B) \in Nat /\ Occ(qq[i], C) \in Nat
  <2>1. rr[i] \in Seq(S) /\ qq[i] \in Seq(S)
    BY DEF Family
  <2>2. QED
    BY <2>1, OccIsNatural
<1> DEFINE P == {i \in 1 .. n : a[i] = b[i] + c[i]}
<1>5. 1 \in P
  BY <1>1, <1>2, <1>3 DEF AreCounts, Balances
<1>6. ASSUME NEW i \in 2 .. n, i - 1 \in P PROVE i \in P
  <2>1. i \in 1 .. n /\ i - 1 \in 1 .. n /\ a[i - 1] = b[i - 1] + c[i - 1]
    BY <1>6
  <2>2. /\ a[i] = a[i - 1] + Occ(ss[i], A)
        /\ b[i] = b[i - 1] + Occ(rr[i], B)
        /\ c[i] = c[i - 1] + Occ(qq[i], C)
        /\ Occ(ss[i], A) = Occ(rr[i], B) + Occ(qq[i], C)
    BY <1>1, <1>2, <1>3, <2>1 DEF AreCounts, Balances
  <2>3. b[i - 1] \in Nat /\ c[i - 1] \in Nat /\ Occ(rr[i], B) \in Nat /\ Occ(qq[i], C) \in Nat
    BY <1>4, <2>1
  <2>4. a[i] = b[i] + c[i]
    BY <2>1, <2>2, <2>3
  <2>5. QED
    BY <2>1, <2>4
<1> HIDE DEF P
<1>7. \A i \in 1 .. n : i \in P
  BY <1>5, <1>6, InductionUpTo
<1>8. a[n] = b[n] + c[n]
  BY <1>7 DEF P
<1>9. QED
  BY <1>1, <1>2, <1>3, <1>8 DEF AreCounts, Balances

(* One of the sequences grows. *)
GrowsAt(rr, ss, n, k, d, T) ==
    \A i \in 1 .. n : Occ(rr[i], T) = Occ(ss[i], T) + (IF i = k THEN d ELSE 0)

LEMMA FlattenChange ==
    ASSUME NEW S, NEW n \in Nat \ {0}, NEW k \in 1 .. n, NEW d \in Nat,
           NEW ss \in Family(S, n), NEW rr \in Family(S, n), NEW T,
           GrowsAt(rr, ss, n, k, d, T)
    PROVE  Occ(FlattenSeq(rr), T) = Occ(FlattenSeq(ss), T) + d
<1>1. PICK a \in [1 .. n -> Nat] : AreCounts(a, ss, n, T)
  BY FlattenCounts DEF Family
<1>2. PICK b \in [1 .. n -> Nat] : AreCounts(b, rr, n, T)
  BY FlattenCounts DEF Family
<1>3. ASSUME NEW i \in 1 .. n PROVE Occ(ss[i], T) \in Nat
  <2>1. ss[i] \in Seq(S)
    BY DEF Family
  <2>2. QED
    BY <2>1, OccIsNatural
<1> DEFINE P == {i \in 1 .. n : b[i] = a[i] + (IF k <= i THEN d ELSE 0)}
<1>4. 1 \in P
  <2>1. 1 \in 1 .. n /\ (1 = k <=> k <= 1)
    OBVIOUS
  <2>2. b[1] = a[1] + (IF 1 = k THEN d ELSE 0)
    BY <1>1, <1>2, <2>1 DEF AreCounts, GrowsAt
  <2>3. QED
    BY <2>1, <2>2
<1>5. ASSUME NEW i \in 2 .. n, i - 1 \in P PROVE i \in P
  <2>1. i \in 1 .. n /\ i - 1 \in 1 .. n /\ b[i - 1] = a[i - 1] + (IF k <= i - 1 THEN d ELSE 0)
    BY <1>5
  <2>2. /\ a[i] = a[i - 1] + Occ(ss[i], T)
        /\ b[i] = b[i - 1] + Occ(rr[i], T)
        /\ Occ(rr[i], T) = Occ(ss[i], T) + (IF i = k THEN d ELSE 0)
    BY <1>1, <1>2, <2>1 DEF AreCounts, GrowsAt
  <2>3. a[i - 1] \in Nat /\ Occ(ss[i], T) \in Nat
    BY <1>3, <2>1
  <2>4. b[i] = a[i] + (IF k <= i THEN d ELSE 0)
    <3>1. CASE i = k
      BY <2>1, <2>2, <2>3, <3>1
    <3>2. CASE k <= i - 1
      BY <2>1, <2>2, <2>3, <3>2
    <3>3. CASE i < k
      BY <2>1, <2>2, <2>3, <3>3
    <3>4. QED
      BY <3>1, <3>2, <3>3
  <2>5. QED
    BY <2>1, <2>4
<1> HIDE DEF P
<1>6. \A i \in 1 .. n : i \in P
  BY <1>4, <1>5, InductionUpTo
<1>7. b[n] = a[n] + d
  BY <1>6 DEF P
<1>8. QED
  BY <1>1, <1>2, <1>7 DEF AreCounts

(* Every element of every sequence is there. *)
LEMMA FlattenHolds ==
    ASSUME NEW S, NEW n \in Nat \ {0}, NEW ss \in Family(S, n),
           NEW k \in 1 .. n, NEW x \in DOMAIN ss[k]
    PROVE  \E y \in DOMAIN FlattenSeq(ss) : FlattenSeq(ss)[y] = ss[k][x]
<1> DEFINE e == ss[k][x]
           T == {e}
<1>1. PICK a \in [1 .. n -> Nat] : AreCounts(a, ss, n, T)
  <2> HIDE DEF T
  <2>1. QED
    BY FlattenCounts DEF Family
<1>2. ASSUME NEW i \in 1 .. n PROVE Occ(ss[i], T) \in Nat
  <2>1. ss[i] \in Seq(S)
    BY DEF Family
  <2>2. QED
    BY <2>1, OccIsNatural
<1>3. Occ(ss[k], T) > 0
  <2> DEFINE A == {y \in DOMAIN ss[k] : ss[k][y] \in T}
  <2>1. IsFiniteSet(A)
    <3>1. ss[k] \in Seq(S)
      BY DEF Family
    <3> HIDE DEF T
    <3>2. QED
      BY <3>1, OccIsNatural
  <2>2. x \in A
    OBVIOUS
  <2> HIDE DEF A
  <2>3. Cardinality(A) # 0 /\ Cardinality(A) \in Nat
    BY <2>1, <2>2, FS_EmptySet, FS_CardinalityType
  <2>4. Occ(ss[k], T) = Cardinality(A)
    BY DEF Occ, A
  <2>5. QED
    BY <2>3, <2>4
<1> HIDE DEF T
<1> DEFINE P == {i \in 1 .. n : k <= i => a[i] > 0}
<1>4. 1 \in P
  BY <1>1, <1>3 DEF AreCounts
<1>5. ASSUME NEW i \in 2 .. n, i - 1 \in P PROVE i \in P
  <2>1. i \in 1 .. n /\ i - 1 \in 1 .. n /\ (k <= i - 1 => a[i - 1] > 0)
    BY <1>5
  <2>2. a[i] = a[i - 1] + Occ(ss[i], T) /\ a[i - 1] \in Nat /\ Occ(ss[i], T) \in Nat
    BY <1>1, <1>2, <2>1 DEF AreCounts
  <2>3. CASE i = k
    BY <1>3, <2>1, <2>2, <2>3
  <2>4. CASE i # k
    BY <2>1, <2>2, <2>4
  <2>5. QED
    BY <2>3, <2>4
<1> HIDE DEF P
<1>6. \A i \in 1 .. n : i \in P
  BY <1>4, <1>5, InductionUpTo
<1>7. Occ(FlattenSeq(ss), T) # 0
  <2>1. a[n] > 0
    BY <1>6 DEF P
  <2>2. QED
    BY <1>1, <2>1 DEF AreCounts
<1>8. QED
  BY <1>7, OccNone DEF T

(* The elements of a sequence at some ranks, in the same order. *)
IsSelection(F, s, I) ==
    F = [a \in 0 .. Len(s) |-> IF a = 0 THEN <<>>
                               ELSE IF a \in I THEN Append(F[a - 1], s[a]) ELSE F[a - 1]]

Selection(s, I) == (CHOOSE F : IsSelection(F, s, I))[Len(s)]

AreSelections(F, s, I) ==
    /\ F[0] = <<>>
    /\ \A a \in 1 .. Len(s) : F[a] = IF a \in I THEN Append(F[a - 1], s[a]) ELSE F[a - 1]
    /\ Selection(s, I) = F[Len(s)]

LEMMA SelectionSteps ==
    ASSUME NEW S, NEW s \in Seq(S), NEW I
    PROVE  \E F \in [0 .. Len(s) -> Seq(S)] : AreSelections(F, s, I)
<1> DEFINE n == Len(s)
           Q == Seq(S)
           g == [e \in (1 .. n) \X Q |-> IF e[1] \in I THEN Append(e[2], s[e[1]]) ELSE e[2]]
           G == CHOOSE F : IsSelection(F, s, I)
<1>1. n \in Nat /\ \A a \in 1 .. n : s[a] \in S
  BY LenProperties, ElementOfSeq
<1>2. \A a \in 1 .. n, r \in Q : Append(r, s[a]) \in Q
  BY <1>1, AppendProperties
<1>3. <<>> \in Q
  BY EmptySeq
<1>4. Selection(s, I) = G[n]
  BY DEF Selection
<1> HIDE DEF n, Q, G
<1>5. \A a \in 1 .. n, r \in Q : /\ g[<<a, r>>] = IF a \in I THEN Append(r, s[a]) ELSE r
                                /\ g[<<a, r>>] \in Q
  BY <1>2
<1> HIDE DEF g
<1>6. PICK u \in [0 .. n -> Q] : IsRecursion(u, g, <<>>, n)
  BY <1>1, <1>3, <1>5, RecursionExists
<1>7. ASSUME NEW a \in 0 .. n
      PROVE  u[a] = IF a = 0 THEN <<>> ELSE IF a \in I THEN Append(u[a - 1], s[a]) ELSE u[a - 1]
  <2>1. u[a] = IF a = 0 THEN <<>> ELSE g[<<a, u[a - 1]>>]
    BY <1>6 DEF IsRecursion
  <2>2. SUFFICES ASSUME a # 0 PROVE u[a] = IF a \in I THEN Append(u[a - 1], s[a]) ELSE u[a - 1]
    BY <2>1
  <2>3. a \in 1 .. n /\ a - 1 \in 0 .. n
    BY <1>1, <2>2
  <2>4. u[a - 1] \in Q
    BY <2>3
  <2>5. QED
    BY <1>5, <2>1, <2>2, <2>3, <2>4
<1>8. u = [a \in 0 .. n |-> u[a]]
  OBVIOUS
<1>9. IsSelection(u, s, I)
  BY <1>7, <1>8 DEF IsSelection, n
<1>10. IsSelection(G, s, I)
  BY <1>9 DEF G
<1>11. G = [a \in 0 .. n |-> IF a = 0 THEN <<>>
                             ELSE IF a \in I THEN Append(G[a - 1], s[a]) ELSE G[a - 1]]
  BY <1>10 DEF IsSelection, n
<1>12. G = [a \in 0 .. n |-> G[a]]
  BY <1>11
<1>13. G[0] = <<>>
  BY <1>1, <1>11
<1>14. ASSUME NEW a \in 1 .. n PROVE G[a] = IF a \in I THEN Append(G[a - 1], s[a]) ELSE G[a - 1]
  <2>1. a \in 0 .. n /\ a # 0
    BY <1>1
  <2>2. QED
    BY <1>11, <2>1
<1> DEFINE T == {a \in Nat : a \in 0 .. n => G[a] \in Q}
<1>15. 0 \in T
  BY <1>3, <1>13
<1>16. ASSUME NEW a \in T PROVE a + 1 \in T
  <2>1. SUFFICES ASSUME a + 1 \in 0 .. n PROVE G[a + 1] \in Q
    OBVIOUS
  <2>2. a \in Nat /\ a \in 0 .. n /\ a + 1 \in 1 .. n /\ (a + 1) - 1 = a
    BY <1>1, <2>1
  <2>3. G[a] \in Q
    BY <2>2
  <2>4. QED
    BY <1>2, <1>14, <2>2, <2>3
<1> HIDE DEF T
<1>17. T = Nat
  BY <1>15, <1>16, SetOfAllNaturals DEF T
<1>18. \A a \in 0 .. n : G[a] \in Q
  BY <1>17 DEF T
<1>19. G \in [0 .. n -> Q]
  BY <1>12, <1>18
<1>20. QED
  BY <1>4, <1>13, <1>14, <1>19 DEF n, Q, AreSelections

(* The ranks in I of the elements of T. *)
Ranks(s, I, T) == {a \in DOMAIN s : a \in I /\ s[a] \in T}

LEMMA SelectionIs ==
    ASSUME NEW S, NEW s \in Seq(S), NEW I, NEW T
    PROVE  /\ Selection(s, I) \in Seq({s[a] : a \in I \cap DOMAIN s})
           /\ Selection(s, I) \in Seq(S)
           /\ Occ(Selection(s, I), T) = Cardinality(Ranks(s, I, T))
<1>1. PICK F \in [0 .. Len(s) -> Seq(S)] : AreSelections(F, s, I)
  BY SelectionSteps
<1> DEFINE n == Len(s)
           V == {s[a] : a \in I \cap DOMAIN s}
           C(b) == {a \in 1 .. b : a \in I /\ s[a] \in T}
           W == {b \in Nat : b \in 0 .. n => F[b] \in Seq(V) /\ Occ(F[b], T) = Cardinality(C(b))}
<1>2. n \in Nat /\ DOMAIN s = 1 .. n /\ \A a \in 1 .. n : s[a] \in S
  BY LenProperties, ElementOfSeq
<1> HIDE DEF n
<1>3. \A b \in 0 .. n : F[b] \in Seq(S)
  BY <1>1 DEF n
<1>4. 0 \in W
  <2>1. F[0] \in Seq(V)
    <3> HIDE DEF V
    <3>1. QED
      BY <1>1, EmptySeq DEF AreSelections
  <2>2. C(0) = {}
    OBVIOUS
  <2>3. Occ(F[0], T) = 0
    BY <1>1, OccEmpty DEF AreSelections
  <2> HIDE DEF C, V
  <2>4. QED
    BY <2>1, <2>2, <2>3, FS_EmptySet
<1>5. ASSUME NEW b \in W PROVE b + 1 \in W
  <2>1. b \in Nat /\ b + 1 \in Nat
    OBVIOUS
  <2>2. SUFFICES ASSUME b + 1 \in 0 .. n
                 PROVE  F[b + 1] \in Seq(V) /\ Occ(F[b + 1], T) = Cardinality(C(b + 1))
    BY <2>1
  <2>3. b \in 0 .. n /\ b + 1 \in 1 .. n /\ (b + 1) - 1 = b
    BY <1>2, <2>1, <2>2
  <2>4. F[b] \in Seq(V) /\ Occ(F[b], T) = Cardinality(C(b))
    BY <2>3
  <2>5. F[b + 1] = IF b + 1 \in I THEN Append(F[b], s[b + 1]) ELSE F[b]
    BY <1>1, <2>3 DEF n, AreSelections
  <2>6. C(b + 1) = IF b + 1 \in I /\ s[b + 1] \in T THEN C(b) \cup {b + 1} ELSE C(b)
    BY <2>1
  <2>7. IsFiniteSet(C(b)) /\ b + 1 \notin C(b) /\ Cardinality(C(b)) \in Nat
    <3>1. IsFiniteSet(1 .. b) /\ C(b) \in SUBSET (1 .. b) /\ b + 1 \notin 1 .. b
      BY <2>1, FS_Interval
    <3> HIDE DEF C
    <3>2. QED
      BY <3>1, FS_Subset, FS_CardinalityType
  <2>8. CASE b + 1 \in I
    <3> DEFINE e == s[b + 1]
    <3>1. e \in V /\ F[b + 1] = Append(F[b], e)
      BY <1>2, <2>3, <2>5, <2>8
    <3>2. C(b + 1) = IF e \in T THEN C(b) \cup {b + 1} ELSE C(b)
      BY <2>6, <2>8
    <3> HIDE DEF e, V, C
    <3>3. F[b + 1] \in Seq(V)
      BY <2>4, <3>1, AppendProperties
    <3>4. Occ(Append(F[b], e), T) = Occ(F[b], T) + (IF e \in T THEN 1 ELSE 0)
      BY <2>4, <3>1, OccAppend
    <3>5. Cardinality(C(b + 1)) = Cardinality(C(b)) + (IF e \in T THEN 1 ELSE 0)
      <4>1. CASE e \in T
        BY <2>7, <3>2, <4>1, FS_AddElement
      <4>2. CASE e \notin T
        BY <2>7, <3>2, <4>2
      <4>3. QED
        BY <4>1, <4>2
    <3>6. QED
      BY <2>4, <3>1, <3>3, <3>4, <3>5
  <2>9. CASE b + 1 \notin I
    BY <2>4, <2>5, <2>6, <2>9
  <2>10. QED
    BY <2>8, <2>9
<1> HIDE DEF W
<1>6. W = Nat
  BY <1>4, <1>5, SetOfAllNaturals DEF W
<1>7. F[n] \in Seq(V) /\ Occ(F[n], T) = Cardinality(C(n))
  <2>1. n \in W /\ n \in 0 .. n
    BY <1>2, <1>6
  <2> HIDE DEF V, C
  <2>2. QED
    BY <2>1 DEF W
<1>8. Selection(s, I) = F[n] /\ F[n] \in Seq(S)
  BY <1>1, <1>2, <1>3 DEF n, AreSelections
<1>9. C(n) = Ranks(s, I, T)
  BY <1>2 DEF Ranks
<1> DEFINE r == Selection(s, I)
<1>10. r \in Seq(V) /\ r \in Seq(S) /\ Occ(r, T) = Cardinality(Ranks(s, I, T))
  <2> HIDE DEF C, V
  <2>1. r = F[n] /\ r \in Seq(S)
    BY <1>8
  <2> HIDE DEF r
  <2>2. r \in Seq(V) /\ Occ(r, T) = Cardinality(Ranks(s, I, T))
    BY <1>7, <1>9, <2>1
  <2>3. QED
    BY <2>1, <2>2
<1> HIDE DEF r, C
<1>11. QED
  BY ONLY <1>10 DEF r

(* A sequence is made of its elements at some ranks and of the others. *)
LEMMA SelectionSplits ==
    ASSUME NEW S, NEW s \in Seq(S), NEW I, NEW J, J = DOMAIN s \ I, NEW T
    PROVE  Occ(s, T) = Occ(Selection(s, I), T) + Occ(Selection(s, J), T)
<1> DEFINE A == {a \in DOMAIN s : s[a] \in T}
           B == Ranks(s, I, T)
           C == Ranks(s, J, T)
<1>1. IsFiniteSet(A) /\ Occ(s, T) = Cardinality(A)
  BY OccIsNatural DEF Occ
<1>2. Occ(Selection(s, I), T) = Cardinality(B) /\ Occ(Selection(s, J), T) = Cardinality(C)
  <2>1. \A K : Occ(Selection(s, K), T) = Cardinality(Ranks(s, K, T))
    BY SelectionIs
  <2>2. QED
    BY ONLY <2>1
<1>3. A = B \cup C /\ B \cap C = {} /\ B \in SUBSET A /\ C \in SUBSET A
  BY DEF Ranks
<1> HIDE DEF A, B, C
<1>4. IsFiniteSet(B) /\ IsFiniteSet(C)
  BY <1>1, <1>3, FS_Subset
<1>5. Cardinality(A) = Cardinality(B) + Cardinality(C) - Cardinality({})
  BY <1>3, <1>4, FS_Union
<1>6. Cardinality({}) = 0 /\ Cardinality(B) \in Nat /\ Cardinality(C) \in Nat
  BY <1>4, FS_EmptySet, FS_CardinalityType
<1>7. QED
  BY <1>1, <1>2, <1>5, <1>6

(* FoldLeft, which takes the greatest rank that is left. *)
LEMMA GreatestRank ==
    ASSUME NEW n \in Nat, NEW A \in SUBSET (1 .. n), A # {}
    PROVE  Max(A) \in A /\ \A a \in A : a <= Max(A)
<1> DEFINE B == {n - a : a \in A}
<1>6. \A a \in A : a \in Int /\ n - a \in Nat
  <2>1. SUFFICES ASSUME NEW a \in A PROVE a \in Int /\ n - a \in Nat
    OBVIOUS
  <2>2. a \in 1 .. n
    OBVIOUS
  <2>3. QED
    BY <2>2
<1>1. B \in SUBSET Nat /\ B # {}
  BY <1>6
<1>2. PICK m \in B : \A b \in B : m <= b
  <2> HIDE DEF B
  <2>1. QED
    BY <1>1, LeastElement
<1>3. PICK x \in A : m = n - x
  BY <1>2
<1>4. ASSUME NEW a \in A PROVE x >= a
  <2>1. n - a \in B /\ a \in Int /\ x \in Int
    BY <1>3
  <2>2. n - x <= n - a
    BY <1>2, <1>3, <2>1
  <2>3. QED
    BY <2>1, <2>2
<1>5. Max(A) \in A /\ \A a \in A : Max(A) >= a
  BY <1>3, <1>4 DEF Max
<1>7. QED
  BY <1>5, <1>6

LEMMA GreatestOfFirst ==
    ASSUME NEW n \in Nat, NEW k \in 1 .. n
    PROVE  /\ 1 .. k \in SUBSET (1 .. n) /\ 1 .. k # {}
           /\ 1 .. k - 1 \in SUBSET (1 .. n)
           /\ Max(1 .. k) = k
           /\ (1 .. k) \ {k} = 1 .. k - 1
<1>1. 1 .. k \in SUBSET (1 .. n) /\ k \in 1 .. k /\ 1 .. k - 1 \in SUBSET (1 .. n)
  OBVIOUS
<1>2. Max(1 .. k) \in 1 .. k /\ k <= Max(1 .. k)
  <2> DEFINE A == 1 .. k
  <2>1. A \in SUBSET (1 .. n) /\ A # {} /\ k \in A
    BY <1>1
  <2> HIDE DEF A
  <2>2. Max(A) \in A /\ k <= Max(A)
    BY <2>1, GreatestRank
  <2>3. QED
    BY <2>2 DEF A
<1>3. QED
  BY <1>1, <1>2

IsFold(F, g, x, n) ==
    F = [A \in SUBSET (1 .. n) |-> IF A = {} THEN x ELSE g[<<Max(A), F[A \ {Max(A)}]>>]]

LEMMA FoldExists ==
    ASSUME NEW S, NEW g, NEW x \in S, NEW n \in Nat,
           \A j \in 1 .. n, s \in S : g[<<j, s>>] \in S
    PROVE  \E F \in [SUBSET (1 .. n) -> S] : IsFold(F, g, x, n)
<1> DEFINE U == 1 .. n
           Body(F, A) == IF A = {} THEN x ELSE g[<<Max(A), F[A \ {Max(A)}]>>]
           IsFoldUpTo(F, m) == \A A \in SUBSET U : Cardinality(A) <= m => F[A] = Body(F, A)
           T == {m \in Nat : \E F \in [SUBSET U -> S] : IsFoldUpTo(F, m)}
<1>1. IsFiniteSet(U)
  BY FS_Interval
<1>2. \A A \in SUBSET U : IsFiniteSet(A) /\ Cardinality(A) \in Nat
  BY <1>1, FS_Subset, FS_CardinalityType
<1>3. \A A \in SUBSET U : A # {} =>
          /\ Max(A) \in A /\ A \ {Max(A)} \in SUBSET U /\ Max(A) \in 1 .. n
          /\ Cardinality(A \ {Max(A)}) = Cardinality(A) - 1
  BY <1>2, GreatestRank, FS_RemoveElement
<1>4. ASSUME NEW F \in [SUBSET U -> S], NEW A \in SUBSET U
      PROVE  Body(F, A) \in S
  <2>1. CASE A = {}
    BY <2>1
  <2>2. CASE A # {}
    <3>1. Max(A) \in 1 .. n /\ F[A \ {Max(A)}] \in S
      BY <1>3, <2>2
    <3>2. QED
      BY <2>2, <3>1
  <2>3. QED
    BY <2>1, <2>2
<1>5. 0 \in T
  <2> DEFINE F == [A \in SUBSET U |-> x]
  <2>1. F \in [SUBSET U -> S]
    OBVIOUS
  <2>2. \A A \in SUBSET U : Cardinality(A) <= 0 => A = {}
    BY <1>2, FS_EmptySet
  <2>3. IsFoldUpTo(F, 0)
    BY <2>2
  <2> HIDE DEF F, IsFoldUpTo
  <2>4. QED
    BY <2>1, <2>3
<1>6. ASSUME NEW m \in T PROVE m + 1 \in T
  <2>1. PICK F \in [SUBSET U -> S] : IsFoldUpTo(F, m)
    OBVIOUS
  <2> DEFINE G == [A \in SUBSET U |-> Body(F, A)]
  <2>2. G \in [SUBSET U -> S]
    BY <1>4
  <2>3. ASSUME NEW A \in SUBSET U, Cardinality(A) <= m + 1
        PROVE  G[A] = Body(G, A)
    <3>1. CASE A = {}
      BY <3>1
    <3>2. CASE A # {}
      <4> DEFINE B == A \ {Max(A)}
      <4>1. B \in SUBSET U /\ Cardinality(B) <= m
        <5>1. B \in SUBSET U /\ Cardinality(B) = Cardinality(A) - 1
          BY <1>3, <3>2
        <5>2. Cardinality(A) \in Nat /\ Cardinality(A) <= m + 1 /\ m \in Nat
          BY <1>2, <2>3
        <5>3. QED
          BY <5>1, <5>2
      <4>2. F[B] = G[B]
        BY <2>1, <4>1
      <4>3. QED
        BY <3>2, <4>2
    <3>3. QED
      BY <3>1, <3>2
  <2>4. IsFoldUpTo(G, m + 1)
    BY <2>3
  <2>5. m + 1 \in Nat
    OBVIOUS
  <2> HIDE DEF G, IsFoldUpTo
  <2>6. QED
    BY <2>2, <2>4, <2>5
<1> HIDE DEF T
<1>7. T = Nat
  BY <1>5, <1>6, SetOfAllNaturals DEF T
<1>8. Cardinality(U) \in T
  BY <1>2, <1>7
<1>9. PICK F \in [SUBSET U -> S] : IsFoldUpTo(F, Cardinality(U))
  BY <1>8 DEF T
<1>10. \A A \in SUBSET U : F[A] = Body(F, A)
  BY <1>1, <1>2, <1>9, FS_Subset
<1>11. F = [A \in SUBSET U |-> F[A]]
  OBVIOUS
<1>12. QED
  BY <1>10, <1>11 DEF IsFold

(* How many cells hold an element of a set, from a rank on. *)
OccFrom(s, k, T) == Cardinality({a \in k .. Len(s) : s[a] \in T})

LEMMA OccFromIsNatural ==
    ASSUME NEW S, NEW s \in Seq(S), NEW k \in Int, NEW T
    PROVE  /\ OccFrom(s, k, T) \in Nat
           /\ IsFiniteSet({a \in k .. Len(s) : s[a] \in T})
           /\ IsFiniteSet({a \in k .. Len(s) - 1 : s[a] \in T})
<1> DEFINE A == {a \in k .. Len(s) : s[a] \in T}
           B == {a \in k .. Len(s) - 1 : s[a] \in T}
<1>1. Len(s) \in Int /\ Len(s) - 1 \in Int
  BY LenProperties
<1>2. IsFiniteSet(k .. Len(s)) /\ IsFiniteSet(k .. Len(s) - 1)
  BY <1>1, FS_Interval
<1>3. A \in SUBSET (k .. Len(s)) /\ B \in SUBSET (k .. Len(s) - 1)
  OBVIOUS
<1>4. OccFrom(s, k, T) = Cardinality(A)
  BY DEF OccFrom
<1> HIDE DEF A, B
<1>5. IsFiniteSet(A) /\ IsFiniteSet(B)
  BY <1>2, <1>3, FS_Subset
<1>6. QED
  BY <1>4, <1>5, FS_CardinalityType DEF A, B

LEMMA OccFromEnds ==
    ASSUME NEW S, NEW s \in Seq(S), NEW T
    PROVE  /\ OccFrom(s, 1, T) = Occ(s, T)
           /\ \A k \in Int : k > Len(s) => OccFrom(s, k, T) = 0
<1>1. Len(s) \in Nat /\ DOMAIN s = 1 .. Len(s)
  BY LenProperties
<1>2. OccFrom(s, 1, T) = Occ(s, T)
  BY <1>1 DEF OccFrom, Occ
<1>3. ASSUME NEW k \in Int, k > Len(s) PROVE OccFrom(s, k, T) = 0
  <2>1. {a \in k .. Len(s) : s[a] \in T} = {}
    BY <1>1, <1>3
  <2>2. QED
    BY <2>1, FS_EmptySet DEF OccFrom
<1>4. QED
  BY <1>2, <1>3

LEMMA OccFromSuffix ==
    ASSUME NEW S, NEW s \in Seq(S), NEW k \in 1 .. Len(s) + 1, NEW T
    PROVE  /\ SubSeq(s, k, Len(s)) \in Seq(S)
           /\ Occ(SubSeq(s, k, Len(s)), T) = OccFrom(s, k, T)
<1> DEFINE n == Len(s)
           r == SubSeq(s, k, n)
           d == k - 1
           A == {a \in DOMAIN r : r[a] \in T}
           B == {a \in k .. n : s[a] \in T}
<1>1. n \in Nat /\ k \in Int /\ 1 <= k /\ k <= n + 1 /\ \A a \in 1 .. n : s[a] \in S
  BY LenProperties, ElementOfSeq
<1>2. r \in Seq(S) /\ Len(r) = (IF k <= n THEN n - k + 1 ELSE 0)
      /\ \A a \in 1 .. n - k + 1 : r[a] = s[k + a - 1]
  <2>1. \A a \in k .. n : s[a] \in S
    BY <1>1
  <2>2. n \in Int
    BY <1>1
  <2> HIDE DEF n
  <2>3. QED
    BY <1>1, <2>1, <2>2, SubSeqProperties
<1>3. DOMAIN r = 1 .. n - k + 1
  <2>1. DOMAIN r = 1 .. Len(r)
    BY <1>2, LenProperties
  <2>2. QED
    BY <1>1, <1>2, <2>1
<1>4. IsFiniteSet(A) /\ A \in SUBSET Int /\ d \in Int
  <2>1. A \in SUBSET Int /\ d \in Int
    BY <1>1, <1>3
  <2> HIDE DEF r
  <2>2. IsFiniteSet(A)
    BY <1>2, OccIsNatural
  <2>3. QED
    BY <2>1, <2>2
<1> HIDE DEF r
<1>5. B = {a + d : a \in A}
  <2>1. ASSUME NEW a \in A PROVE a + d \in B
    <3>1. a \in 1 .. n - k + 1 /\ r[a] \in T /\ r[a] = s[k + a - 1]
      BY <1>2, <1>3
    <3>2. k + a - 1 = a + d /\ a + d \in k .. n
      BY <1>1, <3>1
    <3>3. QED
      BY <3>1, <3>2
  <2>2. ASSUME NEW b \in B PROVE \E a \in A : b = a + d
    <3>1. b - d \in 1 .. n - k + 1 /\ k + (b - d) - 1 = b /\ b = (b - d) + d /\ s[b] \in T
      BY <1>1
    <3>2. r[b - d] = s[b]
      BY <1>2, <3>1
    <3>3. b - d \in A
      BY <1>3, <3>1, <3>2
    <3>4. QED
      BY <3>1, <3>3
  <2>3. QED
    BY <2>1, <2>2
<1> HIDE DEF A, B, d
<1>6. Cardinality(B) = Cardinality(A)
  BY <1>4, <1>5, MovedCount
<1>7. QED
  BY <1>2, <1>6 DEF OccFrom, Occ, A, B, r, n

(* The first cell apart. *)
LEMMA OccFromNext ==
    ASSUME NEW S, NEW s \in Seq(S), NEW k \in 1 .. Len(s), NEW T
    PROVE  OccFrom(s, k, T) = OccFrom(s, k + 1, T) + (IF s[k] \in T THEN 1 ELSE 0)
<1> DEFINE n == Len(s)
           A == {a \in k .. n : s[a] \in T}
           B == {a \in k + 1 .. n : s[a] \in T}
<1>1. n \in Nat /\ k \in 1 .. n
  BY LenProperties
<1>2. IsFiniteSet(B) /\ Cardinality(B) \in Nat /\ OccFrom(s, k + 1, T) = Cardinality(B)
  <2>1. k + 1 \in Int
    BY <1>1
  <2>2. QED
    BY <2>1, OccFromIsNatural DEF OccFrom
<1>3. OccFrom(s, k, T) = Cardinality(A)
  BY DEF OccFrom
<1> HIDE DEF n
<1>4. A = (IF s[k] \in T THEN B \cup {k} ELSE B) /\ k \notin B
  <2>1. k .. n = (k + 1 .. n) \cup {k} /\ k \notin k + 1 .. n
    BY <1>1
  <2>2. QED
    BY <2>1
<1> HIDE DEF A, B
<1>5. QED
  <2>1. CASE s[k] \in T
    BY <1>2, <1>3, <1>4, <2>1, FS_AddElement
  <2>2. CASE s[k] \notin T
    BY <1>2, <1>3, <1>4, <2>2
  <2>3. QED
    BY <2>1, <2>2

(* A cell is given up: the last one takes its place. *)
Without(s, r) == Front([s EXCEPT ![r] = Last(s)])

LEMMA WithoutIs ==
    ASSUME NEW S, NEW s \in Seq(S), NEW r \in 1 .. Len(s)
    PROVE  /\ Without(s, r) \in Seq(S)
           /\ Len(Without(s, r)) = Len(s) - 1
           /\ \A a \in 1 .. Len(s) - 1 : Without(s, r)[a] = IF a = r THEN s[Len(s)] ELSE s[a]
<1> DEFINE n == Len(s)
           q == [s EXCEPT ![r] = Last(s)]
<1>1. n \in Nat \ {0} /\ DOMAIN s = 1 .. n /\ \A a \in 1 .. n : s[a] \in S
  BY LenProperties, ElementOfSeq
<1>2. Last(s) = s[n] /\ s[n] \in S
  BY <1>1 DEF Last
<1>3. q \in Seq(S) /\ Len(q) = n /\ \A a \in 1 .. n : q[a] = IF a = r THEN s[n] ELSE s[a]
  <2>1. \A a \in 1 .. n : q[a] = IF a = r THEN s[n] ELSE s[a]
    BY <1>1, <1>2
  <2>2. DOMAIN q = 1 .. n
    BY <1>1
  <2>3. q \in [1 .. n -> S]
    BY <1>1, <1>2
  <2>4. QED
    BY <1>1, <2>1, <2>3
<1> HIDE DEF q, n
<1>4. q # <<>>
  BY <1>1, <1>3, EmptySeq
<1>5. Front(q) = SubSeq(q, 1, n - 1)
  BY <1>3 DEF Front
<1>6. /\ SubSeq(q, 1, n - 1) \in Seq(S) /\ Len(SubSeq(q, 1, n - 1)) = n - 1
      /\ \A a \in 1 .. n - 1 : SubSeq(q, 1, n - 1)[a] = q[a]
  <2>1. \A a \in 1 .. n - 1 : q[a] \in S
    BY <1>1, <1>3
  <2>2. n - 1 \in Int /\ 1 \in Int
    BY <1>1
  <2>3. /\ SubSeq(q, 1, n - 1) \in Seq(S)
        /\ Len(SubSeq(q, 1, n - 1)) = IF 1 <= n - 1 THEN (n - 1) - 1 + 1 ELSE 0
        /\ \A a \in 1 .. (n - 1) - 1 + 1 : SubSeq(q, 1, n - 1)[a] = q[1 + a - 1]
    BY <2>1, <2>2, SubSeqProperties
  <2>4. QED
    BY <1>1, <2>3
<1>7. Without(s, r) = SubSeq(q, 1, n - 1)
  BY <1>5 DEF Without, q
<1>8. ASSUME NEW a \in 1 .. n - 1 PROVE Without(s, r)[a] = IF a = r THEN s[n] ELSE s[a]
  BY <1>1, <1>3, <1>6, <1>7
<1>9. QED
  BY <1>6, <1>7, <1>8 DEF n

LEMMA WithoutCounts ==
    ASSUME NEW S, NEW s \in Seq(S), NEW k \in 1 .. Len(s), NEW r \in k .. Len(s), NEW T
    PROVE  OccFrom(s, k, T) = OccFrom(Without(s, r), k, T) + (IF s[r] \in T THEN 1 ELSE 0)
<1> DEFINE n == Len(s)
           w == Without(s, r)
           A == {a \in k .. n : s[a] \in T}
           B == {a \in k .. n - 1 : w[a] \in T}
           C == {a \in k .. n - 1 : a # r /\ s[a] \in T}
<1>1. n \in Nat \ {0} /\ r \in 1 .. n /\ k \in 1 .. n /\ k <= r
  BY LenProperties
<1>2. Len(w) = n - 1 /\ \A a \in 1 .. n - 1 : w[a] = IF a = r THEN s[n] ELSE s[a]
  BY <1>1, WithoutIs
<1>3. OccFrom(s, k, T) = Cardinality(A)
  BY DEF OccFrom
<1>4. OccFrom(w, k, T) = Cardinality(B)
  BY <1>2 DEF OccFrom
<1>5. IsFiniteSet(C) /\ Cardinality(C) \in Nat
  <2>1. n - 1 \in Int /\ k \in Int
    BY <1>1
  <2>2. IsFiniteSet(k .. n - 1)
    BY <2>1, FS_Interval
  <2>3. C \in SUBSET (k .. n - 1)
    OBVIOUS
  <2> HIDE DEF C
  <2>4. QED
    BY <2>2, <2>3, FS_Subset, FS_CardinalityType
<1> HIDE DEF n, w
<1>6. CASE r = n
  <2>1. B = C
    BY <1>1, <1>2, <1>6
  <2>2. A = (IF s[r] \in T THEN C \cup {r} ELSE C) /\ r \notin C
    <3>1. k .. n = (k .. n - 1) \cup {n} /\ n \notin k .. n - 1
      BY <1>1
    <3>2. QED
      BY <1>6, <3>1
  <2> HIDE DEF A, B, C
  <2>3. CASE s[r] \in T
    BY <1>3, <1>4, <1>5, <2>1, <2>2, <2>3, FS_AddElement DEF w
  <2>4. CASE s[r] \notin T
    BY <1>3, <1>4, <1>5, <2>1, <2>2, <2>4 DEF w
  <2>5. QED
    BY <2>3, <2>4
<1>7. CASE r # n
  <2>1. r \in k .. n - 1 /\ r \in 1 .. n - 1 /\ r \notin C /\ n \notin C
    BY <1>1, <1>7
  <2>2. B = IF s[n] \in T THEN C \cup {r} ELSE C
    <3>1. \A a \in k .. n - 1 : a \in B <=> IF a = r THEN s[n] \in T ELSE a \in C
      BY <1>1, <1>2
    <3>2. QED
      BY <2>1, <3>1
  <2> DEFINE D == IF s[n] \in T THEN C \cup {n} ELSE C
  <2>3. A = IF s[r] \in T THEN D \cup {r} ELSE D
    <3>1. k .. n = (k .. n - 1) \cup {n} /\ n \notin k .. n - 1
      BY <1>1
    <3>2. \A a \in k .. n - 1 : a \in A <=> IF a = r THEN s[r] \in T ELSE a \in C
      BY <3>1
    <3>3. n \in A <=> s[n] \in T
      BY <3>1
    <3>4. QED
      BY <1>7, <2>1, <3>1, <3>2, <3>3
  <2>4. r \notin D
    BY <1>7, <2>1
  <2>5. IsFiniteSet(D) /\ Cardinality(D) \in Nat /\ Cardinality(D) = Cardinality(B)
    <3> HIDE DEF B, C
    <3>1. CASE s[n] \in T
      <4>1. B = C \cup {r} /\ D = C \cup {n}
        BY <2>2, <3>1
      <4> HIDE DEF D
      <4>2. QED
        <5> HIDE DEF B
        <5>1. /\ IsFiniteSet(C \cup {r}) /\ Cardinality(C \cup {r}) = Cardinality(C) + 1
              /\ IsFiniteSet(C \cup {n}) /\ Cardinality(C \cup {n}) = Cardinality(C) + 1
          BY <1>5, <2>1, FS_AddElement
        <5>2. QED
          BY <1>5, <4>1, <5>1
    <3>2. CASE s[n] \notin T
      <4>1. B = C /\ D = C
        BY <2>2, <3>2
      <4> HIDE DEF D
      <4>2. QED
        BY <1>5, <4>1
    <3>3. QED
      BY <3>1, <3>2
  <2> HIDE DEF A, B, C, D
  <2>6. CASE s[r] \in T
    BY <1>3, <1>4, <2>3, <2>4, <2>5, <2>6, FS_AddElement DEF w
  <2>7. CASE s[r] \notin T
    BY <1>3, <1>4, <2>3, <2>5, <2>7 DEF w
  <2>8. QED
    BY <2>6, <2>7
<1>8. QED
  BY <1>6, <1>7

(* A set is counted when a cell holds one of its elements. *)
LEMMA OccPositive ==
    ASSUME NEW S, NEW s \in Seq(S), NEW T
    PROVE  Occ(s, T) # 0 <=> \E a \in DOMAIN s : s[a] \in T
<1>1. Occ(s, T) # 0 => \E a \in DOMAIN s : s[a] \in T
  BY OccNone
<1>2. ASSUME NEW a \in DOMAIN s, s[a] \in T PROVE Occ(s, T) # 0
  <2> DEFINE A == {b \in DOMAIN s : s[b] \in T}
  <2>1. a \in A
    BY <1>2
  <2>2. IsFiniteSet(A) /\ Occ(s, T) = Cardinality(A)
    BY OccIsNatural DEF Occ
  <2> HIDE DEF A
  <2>3. QED
    BY <2>1, <2>2, FS_EmptySet
<1>3. QED
  BY <1>1, <1>2

(* What a flattened family holds. *)
LEMMA FlattenRange ==
    ASSUME NEW S, NEW n \in Nat \ {0}, NEW ss \in Family(S, n)
    PROVE  \A x : x \in Range(FlattenSeq(ss)) <=> \E m \in 1 .. n : x \in Range(ss[m])
<1> DEFINE U == UNION {Range(ss[m]) : m \in 1 .. n}
<1>1. ASSUME NEW m \in 1 .. n PROVE ss[m] \in Seq(U)
  <2> DEFINE s == ss[m]
  <2>1. s \in Seq(S)
    BY DEF Family
  <2>2. Range(s) \subseteq U
    OBVIOUS
  <2> HIDE DEF s, U
  <2>3. Len(s) \in Nat /\ s \in [1 .. Len(s) -> S]
    BY <2>1
  <2>4. \A a \in 1 .. Len(s) : s[a] \in U
    BY <2>2, <2>3 DEF Range
  <2>5. s \in [1 .. Len(s) -> U]
    BY <2>3, <2>4
  <2>6. s \in Seq(U)
    BY <2>3, <2>5
  <2>7. QED
    BY <2>6 DEF s
<1>2. \A x : x \in U <=> \E m \in 1 .. n : x \in Range(ss[m])
  OBVIOUS
<1> HIDE DEF U
<1>3. ss \in Family(U, n)
  BY <1>1 DEF Family
<1> DEFINE t == FlattenSeq(ss)
<1>4. t \in Seq(U)
  BY <1>3, FamilyIs
<1>5. ASSUME NEW m \in 1 .. n, NEW x \in Range(ss[m]) PROVE x \in Range(t)
  <2>1. PICK a \in DOMAIN ss[m] : ss[m][a] = x
    BY DEF Range
  <2>2. \E y \in DOMAIN t : t[y] = x
    BY <1>3, <2>1, FlattenHolds
  <2>3. QED
    BY <2>2 DEF Range
<1> HIDE DEF t
<1>6. Range(t) \subseteq U
  BY <1>4 DEF Range
<1>7. QED
  BY <1>2, <1>5, <1>6 DEF t

LEMMA FlattenNothing == \A ss : Len(ss) = 0 => FlattenSeq(ss) = ss
BY DEF FlattenSeq

-----------------------------------------------------------------------------
(* Functions over 0 .. n - 1 that are defined from their values below.       *)
IsCourse(h, n, V) ==
    /\ \A k \in 0 .. n - 1, u \in [0 .. n - 1 -> V] : h[<<k, u>>] \in V
    /\ \A k \in 0 .. n - 1, u, v \in [0 .. n - 1 -> V] :
           (\A j \in 0 .. k - 1 : u[j] = v[j]) => h[<<k, u>>] = h[<<k, v>>]

Follows(u, h, n, V) == u \in [0 .. n - 1 -> V] /\ \A k \in 0 .. n - 1 : u[k] = h[<<k, u>>]

LEMMA CourseExists ==
    ASSUME NEW V, V # {}, NEW n \in Nat, NEW h, IsCourse(h, n, V)
    PROVE  \E u : Follows(u, h, n, V)
<1> DEFINE U == [0 .. n - 1 -> V]
           g == [e \in (1 .. n) \X U |-> [e[2] EXCEPT ![e[1] - 1] = h[<<e[1] - 1, e[2]>>]]]
<1>1. PICK v0 : v0 \in V
  OBVIOUS
<1> DEFINE x == [k \in 0 .. n - 1 |-> v0]
<1>2. x \in U
  BY <1>1
<1>3. ASSUME NEW k \in 1 .. n, NEW u \in U
      PROVE  /\ g[<<k, u>>] = [u EXCEPT ![k - 1] = h[<<k - 1, u>>]]
             /\ g[<<k, u>>] \in U
  <2>1. k - 1 \in 0 .. n - 1 /\ h[<<k - 1, u>>] \in V
    BY DEF IsCourse
  <2>2. g[<<k, u>>] = [u EXCEPT ![k - 1] = h[<<k - 1, u>>]]
    OBVIOUS
  <2> HIDE DEF g
  <2>3. QED
    BY <2>1, <2>2
<1> HIDE DEF g, x, U
<1>4. PICK w \in [0 .. n -> U] : IsRecursion(w, g, x, n)
  BY <1>2, <1>3, RecursionExists
<1>5. \A k \in 1 .. n : w[k - 1] \in U /\ w[k] = [w[k - 1] EXCEPT ![k - 1] = h[<<k - 1, w[k - 1]>>]]
  <2> SUFFICES ASSUME NEW k \in 1 .. n
               PROVE  w[k - 1] \in U /\ w[k] = [w[k - 1] EXCEPT ![k - 1] = h[<<k - 1, w[k - 1]>>]]
    OBVIOUS
  <2>1. k - 1 \in 0 .. n /\ k \in 0 .. n /\ k # 0
    OBVIOUS
  <2>2. w[k] = g[<<k, w[k - 1]>>]
    BY <1>4, <2>1 DEF IsRecursion
  <2>3. QED
    BY <1>3, <2>1, <2>2
<1>6. \A k \in 0 .. n : w[k] \in U
  OBVIOUS
<1>7. \A u \in U : DOMAIN u = 0 .. n - 1
  BY DEF U
<1>8. \A k \in 0 .. n - 1, u \in U, v \in U : (\A j \in 0 .. k - 1 : u[j] = v[j]) => h[<<k, u>>] = h[<<k, v>>]
  BY DEF U, IsCourse
<1> DEFINE P(m) == \A k \in 0 .. m - 1 : w[m][k] = h[<<k, w[m]>>]
           T == {m \in Nat : m <= n => P(m)}
<1>9. 0 \in T
  OBVIOUS
<1>10. ASSUME NEW m \in T PROVE m + 1 \in T
  <2>1. m \in Nat
    OBVIOUS
  <2> SUFFICES ASSUME m + 1 <= n PROVE P(m + 1)
    BY <2>1
  <2> DEFINE a == w[m]
             b == w[m + 1]
  <2>2. P(m)
    BY <2>1
  <2>3. m \in 0 .. n - 1 /\ m + 1 \in 1 .. n /\ (m + 1) - 1 = m /\ m \in 0 .. n /\ m + 1 \in 0 .. n
    BY <2>1
  <2>4. a \in U /\ b \in U /\ b = [a EXCEPT ![m] = h[<<m, a>>]]
    BY <1>5, <1>6, <2>3
  <2> HIDE DEF T, a, b
  <2>5. b[m] = h[<<m, a>>] /\ \A k \in 0 .. m - 1 : b[k] = a[k]
    BY <1>7, <2>3, <2>4
  <2>6. b[m] = h[<<m, b>>]
    BY <1>8, <2>3, <2>4, <2>5
  <2>7. ASSUME NEW k \in 0 .. m - 1 PROVE b[k] = h[<<k, b>>]
    <3>1. a[k] = h[<<k, a>>]
      BY <2>2 DEF a
    <3>2. k \in 0 .. n - 1 /\ \A j \in 0 .. k - 1 : j \in 0 .. m - 1
      BY <2>3
    <3>3. h[<<k, a>>] = h[<<k, b>>]
      BY <1>8, <2>4, <2>5, <3>2
    <3>4. QED
      BY <2>5, <3>1, <3>3
  <2>8. \A k \in 0 .. (m + 1) - 1 : k = m \/ k \in 0 .. m - 1
    BY <2>1
  <2>9. QED
    BY <2>6, <2>7, <2>8 DEF b
<1> HIDE DEF P
<1>11. T = Nat
  BY <1>9, <1>10, SetOfAllNaturals
<1>12. P(n) /\ w[n] \in U
  BY <1>6, <1>11
<1>13. QED
  BY <1>12 DEF P, U, Follows

(* An induction over 0 .. n - 1 from the values below, *)
LEMMA CourseInduction ==
    ASSUME NEW n \in Nat, NEW P,
           \A k \in 0 .. n - 1 : (\A j \in 0 .. k - 1 : j \in P) => k \in P
    PROVE  \A k \in 0 .. n - 1 : k \in P
<1> SUFFICES ASSUME {k \in 0 .. n - 1 : k \notin P} # {} PROVE FALSE
  OBVIOUS
<1> DEFINE A == {k \in 0 .. n - 1 : k \notin P}
<1>1. A \in SUBSET Nat /\ A # {}
  OBVIOUS
<1>2. PICK a \in A : \A b \in A : a <= b
  BY <1>1, LeastElement
<1>3. \A j \in 0 .. a - 1 : j \in P
  <2> SUFFICES ASSUME NEW j \in 0 .. a - 1, j \notin P PROVE FALSE
    OBVIOUS
  <2>1. j \in 0 .. n - 1
    OBVIOUS
  <2>2. j \in A
    BY <2>1
  <2>3. a <= j
    BY <1>2, <2>2
  <2>4. QED
    BY <2>3
<1>4. QED
  BY <1>3

(* and from the values above. *)
LEMMA DownwardInduction ==
    ASSUME NEW n \in Nat, NEW P,
           \A k \in 0 .. n - 1 : (\A j \in k + 1 .. n - 1 : j \in P) => k \in P
    PROVE  \A k \in 0 .. n - 1 : k \in P
<1> DEFINE Q == {k \in 0 .. n - 1 : n - 1 - k \in P}
<1>1. ASSUME NEW k \in 0 .. n - 1, \A j \in 0 .. k - 1 : j \in Q PROVE k \in Q
  <2> DEFINE r == n - 1 - k
  <2>1. r \in 0 .. n - 1
    OBVIOUS
  <2>2. ASSUME NEW j \in r + 1 .. n - 1 PROVE j \in P
    <3>1. n - 1 - j \in 0 .. k - 1 /\ n - 1 - (n - 1 - j) = j
      OBVIOUS
    <3>2. QED
      BY <1>1, <3>1
  <2> HIDE DEF r
  <2>3. r \in P
    BY <2>1, <2>2
  <2>4. QED
    BY <2>3 DEF r
<1> HIDE DEF Q
<1>2. \A k \in 0 .. n - 1 : k \in Q
  BY <1>1, CourseInduction
<1>3. \A k \in 0 .. n - 1 : n - 1 - k \in 0 .. n - 1 /\ n - 1 - (n - 1 - k) = k
  OBVIOUS
<1>4. QED
  BY <1>2, <1>3 DEF Q

-----------------------------------------------------------------------------
(* The rank of an element among those of a set of integers, which numbers   *)
(* the flat zones and the nodes that the canonisation keeps.                *)

RankIn(F, r) == Cardinality({s \in F : s < r})

LEMMA RanksIn ==
    ASSUME NEW F \in SUBSET Nat, IsFiniteSet(F)
    PROVE  /\ Cardinality(F) \in Nat
           /\ \A r \in F : RankIn(F, r) \in 0 .. Cardinality(F) - 1
           /\ \A r, s \in F : r < s => RankIn(F, r) < RankIn(F, s)
           /\ \A r, s \in F : RankIn(F, r) = RankIn(F, s) => r = s
           /\ \A k \in 0 .. Cardinality(F) - 1 : \E r \in F : RankIn(F, r) = k
<1> DEFINE B(r) == {s \in F : s < r}
           N == Cardinality(F)
           rank == [r \in F |-> RankIn(F, r)]
           I == 0 .. N - 1
<1>1. N \in Nat
  BY FS_CardinalityType
<1>2. \A r \in F : IsFiniteSet(B(r)) /\ Cardinality(B(r)) \in Nat
  <2> SUFFICES ASSUME NEW r \in F PROVE IsFiniteSet(B(r)) /\ Cardinality(B(r)) \in Nat
    OBVIOUS
  <2>1. IsFiniteSet(B(r))
    BY FS_Subset
  <2>2. QED
    BY <2>1, FS_CardinalityType
<1>3. \A r \in F : Cardinality(B(r)) < N
  <2> SUFFICES ASSUME NEW r \in F PROVE Cardinality(B(r)) < N
    OBVIOUS
  <2>1. B(r) \subseteq F /\ r \in F /\ r \notin B(r)
    OBVIOUS
  <2>2. B(r) # F
    BY <2>1
  <2>3. Cardinality(B(r)) <= N /\ (Cardinality(B(r)) = N => B(r) = F)
    BY <2>1, FS_Subset
  <2>4. QED
    BY <1>1, <1>2, <2>2, <2>3
<1>4. ASSUME NEW r \in F, NEW s \in F, r < s PROVE Cardinality(B(r)) < Cardinality(B(s))
  <2>1. B(r) \subseteq B(s)
    <3>1. \A k \in F : k < r => k < s
      BY <1>4
    <3>2. QED
      BY <3>1
  <2>2. r \in B(s) /\ r \notin B(r)
    BY <1>4
  <2>3. Cardinality(B(r)) <= Cardinality(B(s)) /\ (Cardinality(B(r)) = Cardinality(B(s)) => B(r) = B(s))
    BY <1>2, <2>1, FS_Subset
  <2>4. QED
    BY <1>2, <2>2, <2>3
<1>5. /\ \A r \in F : rank[r] \in I /\ rank[r] = RankIn(F, r)
      /\ \A r, s \in F : r < s => RankIn(F, r) < RankIn(F, s)
  BY <1>1, <1>2, <1>3, <1>4 DEF RankIn
<1>6. \A r, s \in F : RankIn(F, r) = RankIn(F, s) => r = s
  <2> SUFFICES ASSUME NEW r \in F, NEW s \in F, r # s PROVE RankIn(F, r) # RankIn(F, s)
    OBVIOUS
  <2>1. r < s \/ s < r
    OBVIOUS
  <2>2. RankIn(F, r) \in Nat /\ RankIn(F, s) \in Nat
    BY <1>1, <1>5
  <2>3. QED
    BY <1>5, <2>1, <2>2
<1>7. \A k \in I : \E r \in F : RankIn(F, r) = k
  <2> DEFINE R == {rank[r] : r \in F}
  <2>1. R \subseteq I
    BY <1>5
  <2>2. rank \in Bijection(F, R)
    <3>1. rank \in [F -> R] /\ \A r, s \in F : rank[r] = rank[s] => r = s
      BY <1>6
    <3>2. \A y \in R : \E r \in F : rank[r] = y
      OBVIOUS
    <3> HIDE DEF rank, R
    <3>3. QED
      BY <3>1, <3>2 DEF Bijection, Injection, IsInjective, Surjection
  <2>3. Cardinality(R) = N
    <3> HIDE DEF rank, R
    <3>1. ExistsBijection(F, R)
      BY <2>2 DEF ExistsBijection
    <3>2. QED
      BY <3>1, FS_Bijection
  <2>4. IsFiniteSet(I) /\ Cardinality(I) = N
    <3> HIDE DEF N
    <3>1. 0 \in Int /\ N - 1 \in Int /\ (IF 0 > N - 1 THEN 0 ELSE (N - 1) - 0 + 1) = N
      BY <1>1
    <3>2. IsFiniteSet(0 .. N - 1) /\ Cardinality(0 .. N - 1) = N
      BY <3>1, FS_Interval
    <3>3. QED
      BY <3>2
  <2> HIDE DEF R, I
  <2>5. R = I
    BY <2>1, <2>3, <2>4, FS_Subset
  <2>6. QED
    BY <1>5, <2>5 DEF R
<1>8. QED
  BY <1>1, <1>5, <1>6, <1>7

=============================================================================
