---------------------------- MODULE DecisionProofs ----------------------------
(***************************************************************************)
(* What the scaling decision and the two choices of an index guarantee for *)
(* every input and every fleet.                                            *)
(***************************************************************************)
EXTENDS Rcalculate, NodeIndex, FiniteSets, FiniteSetTheorems, WellFoundedInduction, TLAPS

\* A node is asked for only below MaxNode (rcalculate/main.go:220-235), and
\* whenever the fleet is below both MinNode and MaxNode.
THEOREM AddDecision ==
  ASSUME NEW in
  PROVE  /\ Calculate(in) = "ADD_NODE" => FleetSize(in) < in.max
         /\ FleetSize(in) < in.max /\ FleetSize(in) < in.min
              => Calculate(in) = "ADD_NODE"
BY DEF Calculate, NeedsNode

\* A node is given up only above MinNode, while some node is not stateful, and
\* when the fleet is not full in the sense that would add one
\* (rcalculate/main.go:253-263).
THEOREM DeleteDecision ==
  ASSUME NEW in, Calculate(in) = "DEL_NODE"
  PROVE  /\ FleetSize(in) > in.min
         /\ StatefulCount(in.nodes) < FleetSize(in)
         /\ FleetSize(in) < in.max => ~(TotalFilled(in) >= Threshold)
BY DEF Calculate, SparesNode, NeedsNode

\* The percentage of a usage does not grow with the memory it is compared to.
LEMMA PercentAntitone ==
  ASSUME NEW used \in Nat, NEW a \in Nat \ {0}, NEW b \in Nat, a <= b
  PROVE  Percent(used, b) <= Percent(used, a)
<1> DEFINE u == used * 100
           x == u \div a
           y == u \div b
<1>1. u \in Nat /\ b \in Nat \ {0}
  OBVIOUS
<1> HIDE DEF u
<1>2. x \in Nat /\ u < a * (x + 1)
  BY <1>1
<1>3. y \in Nat /\ b * y <= u
  BY <1>1
<1>4. ASSUME y > x PROVE FALSE
  <2>1. x + 1 <= y
    BY <1>2, <1>3, <1>4
  <2>2. a * (x + 1) <= b * (x + 1)
    BY <1>1, <1>2
  <2>3. b * (x + 1) <= b * y
    BY <1>1, <1>2, <1>3, <2>1
  <2>4. a * (x + 1) \in Nat /\ b * (x + 1) \in Nat /\ b * y \in Nat
    BY <1>1, <1>2, <1>3
  <2>5. QED BY <1>1, <1>2, <1>3, <2>2, <2>3, <2>4
<1>5. y <= x
  BY <1>2, <1>3, <1>4
<1>6. QED BY <1>1, <1>5 DEF Percent, u

-------------------------------------------------------------------------------
(***************************************************************************)
(* The indices of nodes.                                                   *)
(***************************************************************************)
\* A non-empty set of naturals has a smallest element.
LEMMA SmallestExists ==
  ASSUME NEW S \in SUBSET Nat, S # {}
  PROVE  \E i \in S : \A j \in S : i <= j
<1>1. PICK i \in S : \A j \in S : <<j, i>> \notin OpToRel(<, Nat)
  BY WFMin, NatLessThanWellFounded
<1>2. \A j \in S : ~(j < i)
  BY <1>1 DEF OpToRel
<1>3. \A j \in S : i <= j
  <2> TAKE j \in S
  <2>1. i \in Nat /\ j \in Nat
    OBVIOUS
  <2>2. QED BY <1>2, <2>1
<1>4. QED BY <1>3

\* Unless the listed nodes use all of 0 .. n-1 there is a first hole.
LEMMA FirstHole ==
  ASSUME NEW used, NEW n \in Nat, ~(\A i \in 0 .. n - 1 : i \in used)
  PROVE  /\ FreeIndex(used, n) \in 0 .. n - 1 /\ FreeIndex(used, n) \notin used
         /\ \A j \in 0 .. FreeIndex(used, n) - 1 : j \in used
<1> DEFINE Holes == {i \in 0 .. n - 1 : i \notin used}
<1>1. Holes \in SUBSET Nat /\ Holes # {}
  OBVIOUS
<1>2. PICK i \in Holes : \A j \in Holes : i <= j
  <2> HIDE DEF Holes
  <2>1. QED BY <1>1, SmallestExists
<1>3. /\ i \in 0 .. n - 1 /\ i \notin used
      /\ \A j \in 0 .. i - 1 : j \in used
  BY <1>2
<1>4. QED BY <1>3 DEF FreeIndex

\* The index given to a new worker node (nodepool_controller.go:317-332) is
\* used by none of the n listed nodes: either a hole was found, or the n nodes
\* use up 0 .. n-1 and, being no more than n, leave n itself free.
THEOREM FreeIndexFresh ==
  ASSUME NEW used \in SUBSET Nat, IsFiniteSet(used),
         NEW n \in Nat, Cardinality(used) <= n
  PROVE  FreeIndex(used, n) \in Nat \ used
<1>1. CASE \A i \in 0 .. n - 1 : i \in used
  <2>1. FreeIndex(used, n) = n
    BY <1>1 DEF FreeIndex
  <2>2. ASSUME n \in used PROVE FALSE
    <3>1. 0 .. n \in SUBSET used
      BY <1>1, <2>2
    <3>2. Cardinality(0 .. n) <= Cardinality(used)
      BY <3>1, FS_Subset
    <3>3. Cardinality(0 .. n) = n + 1
      BY FS_Interval
    <3>4. Cardinality(used) \in Nat
      BY FS_CardinalityType
    <3>5. QED BY <3>2, <3>3, <3>4
  <2>3. QED BY <2>1, <2>2
<1>2. CASE ~(\A i \in 0 .. n - 1 : i \in used)
  <2>1. FreeIndex(used, n) \in 0 .. n - 1 /\ FreeIndex(used, n) \notin used
    BY <1>2, FirstHole
  <2>2. QED BY <2>1
<1>3. QED BY <1>1, <1>2

\* ... and it is the lowest one that is free: the pool fills the holes that
\* deleted worker nodes left before it counts on.
THEOREM FreeIndexLowest ==
  ASSUME NEW used \in SUBSET Nat, IsFiniteSet(used),
         NEW n \in Nat, Cardinality(used) <= n
  PROVE  \A j \in Nat \ used : FreeIndex(used, n) <= j
<1>1. FreeIndex(used, n) \in Nat
  BY FreeIndexFresh
<1>2. \A j \in 0 .. FreeIndex(used, n) - 1 : j \in used
  <2>1. CASE \A i \in 0 .. n - 1 : i \in used
    BY <2>1 DEF FreeIndex
  <2>2. CASE ~(\A i \in 0 .. n - 1 : i \in used)
    BY <2>2, FirstHole
  <2>3. QED BY <2>1, <2>2
<1>3. QED BY <1>1, <1>2

\* A finite set of naturals that is not empty has a largest element.
LEMMA LargestExists ==
  ASSUME NEW S \in SUBSET Nat, IsFiniteSet(S), S # {}
  PROVE  \E i \in S : \A j \in S : j <= i
<1> DEFINE Bad(T) == /\ T \in SUBSET Nat /\ IsFiniteSet(T) /\ T # {}
                     /\ ~ \E i \in T : \A j \in T : j <= i
           Sizes == {Cardinality(T) : T \in {U \in SUBSET S : Bad(U)}}
<1> SUFFICES ASSUME Bad(S) PROVE FALSE
  OBVIOUS
<1>1. Sizes \in SUBSET Nat /\ Sizes # {}
  BY FS_CardinalityType
<1>2. PICK k \in Sizes : \A j \in Sizes : k <= j
  <2> HIDE DEF Sizes
  <2>1. QED BY <1>1, SmallestExists
<1>3. PICK T \in SUBSET S : Bad(T) /\ Cardinality(T) = k
  BY <1>2
<1>4. PICK x \in T : TRUE
  BY <1>3
<1> DEFINE R == T \ {x}
<1>5. IsFiniteSet(R) /\ Cardinality(R) = k - 1 /\ k \in Nat
  BY <1>1, <1>3, FS_RemoveElement
<1>6. ~Bad(R)
  <2>1. k - 1 \notin Sizes
    <3> HIDE DEF Sizes
    <3>1. QED BY <1>1, <1>2
  <2>2. R \in SUBSET S
    OBVIOUS
  <2>3. QED BY <1>5, <2>1, <2>2
<1>7. CASE R = {}
  <2>1. T = {x} /\ x \in Nat
    BY <1>3, <1>7
  <2>2. \A j \in T : j <= x
    BY <2>1
  <2>3. QED BY <1>3, <2>1, <2>2
<1>8. CASE R # {}
  <2>1. PICK y \in R : \A j \in R : j <= y
    BY <1>3, <1>5, <1>6, <1>8
  <2>2. x \in Nat /\ y \in Nat /\ \A j \in R : j \in Nat
    BY <1>3
  <2>3. CASE x <= y
    BY <1>3, <2>1, <2>3
  <2>4. CASE ~(x <= y)
    <3>1. \A j \in R : j <= x
      BY <2>1, <2>2, <2>4
    <3>2. x <= x
      BY <2>2
    <3>3. QED BY <1>3, <3>1, <3>2
  <2>5. QED BY <2>3, <2>4
<1>9. QED BY <1>7, <1>8

\* The index of the node that a pool deletes (nodepool_controller.go:341-347)
\* is the largest one in use.
THEOREM LastIndexIsLargest ==
  ASSUME NEW used \in SUBSET Nat, IsFiniteSet(used), used # {}
  PROVE  LastIndex(used) \in used /\ \A j \in used : j <= LastIndex(used)
BY LargestExists DEF LastIndex

-------------------------------------------------------------------------------
(***************************************************************************)
(* The memory of a set of nodes.  Memory is a sum in the order in which    *)
(* the fold happens to choose the nodes.  The lemmas show that the order   *)
(* does not matter; each argument by induction takes a counterexample of   *)
(* the least size.                                                         *)
(***************************************************************************)
Chosen(s) == CHOOSE x \in s : TRUE

\* One round of the fold over s, which has f for the smaller sets.
Partial(nodes, f, s) ==
  IF s = {} THEN 0 ELSE nodes[Chosen(s)].memory + f[s \ {Chosen(s)}]

\* f is the fold over the subsets of S.
IsFold(nodes, S, f) == f = [s \in SUBSET S |-> Partial(nodes, f, s)]

LEMMA MemoryIsFold ==
  ASSUME NEW nodes, NEW S
  PROVE  Memory(nodes, S) = (CHOOSE f : IsFold(nodes, S, f))[S]
BY DEF Memory, MapThenSumSet, MapThenFoldSet, IsFold, Partial, Chosen

LEMMA ChosenSmaller ==
  ASSUME NEW s, IsFiniteSet(s), s # {}
  PROVE  /\ Chosen(s) \in s
         /\ IsFiniteSet(s \ {Chosen(s)})
         /\ Cardinality(s \ {Chosen(s)}) = Cardinality(s) - 1
         /\ Cardinality(s) \in Nat \ {0}
<1>1. Chosen(s) \in s
  BY DEF Chosen
<1>2. Cardinality(s) \in Nat /\ Cardinality(s) # 0
  BY FS_CardinalityType, FS_EmptySet
<1>3. QED BY <1>1, <1>2, FS_RemoveElement

\* The fold exists: a function that is right for the sets of size k - 1 can be
\* made right for those of size k.
LEMMA FoldExists ==
  ASSUME NEW nodes, NEW S, IsFiniteSet(S)
  PROVE  \E f : IsFold(nodes, S, f)
<1> DEFINE Right(f, k) == /\ f = [s \in SUBSET S |-> f[s]]
                          /\ \A s \in SUBSET S :
                               Cardinality(s) <= k => f[s] = Partial(nodes, f, s)
           Bad == {k \in Nat : ~ \E f : Right(f, k)}
<1>0. \A s \in SUBSET S : /\ IsFiniteSet(s) /\ Cardinality(s) \in Nat
                          /\ Cardinality(s) <= Cardinality(S)
                          /\ s \ {Chosen(s)} \in SUBSET S
  BY FS_Subset, FS_CardinalityType
<1>1. CASE Bad = {}
  <2>1. Cardinality(S) \in Nat
    BY FS_CardinalityType
  <2>2. PICK f : Right(f, Cardinality(S))
    BY <1>1, <2>1
  <2>3. \A s \in SUBSET S : f[s] = Partial(nodes, f, s)
    BY <1>0, <2>2
  <2>4. f = [s \in SUBSET S |-> f[s]]
    BY <2>2
  <2>5. IsFold(nodes, S, f)
    BY <2>3, <2>4 DEF IsFold
  <2>6. QED BY <2>5
<1>2. CASE Bad # {}
  <2>1. Bad \in SUBSET Nat
    OBVIOUS
  <2>2. PICK k \in Bad : \A j \in Bad : k <= j
    <3> HIDE DEF Bad
    <3>1. QED BY <1>2, <2>1, SmallestExists
  <2>3. CASE k = 0
    <3> DEFINE z == [s \in SUBSET S |-> 0]
    <3>1. \A s \in SUBSET S : Cardinality(s) <= 0 => s = {}
      BY <1>0, FS_EmptySet
    <3>2. Right(z, 0)
      BY <3>1 DEF Partial
    <3>3. QED BY <2>2, <2>3, <3>2
  <2>4. CASE k # 0
    <3>1. k - 1 \in Nat /\ k \in Nat
      BY <2>1, <2>2, <2>4
    <3>2. k - 1 \notin Bad
      <4> HIDE DEF Bad
      <4>1. QED BY <2>2, <3>1
    <3>3. PICK f : Right(f, k - 1)
      BY <3>1, <3>2
    <3> DEFINE g == [s \in SUBSET S |->
                       IF Cardinality(s) <= k - 1 THEN f[s]
                       ELSE Partial(nodes, f, s)]
    <3>4. \A s \in SUBSET S : Cardinality(s) <= k - 1 => g[s] = f[s]
      OBVIOUS
    <3>5. \A s \in SUBSET S : g[s] = Partial(nodes, f, s)
      BY <3>3
    <3>6. \A s \in SUBSET S :
            Cardinality(s) <= k => Partial(nodes, g, s) = Partial(nodes, f, s)
      <4> SUFFICES ASSUME NEW s \in SUBSET S, Cardinality(s) <= k, s # {}
                   PROVE  g[s \ {Chosen(s)}] = f[s \ {Chosen(s)}]
        BY DEF Partial
      <4>1. Cardinality(s \ {Chosen(s)}) = Cardinality(s) - 1
            /\ Cardinality(s) \in Nat
        BY <1>0, ChosenSmaller
      <4>2. Cardinality(s \ {Chosen(s)}) <= k - 1
        BY <3>1, <4>1
      <4> HIDE DEF g
      <4>3. QED BY <1>0, <3>4, <4>2
    <3>7. g = [s \in SUBSET S |-> g[s]]
      OBVIOUS
    <3>8. Right(g, k)
      <4> HIDE DEF g
      <4>1. QED BY <3>5, <3>6, <3>7
    <3> HIDE DEF g
    <3>9. QED BY <2>2, <3>8
  <2>5. QED BY <2>3, <2>4
<1>3. QED BY <1>1, <1>2

\* Two folds agree on the sets that both know.
LEMMA FoldsAgree ==
  ASSUME NEW nodes, NEW S, IsFiniteSet(S), NEW T \in SUBSET S,
         NEW f, IsFold(nodes, S, f), NEW g, IsFold(nodes, T, g)
  PROVE  \A s \in SUBSET T : f[s] = g[s]
<1> DEFINE Bad == {Cardinality(s) : s \in {u \in SUBSET T : f[u] # g[u]}}
<1>0. \A s \in SUBSET T : IsFiniteSet(s) /\ Cardinality(s) \in Nat
  BY FS_Subset, FS_CardinalityType
<1> SUFFICES ASSUME Bad # {} PROVE FALSE
  OBVIOUS
<1>1. Bad \in SUBSET Nat
  BY <1>0
<1>2. PICK k \in Bad : \A j \in Bad : k <= j
  <2> HIDE DEF Bad
  <2>1. QED BY <1>1, SmallestExists
<1>3. PICK s \in SUBSET T : f[s] # g[s] /\ Cardinality(s) = k
  BY <1>2
<1>4. f[s] = Partial(nodes, f, s) /\ g[s] = Partial(nodes, g, s)
  <2>1. s \in SUBSET S
    OBVIOUS
  <2>2. QED BY <2>1 DEF IsFold
<1>5. s # {}
  BY <1>3, <1>4 DEF Partial
<1> DEFINE r == s \ {Chosen(s)}
<1>6. r \in SUBSET T /\ Cardinality(r) = k - 1 /\ k \in Nat
  BY <1>0, <1>3, <1>5, ChosenSmaller
<1>7. f[r] = g[r]
  <2>1. k - 1 \notin Bad
    <3> HIDE DEF Bad
    <3>1. QED BY <1>2, <1>6
  <2> HIDE DEF r
  <2>2. QED BY <1>6, <2>1
<1>8. QED BY <1>3, <1>4, <1>5, <1>7 DEF Partial

LEMMA MemoryUnfolds ==
  ASSUME NEW nodes, NEW S, IsFiniteSet(S)
  PROVE  Memory(nodes, S) =
           IF S = {} THEN 0
           ELSE nodes[Chosen(S)].memory + Memory(nodes, S \ {Chosen(S)})
<1> DEFINE T == S \ {Chosen(S)}
           f == CHOOSE f : IsFold(nodes, S, f)
           g == CHOOSE g : IsFold(nodes, T, g)
<1>1. T \in SUBSET S /\ IsFiniteSet(T)
  BY FS_Subset
<1>2. IsFold(nodes, S, f)
  BY FoldExists
<1>3. IsFold(nodes, T, g)
  <2> HIDE DEF T
  <2>1. QED BY <1>1, FoldExists
<1>4. Memory(nodes, S) = f[S]
  BY MemoryIsFold
<1>5. Memory(nodes, T) = g[T]
  <2> HIDE DEF T
  <2>1. QED BY MemoryIsFold
<1>6. f[S] = Partial(nodes, f, S)
  <2> HIDE DEF f
  <2>1. S \in SUBSET S
    OBVIOUS
  <2>2. QED BY <1>2, <2>1 DEF IsFold
<1>7. f[T] = g[T]
  <2> HIDE DEF f, g, T
  <2>1. QED BY <1>1, <1>2, <1>3, FoldsAgree
<1> HIDE DEF f, g
<1>8. QED BY <1>4, <1>5, <1>6, <1>7 DEF Partial

LEMMA MemoryEmpty ==
  ASSUME NEW nodes
  PROVE  Memory(nodes, {}) = 0
BY MemoryUnfolds, FS_EmptySet

HasMemory(nodes, S) == \A x \in S : nodes[x].memory \in Nat

LEMMA MemoryType ==
  ASSUME NEW nodes, NEW S, IsFiniteSet(S), HasMemory(nodes, S)
  PROVE  Memory(nodes, S) \in Nat
<1> DEFINE Bad == {Cardinality(s) : s \in {u \in SUBSET S : Memory(nodes, u) \notin Nat}}
<1>0. \A s \in SUBSET S : IsFiniteSet(s) /\ Cardinality(s) \in Nat
  BY FS_Subset, FS_CardinalityType
<1> SUFFICES ASSUME Bad # {} PROVE FALSE
  OBVIOUS
<1>1. Bad \in SUBSET Nat
  BY <1>0
<1>2. PICK k \in Bad : \A j \in Bad : k <= j
  <2> HIDE DEF Bad
  <2>1. QED BY <1>1, SmallestExists
<1>3. PICK s \in SUBSET S : Memory(nodes, s) \notin Nat /\ Cardinality(s) = k
  BY <1>2
<1> DEFINE r == s \ {Chosen(s)}
<1>4. s # {} /\ Memory(nodes, s) = nodes[Chosen(s)].memory + Memory(nodes, r)
  <2>1. s # {}
    BY <1>3, MemoryEmpty
  <2>2. QED BY <1>0, <2>1, MemoryUnfolds
<1>5. r \in SUBSET S /\ Cardinality(r) = k - 1 /\ k \in Nat /\ Chosen(s) \in S
  BY <1>0, <1>3, <1>4, ChosenSmaller
<1>6. Memory(nodes, r) \in Nat
  <2>1. k - 1 \notin Bad
    <3> HIDE DEF Bad
    <3>1. QED BY <1>2, <1>5
  <2> HIDE DEF r
  <2>2. QED BY <1>5, <2>1
<1>7. QED BY <1>3, <1>4, <1>5, <1>6 DEF HasMemory

\* The order of the sum does not matter: any node can be taken out of it.
LEMMA MemoryRemove ==
  ASSUME NEW nodes, NEW S, IsFiniteSet(S), HasMemory(nodes, S), NEW x \in S
  PROVE  /\ Memory(nodes, S) = nodes[x].memory + Memory(nodes, S \ {x})
         /\ Memory(nodes, S) \in Nat /\ Memory(nodes, S \ {x}) \in Nat
<1> DEFINE Splits(s, y) ==
             Memory(nodes, s) = nodes[y].memory + Memory(nodes, s \ {y})
           Bad == {Cardinality(s) : s \in {u \in SUBSET S : \E y \in u : ~Splits(u, y)}}
<1>0. \A s \in SUBSET S : /\ IsFiniteSet(s) /\ Cardinality(s) \in Nat
                          /\ HasMemory(nodes, s) /\ Memory(nodes, s) \in Nat
  BY FS_Subset, FS_CardinalityType, MemoryType DEF HasMemory
<1>1. Bad \in SUBSET Nat
  BY <1>0
<1>2. ASSUME Bad # {} PROVE FALSE
  <2>1. PICK k \in Bad : \A j \in Bad : k <= j
    <3> HIDE DEF Bad
    <3>1. QED BY <1>1, <1>2, SmallestExists
  <2>2. PICK s \in SUBSET S : (\E y \in s : ~Splits(s, y)) /\ Cardinality(s) = k
    BY <2>1
  <2>3. PICK y \in s : ~Splits(s, y)
    BY <2>2
  <2> DEFINE c == Chosen(s)
             r == s \ {c}
             t == s \ {y}
  <2>4. c \in s /\ Splits(s, c)
    BY <1>0, <2>3, MemoryUnfolds, ChosenSmaller
  <2>5. c # y
    BY <2>3, <2>4
  <2> HIDE DEF c
  <2>6. /\ Cardinality(r) = k - 1 /\ Cardinality(t) = k - 1 /\ k \in Nat
        /\ r \in SUBSET S /\ t \in SUBSET S
    BY <1>0, <2>2, <2>4, FS_RemoveElement
  <2>7. Splits(r, y) /\ Splits(t, c)
    <3>1. k - 1 \notin Bad
      <4> HIDE DEF Bad
      <4>1. QED BY <2>1, <2>6
    <3>2. y \in r /\ c \in t
      BY <2>4, <2>5
    <3> HIDE DEF Splits, r, t
    <3>3. QED BY <2>6, <3>1, <3>2
  <2>8. r \ {y} = t \ {c}
    OBVIOUS
  <2>9. /\ nodes[c].memory \in Nat /\ nodes[y].memory \in Nat
        /\ Memory(nodes, r \ {y}) \in Nat
    BY <1>0, <2>4 DEF HasMemory
  <2> HIDE DEF r, t
  <2>10. Memory(nodes, s) = nodes[c].memory + Memory(nodes, r)
    BY <2>4 DEF r
  <2>11. Memory(nodes, t) = nodes[c].memory + Memory(nodes, r \ {y})
    BY <2>7, <2>8
  <2>12. Memory(nodes, r) = nodes[y].memory + Memory(nodes, r \ {y})
    BY <2>7
  <2>13. Splits(s, y)
    <3>1. Memory(nodes, s) = nodes[y].memory + Memory(nodes, t)
      BY <2>9, <2>10, <2>11, <2>12
    <3>2. QED BY <3>1 DEF t
  <2>14. QED BY <2>3, <2>13
<1>3. Splits(S, x)
  <2>1. S \in SUBSET S
    OBVIOUS
  <2>2. Cardinality(S) \notin Bad
    <3> HIDE DEF Bad
    <3>1. QED BY <1>2
  <2> HIDE DEF Splits
  <2>3. QED BY <2>1, <2>2
<1>4. Memory(nodes, S) \in Nat /\ Memory(nodes, S \ {x}) \in Nat
  BY <1>0
<1>5. QED BY <1>3, <1>4

\* Only the memory of the nodes counts.
LEMMA MemorySame ==
  ASSUME NEW nodes, NEW other, NEW S, IsFiniteSet(S),
         \A x \in S : nodes[x].memory = other[x].memory
  PROVE  Memory(nodes, S) = Memory(other, S)
<1> DEFINE Bad == {Cardinality(s) :
                     s \in {u \in SUBSET S : Memory(nodes, u) # Memory(other, u)}}
<1>0. \A s \in SUBSET S : IsFiniteSet(s) /\ Cardinality(s) \in Nat
  BY FS_Subset, FS_CardinalityType
<1>1. Bad \in SUBSET Nat
  BY <1>0
<1> SUFFICES ASSUME Bad # {} PROVE FALSE
  OBVIOUS
<1>2. PICK k \in Bad : \A j \in Bad : k <= j
  <2> HIDE DEF Bad
  <2>1. QED BY <1>1, SmallestExists
<1>3. PICK s \in SUBSET S : Memory(nodes, s) # Memory(other, s) /\ Cardinality(s) = k
  BY <1>2
<1>4. s # {}
  BY <1>0, <1>3, MemoryUnfolds
<1> DEFINE r == s \ {Chosen(s)}
<1>5. r \in SUBSET S /\ Cardinality(r) = k - 1 /\ k \in Nat /\ Chosen(s) \in S
  BY <1>0, <1>3, <1>4, ChosenSmaller
<1>6. Memory(nodes, r) = Memory(other, r)
  <2>1. k - 1 \notin Bad
    <3> HIDE DEF Bad
    <3>1. QED BY <1>2, <1>5
  <2> HIDE DEF r
  <2>2. QED BY <1>5, <2>1
<1>7. /\ Memory(nodes, s) = nodes[Chosen(s)].memory + Memory(nodes, r)
      /\ Memory(other, s) = other[Chosen(s)].memory + Memory(other, r)
  BY <1>0, <1>4, MemoryUnfolds
<1>8. QED BY <1>3, <1>5, <1>6, <1>7

\* The memory of equal nodes is their number times the memory of one.
LEMMA MemoryOfEqual ==
  ASSUME NEW nodes, NEW S, IsFiniteSet(S), NEW m \in Nat,
         \A x \in S : nodes[x].memory = m
  PROVE  Memory(nodes, S) = Cardinality(S) * m
<1> DEFINE Good(s) == Memory(nodes, s) = Cardinality(s) * m
           Bad == {Cardinality(s) : s \in {u \in SUBSET S : ~Good(u)}}
<1>0. \A s \in SUBSET S : IsFiniteSet(s) /\ Cardinality(s) \in Nat
  BY FS_Subset, FS_CardinalityType
<1>1. Bad \in SUBSET Nat
  BY <1>0
<1> SUFFICES ASSUME Bad # {} PROVE FALSE
  OBVIOUS
<1>2. PICK k \in Bad : \A j \in Bad : k <= j
  <2> HIDE DEF Bad
  <2>1. QED BY <1>1, SmallestExists
<1>3. PICK s \in SUBSET S : ~Good(s) /\ Cardinality(s) = k
  BY <1>2
<1>4. s # {}
  <2>1. Cardinality({}) = 0 /\ 0 * m = 0
    BY FS_EmptySet
  <2>2. Good({})
    BY <2>1, MemoryEmpty
  <2>3. QED BY <1>3, <2>2
<1> DEFINE r == s \ {Chosen(s)}
<1>5. r \in SUBSET S /\ Cardinality(r) = k - 1 /\ k \in Nat /\ Chosen(s) \in S
  BY <1>0, <1>3, <1>4, ChosenSmaller
<1>6. Memory(nodes, r) = (k - 1) * m
  <2>1. k - 1 \notin Bad
    <3> HIDE DEF Bad
    <3>1. QED BY <1>2, <1>5
  <2>2. Good(r)
    <3> HIDE DEF r, Good
    <3>1. QED BY <1>5, <2>1
  <2>3. QED BY <1>5, <2>2
<1>7. Memory(nodes, s) = m + Memory(nodes, r)
  BY <1>0, <1>4, <1>5, MemoryUnfolds
<1>8. m + (k - 1) * m = k * m
  BY <1>5
<1>9. QED BY <1>3, <1>6, <1>7, <1>8

-------------------------------------------------------------------------------
(***************************************************************************)
(* What the percentages say.                                               *)
(***************************************************************************)
LEMMA PercentType ==
  ASSUME NEW used \in Nat, NEW a \in Nat
  PROVE  Percent(used, a) \in Nat
<1> DEFINE u == used * 100
<1>1. u \in Nat
  OBVIOUS
<1> HIDE DEF u
<1>2. a # 0 => u \div a \in Nat
  BY <1>1
<1>3. QED BY <1>2 DEF Percent, u

\* To assume that a node is given up never makes a fleet look less full,
\* whichever node comes first in the listing and whatever the sizes of the
\* nodes; so a node is given up only when the fleet as it is is filled less
\* than the threshold of a deletion, also at Spec.Max, where no node could be
\* added again (rcalculate/main.go:148-186, 253-263).
THEOREM DeletionNeedsRoom ==
  ASSUME NEW in, Calculate(in) = "DEL_NODE",
         IsFiniteSet(DOMAIN in.nodes), HasMemory(in.nodes, DOMAIN in.nodes),
         in.totalUsed \in Nat, in.min \in Nat, in.first \in DOMAIN in.nodes,
         Threshold <= 205
  PROVE  TotalFilled(in) < Threshold - 5
<1> DEFINE used == in.totalUsed + Buffer
           all  == Allocatable(in.nodes)
           rest == all - in.nodes[in.first].memory
<1>1. FilledByAssumingLess(in) < Threshold - 5 /\ Threshold \in Nat
  BY DecisionAssumption DEF Calculate, SparesNode
<1>2. CASE in.totalUsed = 0
  BY <1>1, <1>2 DEF FilledByAssumingLess, TotalFilled
<1>3. CASE in.totalUsed # 0
  <2>1. /\ all = in.nodes[in.first].memory
                   + Memory(in.nodes, DOMAIN in.nodes \ {in.first})
        /\ all \in Nat
        /\ Memory(in.nodes, DOMAIN in.nodes \ {in.first}) \in Nat
        /\ in.nodes[in.first].memory \in Nat
    BY MemoryRemove DEF Allocatable, HasMemory
  <2>2. used \in Nat
    BY DecisionAssumption
  <2>3. FilledByAssumingLess(in) = Percent(used, rest)
    BY <1>3 DEF FilledByAssumingLess
  <2>4. TotalFilled(in) = Percent(used, all)
    BY <1>3 DEF TotalFilled
  <2>5. rest \in Nat /\ rest <= all
    BY <2>1
  <2>6. rest # 0
    BY <1>1, <2>3 DEF Percent
  <2> HIDE DEF used, all, rest
  <2>7. /\ Percent(used, all) <= Percent(used, rest)
        /\ Percent(used, all) \in Nat /\ Percent(used, rest) \in Nat
    BY <2>1, <2>2, <2>5, <2>6, PercentAntitone, PercentType
  <2>8. QED BY <1>1, <2>3, <2>4, <2>7
<1>4. QED BY <1>2, <1>3

===============================================================================
