--------------------------- MODULE ScaleLoopProofs ---------------------------
(***************************************************************************)
(* In the sequential autoscaler the indices stay dense and the stateful    *)
(* nodes stay in front, for every pool, load and node size; so deleting    *)
(* the last node never deletes a stateful one.                             *)
(***************************************************************************)
EXTENDS ScaleLoop, DecisionProofs

\* The shape of a fleet of n nodes of which the first c are stateful.
Shape(f, n, c) ==
  /\ n \in Nat /\ c \in 0 .. n
  /\ DOMAIN f = 0 .. n - 1
  /\ StatefulNodes(f) = 0 .. c - 1

LEMMA ShapeCounts ==
  ASSUME NEW f, NEW n, NEW c, Shape(f, n, c)
  PROVE  Cardinality(DOMAIN f) = n /\ StatefulCount(f) = c
<1>1. Cardinality(0 .. n - 1) = n /\ Cardinality(0 .. c - 1) = c
  BY FS_Interval DEF Shape
<1>2. QED BY <1>1 DEF Shape, StatefulCount

LEMMA ShapeIsStatefulFirst ==
  ASSUME NEW n, NEW c, Shape(fleet, n, c)
  PROVE  StatefulFirst
BY ShapeCounts DEF Shape, StatefulFirst

LEMMA StatefulFirstIsShape ==
  ASSUME TypeOK, StatefulFirst
  PROVE  Shape(fleet, Cardinality(DOMAIN fleet), StatefulCount(fleet))
<1>1. StatefulNodes(fleet) \in SUBSET DOMAIN fleet
  BY DEF StatefulNodes
<1>2. /\ Cardinality(DOMAIN fleet) \in Nat /\ StatefulCount(fleet) \in Nat
      /\ StatefulCount(fleet) <= Cardinality(DOMAIN fleet)
  BY <1>1, FS_Subset, FS_CardinalityType DEF TypeOK, StatefulCount
<1>3. QED BY <1>2 DEF Shape, StatefulFirst

LEMMA AddKeepsShape ==
  ASSUME TypeOK, NEW n, NEW c, Shape(fleet, n, c), AddNode
  PROVE  Shape(fleet', n + 1, c)
<1>1. Cardinality(DOMAIN fleet) = n
  BY ShapeCounts
<1>2. FreeIndex(DOMAIN fleet, n) = n
  BY DEF FreeIndex, Shape
<1>3. PICK m \in Sizes :
        fleet' = [j \in DOMAIN fleet \cup {n} |->
                    IF j = n THEN [memory |-> m, stateful |-> FALSE]
                    ELSE fleet[j]]
  BY <1>1, <1>2 DEF AddNode
<1>4. DOMAIN fleet' = 0 .. n /\ n \notin DOMAIN fleet
  BY <1>3 DEF Shape
<1>5. \A j \in DOMAIN fleet : fleet'[j] = fleet[j]
  BY <1>3, <1>4
<1>6. fleet'[n].stateful = FALSE
  BY <1>3
<1>7. StatefulNodes(fleet') = StatefulNodes(fleet)
  BY <1>3, <1>4, <1>5, <1>6 DEF StatefulNodes
<1>8. QED BY <1>4, <1>7 DEF Shape

LEMMA DeleteKeepsShape ==
  ASSUME TypeOK, NEW n, NEW c, Shape(fleet, n, c), DeleteNode
  PROVE  /\ Shape(fleet', n - 1, c)
         /\ StatefulNodes(fleet) \subseteq DOMAIN fleet'
<1>1. PICK first : Calculate(Input(first)) = "DEL_NODE"
  BY DEF DeleteNode, Decides
<1>2. StatefulCount(Input(first).nodes) < FleetSize(Input(first))
  BY <1>1, DeleteDecision
<1>3. c < n
  BY <1>2, ShapeCounts DEF Input, FleetSize
<1>4. LastIndex(DOMAIN fleet) = n - 1
  BY <1>3 DEF Shape, LastIndex
<1>5. fleet' = [j \in 0 .. n - 2 |-> fleet[j]]
  BY <1>3, <1>4 DEF DeleteNode, Restrict, Shape
<1>6. StatefulNodes(fleet') = 0 .. c - 1
  BY <1>3, <1>5 DEF StatefulNodes, Shape
<1>7. QED BY <1>3, <1>5, <1>6 DEF Shape

LEMMA TagKeepsShape ==
  ASSUME TypeOK, NEW n, NEW c, Shape(fleet, n, c), AddStateful
  PROVE  /\ Shape(fleet', n, c + 1)
         /\ fleet' # fleet
<1>1. PICK first : Calculate(Input(first)) = "ADD_STATEFUL"
  BY DEF AddStateful, Decides
<1>2. NeedsStateful(Input(first))
  BY <1>1 DEF Calculate
<1>3. /\ FleetSize(Input(first)) = n
      /\ StatefulCount(Input(first).nodes) = c
  BY ShapeCounts DEF Input, FleetSize
<1>4. c < n
  BY <1>2, <1>3 DEF NeedsStateful, Shape
<1>5. fleet' = [j \in DOMAIN fleet |->
                  IF j = c THEN [fleet[j] EXCEPT !.stateful = TRUE] ELSE fleet[j]]
  BY ShapeCounts DEF AddStateful
<1>6. c \in DOMAIN fleet /\ c \notin StatefulNodes(fleet)
  BY <1>4 DEF Shape
<1>7. fleet[c] \in [memory : Sizes, stateful : BOOLEAN]
  BY <1>6 DEF TypeOK
<1>8. fleet'[c] = [fleet[c] EXCEPT !.stateful = TRUE]
  BY <1>5, <1>6
<1>9. fleet'[c].stateful
  BY <1>7, <1>8
<1>10. \A j \in DOMAIN fleet : j # c => fleet'[j] = fleet[j]
  BY <1>5
<1>11. DOMAIN fleet' = DOMAIN fleet
  BY <1>5
<1>12. StatefulNodes(fleet') = StatefulNodes(fleet) \cup {c}
  BY <1>6, <1>9, <1>10, <1>11 DEF StatefulNodes
<1>13. fleet' # fleet
  BY <1>6, <1>9 DEF StatefulNodes
<1>14. QED BY <1>4, <1>11, <1>12, <1>13 DEF Shape

-------------------------------------------------------------------------------
\* A round leaves the fleet alone, adds, deletes or tags; a change of load or
\* of bounds leaves it alone.
LEMMA StepKeepsShape ==
  ASSUME TypeOK, StatefulFirst, [Next]_vars
  PROVE  StatefulFirst'
<1> DEFINE n == Cardinality(DOMAIN fleet)
           c == StatefulCount(fleet)
<1>1. Shape(fleet, n, c)
  BY StatefulFirstIsShape
<1>2. \A k, d : Shape(fleet', k, d) => StatefulFirst'
  BY ShapeCounts DEF Shape, StatefulFirst
<1>3. CASE AddNode
  BY <1>1, <1>2, <1>3, AddKeepsShape
<1>4. CASE DeleteNode
  BY <1>1, <1>2, <1>4, DeleteKeepsShape
<1>5. CASE AddStateful
  BY <1>1, <1>2, <1>5, TagKeepsShape
<1>6. CASE UNCHANGED fleet
  BY <1>6 DEF StatefulFirst, StatefulNodes, StatefulCount
<1>7. QED BY <1>3, <1>4, <1>5, <1>6
          DEF Next, Round, Neutral, Change, vars

LEMMA StepKeepsType ==
  ASSUME TypeOK, StatefulFirst, [Next]_vars
  PROVE  TypeOK'
<1> DEFINE n == Cardinality(DOMAIN fleet)
           c == StatefulCount(fleet)
           Node == [memory : Sizes, stateful : BOOLEAN]
           FleetOK(f) == /\ DOMAIN f \subseteq Nat
                         /\ IsFiniteSet(DOMAIN f)
                         /\ f \in [DOMAIN f -> Node]
<1>1. Shape(fleet, n, c) /\ FleetOK(fleet)
  BY StatefulFirstIsShape DEF TypeOK
<1>2. CASE AddNode
  <2> DEFINE i == FreeIndex(DOMAIN fleet, n)
  <2>1. PICK m \in Sizes :
          fleet' = [j \in DOMAIN fleet \cup {i} |->
                      IF j = i THEN [memory |-> m, stateful |-> FALSE]
                      ELSE fleet[j]]
    BY <1>2 DEF AddNode
  <2>2. i \in Nat
    BY <1>1 DEF FreeIndex, Shape
  <2>3. IsFiniteSet(DOMAIN fleet \cup {i})
    BY <1>1, FS_AddElement
  <2> HIDE DEF i
  <2>4. FleetOK(fleet')
    BY <1>1, <2>1, <2>2, <2>3
  <2>5. QED BY <1>2, <2>4 DEF AddNode, Decides, TypeOK, Actions
<1>3. CASE DeleteNode
  <2> DEFINE left == DOMAIN fleet \ {LastIndex(DOMAIN fleet)}
  <2>1. fleet' = [j \in left |-> fleet[j]]
    BY <1>3 DEF DeleteNode, Restrict
  <2>2. left \subseteq DOMAIN fleet /\ IsFiniteSet(left)
    BY <1>1, FS_Subset
  <2> HIDE DEF left
  <2>3. FleetOK(fleet')
    BY <1>1, <2>1, <2>2
  <2>4. QED BY <1>3, <2>3 DEF DeleteNode, Decides, TypeOK, Actions
<1>4. CASE AddStateful
  <2>1. fleet' = [j \in DOMAIN fleet |->
                    IF j = c THEN [fleet[j] EXCEPT !.stateful = TRUE]
                    ELSE fleet[j]]
    BY <1>4 DEF AddStateful
  <2>2. FleetOK(fleet')
    BY <1>1, <2>1
  <2>3. QED BY <1>4, <2>2 DEF AddStateful, Decides, TypeOK, Actions
<1>5. CASE Neutral
  BY <1>5 DEF Neutral, Decides, TypeOK, Actions
<1>6. CASE Change
  BY <1>6 DEF Change, TypeOK
<1>7. CASE UNCHANGED vars
  BY <1>7 DEF vars, TypeOK
<1>8. QED BY <1>2, <1>3, <1>4, <1>5, <1>6, <1>7 DEF Next, Round

LEMMA InitOK == Init => TypeOK /\ StatefulFirst
<1> SUFFICES ASSUME Init PROVE TypeOK /\ StatefulFirst
  OBVIOUS
<1>1. DOMAIN fleet = {}
  BY DEF Init
<1>2. IsFiniteSet({}) /\ Cardinality({}) = 0
  BY FS_EmptySet
<1>3. fleet \in [DOMAIN fleet -> [memory : Sizes, stateful : BOOLEAN]]
  BY <1>1 DEF Init
<1>4. Shape(fleet, 0, 0)
  BY <1>1 DEF Shape, StatefulNodes
<1>5. QED BY <1>1, <1>2, <1>3, <1>4, ShapeIsStatefulFirst DEF Init, TypeOK

\* The variables keep their types, and the invariant StatefulFirst holds: the
\* indices of the fleet are 0 .. n-1 and its stateful nodes are the first
\* ones, for every load and every node size (nodepool_controller.go:317-387).
THEOREM StaysShaped == Spec => [](TypeOK /\ StatefulFirst)
<1>1. TypeOK /\ StatefulFirst /\ [Next]_vars => TypeOK' /\ StatefulFirst'
  BY StepKeepsType, StepKeepsShape
<1>2. QED BY InitOK, <1>1, PTL DEF Spec

\* StatefulFirst as the runs check it.
THEOREM StatefulInFront == Spec => []StatefulFirst
BY StaysShaped, PTL

\* A stateful node is never deleted, and deciding to tag a node always finds
\* one to tag (nodepool_controller.go:341-387).
THEOREM StatefulStays == Spec => StatefulKept
<1> DEFINE n == Cardinality(DOMAIN fleet)
           c == StatefulCount(fleet)
           Kept == /\ StatefulNodes(fleet) \subseteq DOMAIN fleet'
                   /\ AddStateful => fleet' # fleet
<1>1. TypeOK /\ StatefulFirst /\ [Next]_vars => [Kept]_vars
  <2> SUFFICES ASSUME TypeOK, StatefulFirst, Next
               PROVE  Kept
    BY DEF vars
  <2>1. Shape(fleet, n, c)
    BY StatefulFirstIsShape
  <2>2. StatefulNodes(fleet) \subseteq DOMAIN fleet
    BY DEF StatefulNodes
  <2>3. AddStateful => fleet' # fleet
    BY <2>1, TagKeepsShape
  <2>4. StatefulNodes(fleet) \subseteq DOMAIN fleet'
    <3>1. CASE AddNode
      BY <2>2, <3>1 DEF AddNode
    <3>2. CASE DeleteNode
      BY <2>1, <3>2, DeleteKeepsShape
    <3>3. CASE AddStateful
      BY <2>2, <3>3 DEF AddStateful
    <3>4. CASE UNCHANGED fleet
      BY <2>2, <3>4
    <3>5. QED BY <3>1, <3>2, <3>3, <3>4 DEF Next, Round, Neutral, Change
  <2>5. QED BY <2>3, <2>4
<1>2. QED BY StaysShaped, <1>1, PTL DEF Spec, StatefulKept

\* A node is added only below Spec.Max and deleted only above Spec.Min,
\* whatever the load and the sizes of the nodes (rcalculate/main.go:210-262).
THEOREM BoundsKept == Spec => WithinBounds
<1> DEFINE n  == Cardinality(DOMAIN fleet)
           n1 == Cardinality(DOMAIN fleet')
           c  == StatefulCount(fleet)
           Within == /\ n1 > n => n < bounds.max
                     /\ n1 < n => n1 >= bounds.min
<1>1. TypeOK /\ StatefulFirst /\ [Next]_vars => [Within]_vars
  <2> SUFFICES ASSUME TypeOK, StatefulFirst, Next
               PROVE  Within
    BY DEF vars
  <2>1. Shape(fleet, n, c) /\ n \in Nat
    BY StatefulFirstIsShape DEF Shape
  <2>2. bounds.min \in Nat /\ bounds.max \in Nat
    BY BoundsAssumption DEF TypeOK
  <2> HIDE DEF n, c
  <2>3. CASE AddNode
    <3>1. PICK first : Calculate(Input(first)) = "ADD_NODE"
      BY <2>3 DEF AddNode, Decides
    <3>2. n < bounds.max
      BY <3>1, AddDecision DEF Input, FleetSize, n
    <3>3. n1 = n + 1
      BY <2>1, <2>3, AddKeepsShape, ShapeCounts
    <3>4. QED BY <2>1, <3>2, <3>3
  <2>4. CASE DeleteNode
    <3>1. PICK first : Calculate(Input(first)) = "DEL_NODE"
      BY <2>4 DEF DeleteNode, Decides
    <3>2. n > bounds.min
      BY <3>1, DeleteDecision DEF Input, FleetSize, n
    <3>3. n1 = n - 1
      BY <2>1, <2>4, DeleteKeepsShape, ShapeCounts
    <3>4. QED BY <2>1, <2>2, <3>2, <3>3
  <2>5. CASE AddStateful
    <3>1. n1 = n
      BY <2>1, <2>5, TagKeepsShape, ShapeCounts
    <3>2. QED BY <2>1, <3>1
  <2>6. CASE UNCHANGED fleet
    BY <2>1, <2>6 DEF n
  <2>7. QED BY <2>3, <2>4, <2>5, <2>6 DEF Next, Round, Neutral, Change
<1>2. QED BY StaysShaped, <1>1, PTL DEF Spec, WithinBounds
-------------------------------------------------------------------------------
(***************************************************************************)
(* Nodes of one size.  A pool buys one type of machine, so as long as its  *)
(* instance type is not edited all nodes are equal, and the node that is   *)
(* listed first stands for the one that is deleted.                        *)
(***************************************************************************)

\* How full n nodes of memory m are, in the sense of the decision.
Fill(m, n) ==
  IF usage.totalUsed = 0 THEN 0 ELSE Percent(usage.totalUsed + Buffer, n * m)

Size == Cardinality(DOMAIN fleet)

LEMMA FillType ==
  ASSUME TypeOK, NEW m \in Nat, NEW n \in Nat
  PROVE  Fill(m, n) \in Nat
<1>1. usage.totalUsed + Buffer \in Nat /\ n * m \in Nat
  BY DecisionAssumption, BoundsAssumption DEF TypeOK
<1>2. QED BY <1>1, PercentType DEF Fill

LEMMA SizeType ==
  ASSUME TypeOK
  PROVE  Size \in Nat /\ IsFiniteSet(DOMAIN fleet)
BY FS_CardinalityType DEF TypeOK, Size

\* The fleet's memory, with and without the node that is listed first.
LEMMA EqualAllocatable ==
  ASSUME TypeOK, NEW m \in Nat, Sizes \subseteq {m}
  PROVE  /\ Allocatable(fleet) = Size * m
         /\ \A x \in DOMAIN fleet : fleet[x].memory = m
         /\ \A x \in DOMAIN fleet :
              /\ Allocatable(fleet) - fleet[x].memory = (Size - 1) * m
              /\ Memory(fleet, DOMAIN fleet \ {x}) = (Size - 1) * m
<1>1. \A x \in DOMAIN fleet : fleet[x].memory = m
  BY DEF TypeOK
<1>2. IsFiniteSet(DOMAIN fleet) /\ Size \in Nat
  BY SizeType
<1>3. Allocatable(fleet) = Size * m
  BY <1>1, <1>2, MemoryOfEqual DEF Allocatable, Size
<1>4. ASSUME NEW x \in DOMAIN fleet
      PROVE  /\ Allocatable(fleet) - fleet[x].memory = (Size - 1) * m
             /\ Memory(fleet, DOMAIN fleet \ {x}) = (Size - 1) * m
  <2>1. Size * m - m = (Size - 1) * m
    BY <1>2
  <2>2. /\ IsFiniteSet(DOMAIN fleet \ {x})
        /\ Cardinality(DOMAIN fleet \ {x}) = Size - 1
    BY <1>2, FS_RemoveElement DEF Size
  <2>3. \A y \in DOMAIN fleet \ {x} : fleet[y].memory = m
    BY <1>1
  <2>4. Memory(fleet, DOMAIN fleet \ {x}) = (Size - 1) * m
    BY <2>2, <2>3, MemoryOfEqual
  <2>5. QED BY <1>1, <1>3, <2>1, <2>4
<1>5. QED BY <1>1, <1>3, <1>4

\* What an addition and a deletion say of the fleet they are decided on.
LEMMA EqualAdd ==
  ASSUME TypeOK, NEW m \in Nat, Sizes \subseteq {m}, Decides("ADD_NODE")
  PROVE  /\ Size < bounds.max
         /\ Size < bounds.min \/ Fill(m, Size) >= Threshold
<1>1. PICK first : Calculate(Input(first)) = "ADD_NODE"
  BY DEF Decides
<1>2. NeedsNode(Input(first))
  BY <1>1 DEF Calculate
<1>3. TotalFilled(Input(first)) = Fill(m, Size)
  BY EqualAllocatable DEF TotalFilled, Input, Fill
<1>4. FleetSize(Input(first)) = Size
  BY DEF FleetSize, Input, Size
<1>5. QED BY <1>2, <1>3, <1>4 DEF NeedsNode, Input

LEMMA EqualDelete ==
  ASSUME TypeOK, NEW m \in Nat, Sizes \subseteq {m}, Decides("DEL_NODE")
  PROVE  /\ Size > bounds.min /\ Size \in Nat \ {0}
         /\ StatefulCount(fleet) < Size
         /\ Fill(m, Size - 1) < Threshold - 5
<1>1. PICK first \in Firsts : Calculate(Input(first)) = "DEL_NODE"
  BY DEF Decides
<1>2. SparesNode(Input(first))
  BY <1>1 DEF Calculate
<1>3. Size \in Nat /\ IsFiniteSet(DOMAIN fleet) /\ bounds.min \in Nat
  BY SizeType, BoundsAssumption DEF TypeOK
<1>4. Size > bounds.min /\ StatefulCount(fleet) < Size
  BY <1>2 DEF SparesNode, FleetSize, Input, Size
<1>5. Size # 0
  BY <1>3, <1>4
<1>6. DOMAIN fleet # {}
  BY <1>5, FS_EmptySet DEF Size
<1>7. first \in DOMAIN fleet
  BY <1>6 DEF Firsts
<1>8. FilledByAssumingLess(Input(first)) = Fill(m, Size - 1)
  BY <1>6, <1>7, EqualAllocatable DEF FilledByAssumingLess, Input, Fill
<1>9. QED BY <1>2, <1>3, <1>4, <1>5, <1>8 DEF SparesNode

\* How a step changes the number of nodes and of stateful nodes.
LEMMA StepSizes ==
  ASSUME TypeOK, StatefulFirst
  PROVE  /\ AddNode => Size' = Size + 1 /\ StatefulCount(fleet') = StatefulCount(fleet)
         /\ DeleteNode => Size' = Size - 1 /\ StatefulCount(fleet') = StatefulCount(fleet)
         /\ AddStateful => Size' = Size /\ StatefulCount(fleet') = StatefulCount(fleet) + 1
         /\ StatefulCount(fleet) \in 0 .. Size
<1> DEFINE n == Size
           c == StatefulCount(fleet)
<1>1. Shape(fleet, n, c)
  BY StatefulFirstIsShape DEF Size
<1>2. \A k, d : Shape(fleet', k, d) => Size' = k /\ StatefulCount(fleet') = d
  BY ShapeCounts DEF Size
<1>3. AddNode => Shape(fleet', n + 1, c)
  BY <1>1, AddKeepsShape
<1>4. DeleteNode => Shape(fleet', n - 1, c)
  BY <1>1, DeleteKeepsShape
<1>5. AddStateful => Shape(fleet', n, c + 1)
  BY <1>1, TagKeepsShape
<1>6. c \in 0 .. n
  BY <1>1 DEF Shape
<1> HIDE DEF n, c
<1>7. QED BY <1>2, <1>3, <1>4, <1>5, <1>6 DEF n, c

\* Once a node was added under this load, one node less was too few for it;
\* once one was deleted, the nodes that are left are enough.  This is what the
\* rounds under one load remember of each other.
Directed(m) ==
  /\ "ADD_NODE" \in seen =>
       /\ Size \in 1 .. bounds.max
       /\ Size - 1 < bounds.min \/ Fill(m, Size - 1) >= Threshold
  /\ "DEL_NODE" \in seen =>
       Size >= bounds.min /\ Fill(m, Size) < Threshold - 5

LEMMA DirectedStep ==
  ASSUME TypeOK, StatefulFirst, NEW m \in Nat, Sizes \subseteq {m},
         NoFlapping, Directed(m), [Next]_vars
  PROVE  NoFlapping' /\ Directed(m)'
<1>0. /\ Size \in Nat /\ bounds.min \in Nat /\ bounds.max \in Nat
      /\ Threshold \in Nat
  BY SizeType, BoundsAssumption, DecisionAssumption DEF TypeOK
<1>1. CASE AddNode
  <2>1. /\ Size < bounds.max /\ Size' = Size + 1
        /\ Size < bounds.min \/ Fill(m, Size) >= Threshold
    BY <1>1, EqualAdd, StepSizes DEF AddNode
  <2>2. /\ seen' = seen \cup {"ADD_NODE"} /\ UNCHANGED <<usage, bounds>>
    BY <1>1 DEF AddNode, Decides
  <2>3. Fill(m, Size) \in Nat
    BY <1>0, FillType
  <2>4. "DEL_NODE" \notin seen
    BY <1>0, <2>1, <2>3 DEF Directed
  <2>5. Size' - 1 = Size /\ (Fill(m, Size - 1))' = Fill(m, Size)
    BY <1>0, <2>1, <2>2 DEF Fill
  <2>6. "DEL_NODE" \notin seen'
    BY <2>2, <2>4
  <2>7. Size' \in 1 .. bounds.max
    BY <1>0, <2>1
  <2>8. (Size - 1 < bounds.min \/ Fill(m, Size - 1) >= Threshold)'
    BY <2>1, <2>2, <2>5 DEF Fill
  <2>9. QED BY <2>2, <2>6, <2>7, <2>8 DEF NoFlapping, Directed
<1>2. CASE DeleteNode
  <2>1. /\ Size > bounds.min /\ Size' = Size - 1
        /\ Fill(m, Size - 1) < Threshold - 5
        /\ Size - 1 \in Nat
    BY <1>2, EqualDelete, StepSizes DEF DeleteNode
  <2>2. /\ seen' = seen \cup {"DEL_NODE"} /\ UNCHANGED <<usage, bounds>>
    BY <1>2 DEF DeleteNode, Decides
  <2>3. Fill(m, Size - 1) \in Nat
    BY <2>1, FillType
  <2>4. "ADD_NODE" \notin seen
    BY <1>0, <2>1, <2>3 DEF Directed
  <2>5. "ADD_NODE" \notin seen'
    BY <2>2, <2>4
  <2>6. (Size >= bounds.min /\ Fill(m, Size) < Threshold - 5)'
    BY <1>0, <2>1, <2>2 DEF Fill
  <2>7. QED BY <2>5, <2>6 DEF NoFlapping, Directed
<1>3. CASE AddStateful \/ Neutral \/ UNCHANGED vars
  <2>1. Size' = Size
    BY <1>3, StepSizes DEF Neutral, vars, Size
  <2>2. UNCHANGED <<usage, bounds>>
    BY <1>3 DEF AddStateful, Neutral, Decides, vars
  <2>3. /\ "ADD_NODE" \in seen' => "ADD_NODE" \in seen
        /\ "DEL_NODE" \in seen' => "DEL_NODE" \in seen
    BY <1>3 DEF AddStateful, Neutral, Decides, vars
  <2>4. QED BY <2>1, <2>2, <2>3 DEF NoFlapping, Directed, Fill
<1>4. CASE Change
  BY <1>4 DEF Change, NoFlapping, Directed
<1>5. QED BY <1>1, <1>2, <1>3, <1>4 DEF Next, Round

LEMMA DirectedInvariant ==
  ASSUME NEW CONSTANT m \in Nat, Sizes \subseteq {m}
  PROVE  Spec => [](NoFlapping /\ Directed(m))
<1>1. Init => NoFlapping /\ Directed(m)
  BY DEF Init, NoFlapping, Directed
<1>2. TypeOK /\ StatefulFirst /\ NoFlapping /\ Directed(m) /\ [Next]_vars
        => (NoFlapping /\ Directed(m))'
  BY DirectedStep
<1>3. QED BY <1>1, <1>2, StaysShaped, PTL DEF Spec

\* With nodes of one size the fleet never both grows and shrinks under one
\* load: an addition says that the fleet was full at 80 percent or below
\* Spec.Min, a deletion that it will be below 75 percent and not below Spec.Min
\* (rcalculate/main.go:220-263), for every load, bounds and number of nodes.
THEOREM NeverFlaps ==
  ASSUME NEW CONSTANT m \in Nat, Sizes \subseteq {m}
  PROVE  Spec => []NoFlapping
<1>1. Spec => [](NoFlapping /\ Directed(m))
  BY DirectedInvariant
<1>2. QED BY <1>1, PTL

\* With nodes of one size the reason that the code gives for a deletion
\* (rcalculate/main.go:260) is true of the fleet that the deletion leaves.
THEOREM DeletionLeavesRoom ==
  ASSUME NEW CONSTANT m \in Nat, Sizes \subseteq {m}
  PROVE  Spec => DeleteKeepsRoom
<1>1. TypeOK /\ StatefulFirst /\ [Next]_vars =>
        [DeleteNode =>
           \/ usage.totalUsed = 0
           \/ Percent(usage.totalUsed + Buffer, Allocatable(fleet'))
                < Threshold - 5]_vars
  <2> SUFFICES ASSUME TypeOK, StatefulFirst, DeleteNode, usage.totalUsed # 0
               PROVE  Percent(usage.totalUsed + Buffer, Allocatable(fleet'))
                        < Threshold - 5
    OBVIOUS
  <2> DEFINE last == LastIndex(DOMAIN fleet)
  <2>1. Fill(m, Size - 1) < Threshold - 5 /\ Size \in Nat \ {0}
    BY EqualDelete DEF DeleteNode
  <2>2. fleet' = [x \in DOMAIN fleet \ {last} |-> fleet[x]]
    BY DEF DeleteNode, Restrict
  <2>3. last \in DOMAIN fleet
    <3>1. DOMAIN fleet # {}
      BY <2>1, FS_EmptySet DEF Size
    <3>2. DOMAIN fleet \in SUBSET Nat /\ IsFiniteSet(DOMAIN fleet)
      BY DEF TypeOK
    <3>3. QED BY <3>1, <3>2, LastIndexIsLargest
  <2> HIDE DEF last
  <2>4. /\ DOMAIN fleet' = DOMAIN fleet \ {last}
        /\ IsFiniteSet(DOMAIN fleet \ {last})
        /\ \A x \in DOMAIN fleet \ {last} : fleet'[x].memory = fleet[x].memory
    BY <2>2, SizeType, FS_Subset
  <2>5. Allocatable(fleet') = Memory(fleet, DOMAIN fleet \ {last})
    BY <2>4, MemorySame DEF Allocatable
  <2>6. Allocatable(fleet') = (Size - 1) * m
    BY <2>3, <2>5, EqualAllocatable
  <2>7. QED BY <2>1, <2>6 DEF Fill
<1>2. QED BY <1>1, StaysShaped, PTL DEF Spec, DeleteKeepsRoom

-------------------------------------------------------------------------------
\* What the rounds under one load can still do to the fleet: tag the nodes
\* that are not stateful, and go on in the direction that was taken.
Left ==
  (Size - StatefulCount(fleet))
    + IF "ADD_NODE" \in seen THEN 2 * (bounds.max - Size)
      ELSE IF "DEL_NODE" \in seen THEN Size
      ELSE 2 * bounds.max + Size

\* With nodes of one size every round that changes the fleet uses up some of
\* what is left: under one load the fleet changes a bounded number of times,
\* which is the part of Settles that needs no fairness.
THEOREM ChangesRunOut ==
  ASSUME NEW CONSTANT m \in Nat, Sizes \subseteq {m}
  PROVE  Spec => [][Round /\ fleet' # fleet =>
                      Left \in Nat /\ Left' \in Nat /\ Left' < Left]_vars
<1>1. TypeOK /\ StatefulFirst /\ NoFlapping /\ Directed(m)
      /\ NoFlapping' /\ Directed(m)' /\ [Next]_vars
        => [Round /\ fleet' # fleet =>
              Left \in Nat /\ Left' \in Nat /\ Left' < Left]_vars
  <2> SUFFICES ASSUME TypeOK, StatefulFirst, NoFlapping, Directed(m),
                      NoFlapping', Directed(m)', Round, fleet' # fleet
               PROVE  Left \in Nat /\ Left' \in Nat /\ Left' < Left
    OBVIOUS
  <2> DEFINE n == Size
             c == StatefulCount(fleet)
             max == bounds.max
  <2>0. /\ n \in Nat /\ c \in 0 .. n /\ max \in Nat
        /\ bounds' = bounds
    BY SizeType, StepSizes, BoundsAssumption
       DEF TypeOK, Round, AddNode, DeleteNode, AddStateful, Neutral, Decides
  <2>1. CASE AddNode
    <3>1. Size' = n + 1 /\ StatefulCount(fleet') = c /\ n < max
      BY <2>1, StepSizes, EqualAdd DEF AddNode
    <3>2. "ADD_NODE" \in seen' /\ "DEL_NODE" \notin seen
      BY <2>1 DEF AddNode, Decides, NoFlapping
    <3>3. Left' = (n + 1 - c) + 2 * (max - (n + 1))
      BY <2>0, <3>1, <3>2 DEF Left
    <3>4. Left = (n - c) + 2 * (max - n) \/ Left = (n - c) + (2 * max + n)
      BY <3>2 DEF Left
    <3> HIDE DEF n, c, max
    <3>5. QED BY <2>0, <3>1, <3>3, <3>4
  <2>2. CASE DeleteNode
    <3>1. Size' = n - 1 /\ StatefulCount(fleet') = c /\ c < n
      BY <2>2, StepSizes, EqualDelete DEF DeleteNode
    <3>2. "DEL_NODE" \in seen' /\ "ADD_NODE" \notin seen'
      BY <2>2 DEF DeleteNode, Decides, NoFlapping
    <3>3. "ADD_NODE" \notin seen
      BY <2>2, <3>2 DEF DeleteNode, Decides
    <3>4. Left' = (n - 1 - c) + (n - 1)
      BY <2>0, <3>1, <3>2 DEF Left
    <3>5. Left = (n - c) + n \/ Left = (n - c) + (2 * max + n)
      BY <3>3 DEF Left
    <3> HIDE DEF n, c, max
    <3>6. QED BY <2>0, <3>1, <3>4, <3>5
  <2>3. CASE AddStateful
    <3>1. Size' = n /\ StatefulCount(fleet') = c + 1
      BY <2>3, StepSizes
    <3>2. c + 1 \in 0 .. n
      <4>1. PICK first : Calculate(Input(first)) = "ADD_STATEFUL"
        BY <2>3 DEF AddStateful, Decides
      <4>2. FleetSize(Input(first)) > StatefulCount(Input(first).nodes)
        BY <2>0, <4>1 DEF Calculate, NeedsStateful, FleetSize, Input, Size
      <4>3. n > c
        BY <4>2 DEF FleetSize, Input, Size
      <4> HIDE DEF n, c
      <4>4. QED BY <2>0, <4>3
    <3>3. /\ "ADD_NODE" \in seen' <=> "ADD_NODE" \in seen
          /\ "DEL_NODE" \in seen' <=> "DEL_NODE" \in seen
      BY <2>3 DEF AddStateful, Decides
    <3>4. PICK r : /\ Left = (n - c) + r /\ Left' = (n - (c + 1)) + r
                   /\ r \in Nat
      <4>1. CASE "ADD_NODE" \in seen
        <5>1. n <= max
          BY <2>0, <4>1 DEF Directed
        <5>2. 2 * (max - n) \in Nat
          BY <2>0, <5>1
        <5>3. QED BY <2>0, <3>1, <3>3, <4>1, <5>2 DEF Left
      <4>2. CASE "ADD_NODE" \notin seen /\ "DEL_NODE" \in seen
        BY <2>0, <3>1, <3>3, <4>2 DEF Left
      <4>3. CASE "ADD_NODE" \notin seen /\ "DEL_NODE" \notin seen
        <5>1. 2 * max + n \in Nat
          BY <2>0
        <5>2. QED BY <2>0, <3>1, <3>3, <4>3, <5>1 DEF Left
      <4>4. QED BY <4>1, <4>2, <4>3
    <3> HIDE DEF n, c, max
    <3>5. QED BY <2>0, <3>2, <3>4
  <2>4. QED BY <2>1, <2>2, <2>3 DEF Round, Neutral
<1>2. Spec => [](NoFlapping /\ Directed(m))
  BY DirectedInvariant
<1>3. QED BY <1>1, <1>2, StaysShaped, PTL DEF Spec

===============================================================================
