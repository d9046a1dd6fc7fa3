------------------------------ MODULE Rcalculate ------------------------------
(***************************************************************************)
(* The scaling decision of lib/rcalculate: from a picture of the fleet and *)
(* of the memory the pods request, say whether to add a node, delete one,  *)
(* turn one into a stateful node, or leave the fleet alone.                *)
(*                                                                         *)
(* A fleet is a function from node names to records that have at least the *)
(* fields "memory" and "stateful"; an input is a record with the fields of *)
(* rcalculate.Input that the decision reads, and "first", the node that    *)
(* the unordered cache listing put first.                                  *)
(***************************************************************************)
EXTENDS Integers, FiniteSetsExt

CONSTANTS Threshold,    \* percentage from which a fleet counts as full
          Buffer        \* memory added to the usage before it is compared

ASSUME DecisionAssumption == Threshold \in Nat /\ Buffer \in Nat

Actions == {"ADD_NODE", "DEL_NODE", "ADD_STATEFUL", "NEUTRAL"}

StatefulNodes(nodes) == {n \in DOMAIN nodes : nodes[n].stateful}
StatefulCount(nodes) == Cardinality(StatefulNodes(nodes))

\* The memory of the nodes in ns.
Memory(nodes, ns) == MapThenSumSet(LAMBDA n : nodes[n].memory, ns)

Allocatable(nodes)         == Memory(nodes, DOMAIN nodes)
StatefulAllocatable(nodes) == Memory(nodes, StatefulNodes(nodes))

(***************************************************************************)
(* The three percentages.  The code divides Go ints, so the result is      *)
(* rounded down; a fleet without memory is 200 percent full.               *)
(***************************************************************************)
Percent(used, allocatable) ==
  IF allocatable = 0 THEN 200 ELSE (used * 100) \div allocatable

TotalFilled(in) ==
  IF in.totalUsed = 0 THEN 0 
  ELSE Percent(in.totalUsed + Buffer, Allocatable(in.nodes))

StatefulFilled(in) ==
  IF in.statefulUsed = 0 \/ (StatefulAllocatable(in.nodes) = 0 /\ in.totalUsed = 0)
  THEN 0
  ELSE Percent(in.statefulUsed, StatefulAllocatable(in.nodes))

\* Mutant: the node to lose is not subtracted.
FilledAsItIs(in) == TotalFilled(in)

\* How full the fleet would be without the node that happens to be listed
\* first, which need not be the node that a deletion would take.
FilledByAssumingLess(in) ==
  IF in.totalUsed = 0 THEN 0
  ELSE IF DOMAIN in.nodes = {} THEN 200
  ELSE Percent(in.totalUsed + Buffer,
               Allocatable(in.nodes) - in.nodes[in.first].memory)

-------------------------------------------------------------------------------
\* Mutant: an index taken for a number.
FleetSizeByIndex(in) == Cardinality(DOMAIN in.nodes) - 1

FleetSize(in) == Cardinality(DOMAIN in.nodes)

\* Mutants: a comparison or a connective gone wrong.
NeedsNodeAtMin(in) ==
  /\ FleetSize(in) < in.max
  /\ FleetSize(in) <= in.min \/ TotalFilled(in) >= Threshold
NeedsNodeByLoad(in) ==
  FleetSize(in) < in.max /\ TotalFilled(in) >= Threshold

NeedsNode(in) ==
  /\ FleetSize(in) < in.max
  /\ \/ FleetSize(in) < in.min
     \/ TotalFilled(in) >= Threshold

NeedsStateful(in) ==
  \/ FleetSize(in) > 0 /\ StatefulCount(in.nodes) = 0
  \/ StatefulFilled(in) >= Threshold /\ FleetSize(in) > StatefulCount(in.nodes)

\* Mutants: the stateful nodes not spared, the gap on the wrong side.
SparesNodeOfAnyKind(in) ==
  /\ FleetSize(in) > in.min
  /\ FilledByAssumingLess(in) < Threshold - 5
SparesNodeTooSoon(in) ==
  /\ FleetSize(in) > in.min
  /\ FilledByAssumingLess(in) < Threshold + 5
  /\ StatefulCount(in.nodes) < FleetSize(in)

SparesNode(in) ==
  /\ FleetSize(in) > in.min
  /\ FilledByAssumingLess(in) < Threshold - 5
  /\ StatefulCount(in.nodes) < FleetSize(in)

\* The order of the tests is the order of the code: growing the fleet comes
\* before tagging, tagging before shrinking.
Calculate(in) ==
  IF NeedsNode(in) THEN "ADD_NODE"
  ELSE IF NeedsStateful(in) THEN "ADD_STATEFUL"
  ELSE IF SparesNode(in) THEN "DEL_NODE"
  ELSE "NEUTRAL"
===============================================================================
