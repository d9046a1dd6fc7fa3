------------------------------ MODULE MCNodePool ------------------------------
(* Small instances of NodePool.  Memory is in hundredths of a node, so that *)
(* a usage reads as a percentage of one node.                               *)
EXTENDS NodePool, TLC

CONSTANTS p1, p2, n1, n2, n3, n4

SameMemory == [p \in Pool |-> 100]

Symmetric == Permutations(Name)

Load(t, s) == [totalUsed |-> t, statefulUsed |-> s]

\* No load; loads that one node cannot carry, and three, with stateful pods.
Quiet     == {Load(0, 0)}
Stateful3 == {Load(0, 0), Load(160, 80), Load(240, 240)}

OneNode    == {[min |-> 1, max |-> 1]}
TwoNodes   == {[min |-> 2, max |-> 2]}
EditBounds == {[min |-> 1, max |-> 2], [min |-> 1, max |-> 3]}
AllBounds  == OneNode \cup EditBounds

All == Disturbances
===============================================================================
