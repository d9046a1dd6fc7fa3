----------------------------- MODULE MCScaleLoop -----------------------------
(* Small instances of ScaleLoop: memory in hundredths of a node, so that a *)
(* usage is a percentage of one node.                                       *)
EXTENDS ScaleLoop

EqualSizes == {100}
MixedSizes == {100, 300}

\* Loads around the thresholds of one to four nodes, with and without
\* stateful pods.
MCUsages ==
  {u \in [totalUsed : {0, 74, 80, 151, 160, 240, 330},
          statefulUsed : {0, 80, 160, 240}] :
     u.statefulUsed <= u.totalUsed}

\* Min above Max is admitted by the resource's schema.
MCBounds == {[min |-> 0, max |-> 4], [min |-> 2, max |-> 3],
             [min |-> 1, max |-> 2], [min |-> 3, max |-> 2]}

FewUsages == {u \in MCUsages : u.totalUsed \in {0, 80, 160, 240, 330}
                               /\ u.statefulUsed \in {0, 80, 240}}
FewBounds == {[min |-> 0, max |-> 4], [min |-> 2, max |-> 3]}
===============================================================================
