------------------------------ MODULE ScaleLoop ------------------------------
(***************************************************************************)
(* The autoscaler as its authors picture it: one pool, alone on its edge,  *)
(* whose decisions take effect at once and are always taken on the fleet   *)
(* as it is.  Nodes are named by the index the pool gives them.  It is the *)
(* yardstick for module NodePool, where listing, deciding, deleting and    *)
(* seeing the result are separate steps.                                   *)
(***************************************************************************)
EXTENDS Rcalculate, NodeIndex, Functions

CONSTANTS Sizes,        \* the memory a new node can get from the pool's config
          Usages,       \* the [totalUsed, statefulUsed] the pods can request
          Bounds        \* the [min, max] of the pool

ASSUME BoundsAssumption ==
  /\ Sizes \subseteq Nat
  /\ Usages \subseteq [totalUsed : Nat, statefulUsed : Nat]
  /\ Bounds \subseteq [min : Nat, max : Nat]

VARIABLES fleet,        \* index -> [memory, stateful]
          usage,        \* what the pods request now
          bounds,       \* Spec.Min and Spec.Max
          seen          \* history: the decisions taken under this load

vars == <<fleet, usage, bounds, seen>>

Init == /\ fleet = <<>>
        /\ usage \in Usages
        /\ bounds \in Bounds
        /\ seen = {}

\* The input of a round when the listing puts the node "first" in front.
Input(first) == [nodes |-> fleet, first |-> first,
                 min |-> bounds.min, max |-> bounds.max,
                 totalUsed |-> usage.totalUsed,
                 statefulUsed |-> usage.statefulUsed]

\* Any node may be listed first; with no nodes there is nothing to list.
Firsts == IF DOMAIN fleet = {} THEN {0} ELSE DOMAIN fleet

Decides(action) ==
  /\ \E first \in Firsts : Calculate(Input(first)) = action
  /\ seen' = seen \cup {action}
  /\ UNCHANGED <<usage, bounds>>

AddNode ==
  /\ Decides("ADD_NODE")
  /\ LET i == FreeIndex(DOMAIN fleet, Cardinality(DOMAIN fleet)) IN
       \E m \in Sizes :
          fleet' = [j \in DOMAIN fleet \cup {i} |->
                      IF j = i THEN [memory |-> m, stateful |-> FALSE]
                      ELSE fleet[j]]

DeleteNode ==
  /\ Decides("DEL_NODE")
  /\ fleet' = Restrict(fleet, DOMAIN fleet \ {LastIndex(DOMAIN fleet)})

\* The node tagged is the one whose index is the number of stateful nodes;
\* if there is none the round changes nothing.
AddStateful ==
  /\ Decides("ADD_STATEFUL")
  /\ LET c == StatefulCount(fleet) IN
       fleet' = [j \in DOMAIN fleet |->
                   IF j = c THEN [fleet[j] EXCEPT !.stateful = TRUE]
                   ELSE fleet[j]]

Neutral == Decides("NEUTRAL") /\ UNCHANGED fleet

Round == AddNode \/ DeleteNode \/ AddStateful \/ Neutral

\* The pods come and go, and the owner edits the pool.
Change ==
  /\ usage' \in Usages
  /\ bounds' \in Bounds
  /\ seen' = {}
  /\ UNCHANGED fleet

Next == Round \/ Change

Spec == Init /\ [][Next]_vars

\* The manager keeps reconciling (every 30 s) and the load settles down.
CalmSpec == Init /\ [][Next]_vars /\ WF_vars(Round) /\ <>[][Round]_vars

-------------------------------------------------------------------------------
TypeOK ==
  /\ DOMAIN fleet \subseteq Nat
  /\ IsFiniteSet(DOMAIN fleet)
  /\ fleet \in [DOMAIN fleet -> [memory : Sizes, stateful : BOOLEAN]]
  /\ usage \in Usages
  /\ bounds \in Bounds
  /\ seen \subseteq Actions

\* The indices are 0 .. n-1 and the stateful nodes are the first ones.  This
\* is what makes "delete the last node" (nodepool_controller.go:343) take a
\* stateless node and "tag index == stateful count" (line 376) find one.
StatefulFirst ==
  LET n == Cardinality(DOMAIN fleet) c == StatefulCount(fleet) IN
     /\ DOMAIN fleet = 0 .. n - 1
     /\ StatefulNodes(fleet) = 0 .. c - 1

\* A stateful node is never deleted, and a round that decides to tag a node
\* finds one to tag.
StatefulKept ==
  [][/\ StatefulNodes(fleet) \subseteq DOMAIN fleet'
     /\ AddStateful => fleet' # fleet
    ]_vars

\* A node is added only below Spec.Max and deleted only above Spec.Min.
WithinBounds ==
  [][LET n == Cardinality(DOMAIN fleet) n1 == Cardinality(DOMAIN fleet') IN
       /\ n1 > n => n < bounds.max
       /\ n1 < n => n1 >= bounds.min
    ]_vars

\* Under one and the same load the fleet never both grows and shrinks: the
\* thresholds 80 and 75 leave a gap that one node more or less cannot cross.
NoFlapping == ~({"ADD_NODE", "DEL_NODE"} \subseteq seen)

\* The reason the code gives for a deletion, "Node usage is less than 75% if
\* node will be deleted" (rcalculate/main.go:260), is true of the fleet that
\* the deletion leaves.
DeleteKeepsRoom ==
  [][DeleteNode =>
       \/ usage.totalUsed = 0
       \/ Percent(usage.totalUsed + Buffer, Allocatable(fleet'))
            < Threshold - 5
    ]_vars

\* Once the load stays the same the fleet stops changing.
Settles == <>[][UNCHANGED fleet]_vars
===============================================================================
