---------------------------- MODULE MCNodePoolFair ----------------------------
(* Two small edges in one run, for the properties that need fairness.  The   *)
(* first state says which: one pool of up to three nodes, whose load and     *)
(* bounds change, or two pools of one node each, which users delete and      *)
(* whose worker nodes they delete.                                           *)
EXTENDS MCNodePool

VARIABLE edge

EdgeInit ==
  /\ Init
  /\ \/ /\ edge = "scaled"
        /\ phase[p1] = "live" /\ spec[p1] \in EditBounds
        /\ phase[p2] = "gone" /\ spec[p2] \in OneNode
     \/ /\ edge = "deleted"
        /\ \A p \in Pool : phase[p] = "live" /\ spec[p] \in OneNode
        /\ usage \in Quiet

OwnerOf(e) ==
  \/ e = "scaled"  /\ (LoadChanges \/ \E p \in Pool : EditPool(p))
  \/ e = "deleted" /\ \/ \E p \in Pool : DeletePool(p) \/ ReconFails(p) \/ FinalizeFails(p)
                      \/ \E n \in Name : DeleteWorker(n)

\* Two names are enough for the second edge, and one node is its only size.
EdgeNext ==
  /\ Inside \/ OwnerOf(edge)
  /\ UNCHANGED edge
  /\ edge = "scaled"  => spec'[p1] \in EditBounds /\ spec'[p2] = spec[p2]
  /\ edge = "deleted" => DOMAIN worker' \subseteq {n1, n2}

EdgeSpec == EdgeInit /\ [][EdgeNext]_<<vars, edge>> /\ Fairness /\ Calm
===============================================================================
