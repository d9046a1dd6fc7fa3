-------------------------------- MODULE MCInfra --------------------------------
(* Instance of Infra: one edge with up to two pools, short partitions.          *)
EXTENDS Infra, TLC

CONSTANTS e1, a, b, c

Staff == a :> 1
One   == b :> 1
Two   == b :> 2
Both  == b :> 1 @@ c :> 1

MCSpecs == {Staff, One, Two, Both}

Messages == {Apply(Provider, Absent), Delete(Provider), Delete(e1), Broken}
              \cup {Apply(e1, s) : s \in MCSpecs}

\* An edge whose pool gets worker nodes; an edit; a deletion and a new edge; the
\* provider taken away under its edge; a pool taken out of the spec.
MCLogs == {<<Apply(e1, Staff), Apply(Provider, Absent)>>,
           <<Apply(e1, One), Apply(e1, Two)>>,
           <<Apply(e1, One), Delete(e1), Apply(e1, Two)>>,
           <<Apply(e1, One), Broken, Delete(Provider)>>,
           <<Apply(e1, Both), Apply(e1, One)>>}
===============================================================================
