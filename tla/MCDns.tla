---------------------------------- MODULE MCDns ---------------------------------
(* Instance of Dns: everything of Disturbances may happen.                    *)
EXTENDS Dns, TLC

CONSTANT o1

Lists == SUBSET Address
All   == Disturbances
===============================================================================
