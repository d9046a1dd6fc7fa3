-------------------------------- MODULE MCTunnel -------------------------------
(* Instance of Tunnel: everything of Disturbances may happen.                 *)
EXTENDS Tunnel, TLC

CONSTANTS d1, d2, r1, s1, s2, k1, k2, k3

All == Disturbances
===============================================================================
