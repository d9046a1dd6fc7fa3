----------------------------- MODULE MCWorkerNode -----------------------------
(* Instances of WorkerNode: everything may happen, or only what the owner of *)
(* the pool and the pool itself do.                                          *)
EXTENDS WorkerNode

All       == Disturbances
OwnerOnly == {"tag", "delete"}
===============================================================================
