----------------------------- MODULE MCDeviceProxy -----------------------------
(* Instance of DeviceProxy: everything of Disturbances may happen.            *)
EXTENDS DeviceProxy, TLC

CONSTANTS d1, d2, r1

All == Disturbances
===============================================================================
