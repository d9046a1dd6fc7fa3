---------------------------- MODULE MCDeviceService ----------------------------
(* Instance of DeviceService: owners edit their devices, the manager crashes. *)
EXTENDS DeviceService, TLC

CONSTANTS d1, r1

Crashes == {"crash"}
===============================================================================
