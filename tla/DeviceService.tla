----------------------------- MODULE DeviceService -----------------------------
(***************************************************************************)
(* The Services of an account's devices: reconSyncServices and             *)
(* updateServices of controllers/common/device_controller.go, beside the   *)
(* account controller of module DeviceProxy.  The two controllers share    *)
(* the ConfigMap: the account writes it, the devices read it from an       *)
(* informer cache, and neither is woken by the other.                      *)
(***************************************************************************)
EXTENDS DeviceProxy, Functions

VARIABLES
  service,     \* device -> its Service, or Absent
  seenService, \* the informer's copy of service
  lost         \* history: the ports that lost or changed their proxy port

services == <<service, seenService>>
allvars  == <<vars, services, lost>>

ServicesInit ==
  /\ Init
  /\ service = [d \in Device |-> Absent] /\ seenService = service
  /\ lost = {}

\* What a Service without ports is given, for Kubernetes wants one: the port
\* "temp", which leads to none of the proxy's ports.
Temp == [p \in {80} |-> 0]

\* Mutant: the numbers of ports are compared, not the ports.
CountsDiffer(s, ports) == Cardinality(DOMAIN s.target) # Cardinality(ports)

\* checkPortsDiffer: the Service's ports, "temp" like any other, and not where
\* they lead.
PortsDiffer(s, ports) == DOMAIN s.target # ports

\* Mutant: the region is not compared.
SamePorts(d) ==
  seenService[d] # Absent /\ ~PortsDiffer(seenService[d], wants[d])

Current(d) ==
  /\ seenService[d] # Absent
  /\ seenService[d].region = place[d]
  /\ ~PortsDiffer(seenService[d], wants[d])

\* Mutant: a port that is not in the cached table is served all the same.
UpdateUnchecked(d) ==
  /\ ~Current(d)
  /\ seenConfig # Absent
  /\ service' = [service EXCEPT ![d] =
                   [region |-> place[d],
                    target |-> IF wants[d] = {} THEN Temp
                               ELSE [p \in wants[d] |->
                                 IF <<d, p>> \in DOMAIN seenConfig
                                 THEN seenConfig[<<d, p>>] ELSE 0]]]
  /\ UNCHANGED <<vars, seenService, lost>>

\* The Service is written when the cached table has all the ports; the round
\* ends with an error in any case.  It is one step: an edit of the device in
\* the middle is as good as one right after it, for it wakes the device.
UpdateService(d) ==
  /\ ~Current(d)
  /\ seenConfig # Absent
  /\ {d} \X wants[d] \subseteq DOMAIN seenConfig
  /\ service' = [service EXCEPT ![d] =
                   [region |-> place[d],
                    target |-> IF wants[d] = {} THEN Temp
                               ELSE [p \in wants[d] |-> seenConfig[<<d, p>>]]]]
  /\ UNCHANGED <<vars, seenService, lost>>

DeliverService(d) ==
  /\ seenService[d] # service[d]
  /\ seenService' = [seenService EXCEPT ![d] = service[d]]
  /\ UNCHANGED <<vars, service, lost>>

Remember ==
  lost' = lost \cup (IF config = Absent THEN {} ELSE
            {id \in DOMAIN config :
               id \in DOMAIN config' => config'[id] # config[id]})

AccountInside  == Inside  /\ UNCHANGED services /\ Remember

\* A crash empties the cache of Services too: one manager runs both.
AccountOutside ==
  /\ \/ (Edits \/ Mishaps) /\ UNCHANGED seenService
     \/ Crash /\ seenService' = service
  /\ UNCHANGED service
  /\ Remember

DeviceSteps == \E d \in Device : UpdateService(d) \/ DeliverService(d)

ServicesNext == AccountInside \/ AccountOutside \/ DeviceSteps

ServicesSpec == ServicesInit /\ [][ServicesNext]_allvars

\* Both controllers keep reconciling, and the watches deliver; from some
\* moment on nobody edits a device and nothing fails.
ServicesCalm ==
  /\ ServicesSpec
  /\ WF_allvars(Begin /\ UNCHANGED services /\ Remember)
  /\ WF_allvars(Round /\ UNCHANGED services /\ Remember)
  /\ WF_allvars(DeliverConfig /\ UNCHANGED services /\ Remember)
  /\ \A d \in Device : WF_allvars(UpdateService(d)) /\ WF_allvars(DeliverService(d))
  /\ <>[][AccountInside \/ DeviceSteps]_allvars

-------------------------------------------------------------------------------
ServiceType ==
  [region : Places,
   target : {Temp} \cup
            UNION {[ports -> ProxyPort] : ports \in (SUBSET Port) \ {{}}}]

ServicesTypeOK ==
  /\ \A s \in Range(service) \cup Range(seenService) : s = Absent \/ s \in ServiceType
  /\ lost \subseteq Id

\* Where a Service leads: to the proxy port that the stored table has for the
\* port, unless that entry went away or changed at some time, or the Service was
\* last written for no ports at all (216-332).
OwnTargets ==
  \A d \in Device : service[d] # Absent /\ service[d].target # Temp =>
    \A p \in DOMAIN service[d].target :
      \/ <<d, p>> \in lost
      \/ /\ <<d, p>> \in DOMAIN config
         /\ service[d].target[p] = config[<<d, p>>]

\* Left alone, the Service of a device with open ports offers those ports in
\* the device's region.  Where they lead is never compared again: for port 80
\* of a device that had no ports before it may be nowhere (checkPortsDiffer,
\* 810-827).
Routed ==
  \A d \in Device :
    <>[](wants[d] # {} =>
           /\ service[d] # Absent
           /\ service[d].region = place[d]
           /\ DOMAIN service[d].target = wants[d])
===============================================================================
