------------------------------- MODULE ConfigPush ------------------------------
(***************************************************************************)
(* What the account controller promises about a config that it stores and  *)
(* posts to the servers that run it: the WireGuard servers (module Tunnel) *)
(* and the proxies of the devices (module DeviceProxy).  A server takes up *)
(* what it is told, which is the config stored at that moment and never an *)
(* older one.  Only a server that starts again may read an older one, from *)
(* a volume that has not been refreshed, and none that was never stored.   *)
(* `missed' has the servers that may be out of step.                       *)
(***************************************************************************)
CONSTANTS Server,
          Blank,   \* what a server runs that has read no config
          Absent   \* there is no stored config yet

VARIABLES
  stored,
  mounted,  \* what else a server that starts may read
  runs,
  missed

Init ==
  /\ stored = Absent
  /\ mounted = {Blank}
  /\ runs = [s \in Server |-> Blank]
  /\ missed = {}

\* Another config is stored; the last one may stay mounted somewhere.  Only
\* servers that happen to run the new one are in step.
Store ==
  /\ stored' # Absent
  /\ mounted' \subseteq mounted \cup ({stored} \ {Absent})
  /\ missed' \subseteq Server
  /\ \A s \in Server \ missed' : runs[s] = stored'
  /\ UNCHANGED runs

\* Some servers are told, the others are not.
Tell ==
  /\ stored # Absent
  /\ \E told \in SUBSET Server :
       /\ runs' = [s \in Server |-> IF s \in told THEN stored ELSE runs[s]]
       /\ missed' = Server \ told
  /\ UNCHANGED <<stored, mounted>>

Restart(s) ==
  /\ stored # Absent
  /\ \E c \in mounted \cup {stored} :
       /\ runs' = [runs EXCEPT ![s] = c]
       /\ missed' = IF c = stored THEN missed \ {s} ELSE missed \cup {s}
  /\ UNCHANGED <<stored, mounted>>

Next == Store \/ Tell \/ \E s \in Server : Restart(s)

Spec == Init /\ [][Next]_<<stored, mounted, runs, missed>>
===============================================================================
