------------------------------ MODULE DeviceProxy ------------------------------
(***************************************************************************)
(* The open ports of an account's devices, as the account controller sees  *)
(* them (controllers/common/account/account_controller.go): it gives every *)
(* open port of every device a port of the proxy, stores the table in a    *)
(* ConfigMap and posts it to the proxy of each active region.              *)
(*                                                                         *)
(* A round may begin at any time: the account comes back after 30 seconds, *)
(* and after ten hours even when a wake-up was lost (module NodePool is    *)
(* about those).  The ConfigMap is read from an informer cache.            *)
(***************************************************************************)
EXTENDS Integers, FiniteSets

CONSTANTS Device,
          Place,        \* what Spec.ActiveRegion can be, besides empty
          Region,       \* the regions there are, each with its proxy
          Port,         \* the ports a device may open
          ProxyPort,    \* the ports the proxy listens on: 3000 .. 5999
          MaxMounted,   \* bound: how many former tables stay mounted
          Absent,       \* no such object
          Interference  \* what may happen besides reconciling, see below

\* "fail": an earlier step of a round fails; "api": updating the ConfigMap
\* fails; "post": a post to a proxy is lost; "restart": a proxy's container
\* restarts; "crash": the manager restarts.
Disturbances == {"fail", "api", "post", "restart", "crash"}

Id == Device \X Port

ASSUME DeviceProxyAssumption ==
  /\ Region \subseteq Place
  /\ MaxMounted \in Nat
  /\ ProxyPort # {} /\ Interference \subseteq Disturbances
  /\ \A ids \in SUBSET Id : Absent \notin [ids -> ProxyPort]

VARIABLES
  wants,       \* device -> the ports in Spec.Ports
  place,       \* device -> {Spec.ActiveRegion}, or {} when it is empty
  config,      \* the ConfigMap device-proxy-config, or Absent
  seenConfig,  \* the informer's copy of config
  forwards,    \* region -> the table its proxy runs
  mounted,     \* the former tables that a proxy may still find mounted
  round,       \* the account's reconcile in progress
  missed       \* history: the regions that were not told of the stored table

spec    == <<wants, place>>
proxies == <<forwards, mounted>>
vars == <<wants, place, config, seenConfig, forwards, mounted, round, missed>>

Idle == [step |-> "idle"]

\* Proxy ports by device and port.
IsTable(t) == DOMAIN t \subseteq Id /\ t \in [DOMAIN t -> ProxyPort]

Init ==
  /\ wants = [d \in Device |-> {}] /\ place = [d \in Device |-> {}]
  /\ config = Absent /\ seenConfig = Absent
  /\ forwards = [r \in Region |-> <<>>] /\ mounted = {<<>>}
  /\ round = Idle
  /\ missed = {}

-------------------------------------------------------------------------------
(***************************************************************************)
(* reconDevProxyConfig.                                                    *)
(***************************************************************************)

OpenPorts == {id \in Id : id[2] \in wants[id[1]]}
Active    == Region \cap UNION {place[d] : d \in Device}

\* fetchRequired lists the devices; the round works on that list to its end.
Begin ==
  /\ round = Idle
  /\ round' = [step |-> "table", wanted |-> OpenPorts, active |-> Active]
  /\ UNCHANGED <<spec, config, seenConfig, proxies, missed>>

At(step) == round.step = step

\* Mutant: the random number is not moved up to the first proxy port.
DrawsFromZero(old) == {n - 3000 : n \in ProxyPort}

\* The numbers getTempPort takes for free: isContains looks among the ports of
\* the services, not among the ports of the proxy; after as many tries as
\* there are numbers any will do.
Draws(old) ==
  LET free == ProxyPort \ {id[2] : id \in DOMAIN old}
  IN  IF free = {} THEN ProxyPort ELSE free

\* Mutant: the old table is not looked at.
TablesFromScratch(old) == [round.wanted -> Draws(old)]

\* What has a proxy port keeps it, the others draw one.
Tables(old) ==
  {[id \in round.wanted |-> IF id \in DOMAIN old THEN old[id] ELSE drawn[id]] :
     drawn \in [round.wanted \ DOMAIN old -> Draws(old)]}

CreateTable ==
  /\ At("table") /\ seenConfig = Absent
  /\ config' = IF config = Absent THEN <<>> ELSE config
  /\ round' = Idle
  /\ UNCHANGED <<spec, seenConfig, proxies, missed>>

\* Mutant: only a table that has grown is stored.
NotGrown(t, old) == Cardinality(DOMAIN t) <= Cardinality(DOMAIN old)

\* A table without entries counts as right: the last one stays.
Right(t, old) == t = old \/ t = <<>>

TableIsRight ==
  /\ At("table") /\ seenConfig # Absent
  /\ \E t \in Tables(seenConfig) : Right(t, seenConfig)
  /\ round' = Idle
  /\ UNCHANGED <<spec, config, seenConfig, proxies, missed>>

\* The kubelets refresh what they mount some time later, if at all; the bound
\* says how many former tables are remembered.
StaysMounted ==
  LET former == mounted \cup ({config} \ {Absent})
  IN  \/ Cardinality(former) <= MaxMounted /\ mounted' = former
      \/ mounted' \in {some \in SUBSET former : Cardinality(some) = MaxMounted}

\* The update names no version: it replaces whatever is there.
StoreTable ==
  /\ At("table") /\ seenConfig # Absent
  /\ \E t \in Tables(seenConfig) :
       /\ ~Right(t, seenConfig)
       /\ config' = t
       /\ round' = [step |-> "post", active |-> round.active, table |-> t]
  /\ StaysMounted
  /\ missed' = Region
  /\ UNCHANGED <<spec, seenConfig, forwards>>

\* Tell some regions, end the round.
PostTo(told, table) ==
  /\ forwards' = [r \in Region |-> IF r \in told THEN table ELSE forwards[r]]
  /\ missed' = Region \ told
  /\ round' = Idle
  /\ UNCHANGED <<spec, config, seenConfig, mounted>>

\* Mutant: the table is posted as the cache shows it.
PostSeen == At("post") /\ PostTo(round.active, seenConfig)

\* The active regions are told; an error is logged and forgotten.  When the
\* regions could not be listed nobody is told, as if all posts were lost.
Post ==
  /\ At("post")
  /\ \E told \in IF "post" \in Interference THEN SUBSET round.active
                ELSE {round.active} :
       PostTo(told, round.table)

Round == CreateTable \/ TableIsRight \/ StoreTable \/ Post

-------------------------------------------------------------------------------
(***************************************************************************)
(* The watch, the owners of the devices, and what may go wrong.            *)
(***************************************************************************)
DeliverConfig ==
  /\ seenConfig # config
  /\ seenConfig' = config
  /\ UNCHANGED <<spec, config, proxies, round, missed>>

EditPorts(d) ==
  /\ \E ports \in SUBSET Port : wants' = [wants EXCEPT ![d] = ports]
  /\ UNCHANGED <<place, config, seenConfig, proxies, round, missed>>

EditRegion(d) ==
  /\ \E p \in {{}} \cup {{q} : q \in Place} : place' = [place EXCEPT ![d] = p]
  /\ UNCHANGED <<wants, config, seenConfig, proxies, round, missed>>

\* An earlier step fails and ends the round.
RoundFails ==
  /\ "fail" \in Interference
  /\ At("table")
  /\ round' = Idle
  /\ UNCHANGED <<spec, config, seenConfig, proxies, missed>>

\* The manager dies.  A failed update of the ConfigMap has that effect too:
\* the error it reports is the nil one of another call.
Crash ==
  /\ \/ "crash" \in Interference
     \/ "api" \in Interference /\ At("table") /\ seenConfig # Absent
  /\ round' = Idle
  /\ seenConfig' = config
  /\ UNCHANGED <<spec, config, proxies, missed>>

\* A proxy that starts reads the ConfigMap as it is mounted: the stored table,
\* or one of before.
ProxyRestarts(r) ==
  /\ "restart" \in Interference
  /\ config # Absent
  /\ \E t \in mounted \cup {config} :
       /\ forwards' = [forwards EXCEPT ![r] = t]
       /\ missed' = IF t = config THEN missed \ {r} ELSE missed \cup {r}
  /\ UNCHANGED <<spec, config, seenConfig, mounted, round>>

Inside == Begin \/ Round \/ DeliverConfig

Edits    == \E d \in Device : EditPorts(d) \/ EditRegion(d)
Mishaps  == RoundFails \/ \E r \in Region : ProxyRestarts(r)
Outside  == Edits \/ Mishaps \/ Crash

Next == Inside \/ Outside

Spec == Init /\ [][Next]_vars

\* The account keeps being reconciled, and the watch delivers.
Fairness == WF_vars(Begin) /\ WF_vars(Round) /\ WF_vars(DeliverConfig)

\* From some moment on nobody edits a device and nothing fails.
CalmSpec == Spec /\ Fairness /\ <>[][Inside]_vars

-------------------------------------------------------------------------------
Places == {{}} \cup {{p} : p \in Place}

TypeOK ==
  /\ wants \in [Device -> SUBSET Port]
  /\ place \in [Device -> Places]
  /\ \A t \in {config, seenConfig} : t = Absent \/ IsTable(t)
  /\ DOMAIN forwards = Region /\ \A r \in Region : IsTable(forwards[r])
  /\ \A t \in mounted : IsTable(t)
  /\ \/ round = Idle
     \/ round \in [step : {"table"}, wanted : SUBSET Id, active : SUBSET Region]
     \/ /\ round \in [step : {"post"}, active : SUBSET Region,
                      table : {round.table}]
        /\ IsTable(round.table)
  /\ missed \subseteq Region

\* "method to finding the unique port" (account_controller.go:987): no two
\* open ports are forwarded from the same port of the proxy.
PortsUnique ==
  config # Absent =>
    \A i, j \in DOMAIN config : config[i] = config[j] => i = j

\* A port that stays open keeps its proxy port, unless the round that stored
\* the table read an older one (reconDevProxyConfig, 955-1062).
PortsKept ==
  [][config # Absent /\ seenConfig = config =>
       \A id \in DOMAIN config \cap DOMAIN config' : config'[id] = config[id]
    ]_vars

\* A proxy runs the stored table, or it was not told of it: the region was not
\* active when the table was stored, or the post was lost (1116-1143).
Told ==
  \A r \in Region : config = Absent \/ forwards[r] = config \/ r \in missed

\* The proxies as their own specification has them: a post brings a proxy the
\* table that is stored at that moment, never an older one, and only a proxy
\* that starts reads one of before (reconDevProxyConfig, 1083-1143).
Push == INSTANCE ConfigPush
  WITH Server <- Region, Blank <- <<>>, stored <- config, runs <- forwards

Pushes == Push!Spec

\* Left alone, the stored table has the open ports of all devices and no
\* others, unless no port is open at all.
Stored ==
  <>[](OpenPorts # {} => config # Absent /\ DOMAIN config = OpenPorts)
===============================================================================
