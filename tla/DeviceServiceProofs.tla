-------------------------- MODULE DeviceServiceProofs --------------------------
(***************************************************************************)
(* Proofs about DeviceProxy and DeviceService, for any devices, regions    *)
(* and ports and with everything of Disturbances.                          *)
(***************************************************************************)
EXTENDS DeviceService, TLAPS

LEMMA AbsentIsNoTable == ~IsTable(Absent)
  BY DeviceProxyAssumption DEF IsTable

LEMMA EmptyIsTable == IsTable(<<>>)
  BY DEF IsTable

\* What a round computes is a table again, and keeps what was in the old one.
LEMMA TablesAreTables ==
  ASSUME NEW old, IsTable(old), round.wanted \subseteq Id, NEW t \in Tables(old)
  PROVE  /\ IsTable(t) /\ DOMAIN t = round.wanted
         /\ \A id \in DOMAIN old \cap DOMAIN t : t[id] = old[id]
<1>1. Draws(old) \subseteq ProxyPort
  BY DEF Draws
<1>2. PICK drawn \in [round.wanted \ DOMAIN old -> Draws(old)] :
        t = [id \in round.wanted |-> IF id \in DOMAIN old THEN old[id] ELSE drawn[id]]
  BY DEF Tables
<1>3. \A id \in round.wanted : t[id] \in ProxyPort
  BY <1>1, <1>2 DEF IsTable
<1> QED
  BY <1>2, <1>3 DEF IsTable

-------------------------------------------------------------------------------
(***************************************************************************)
(* The type invariant, in parts.                                           *)
(***************************************************************************)
SpecOK == wants \in [Device -> SUBSET Port] /\ place \in [Device -> Places]

TablesOK ==
  /\ config = Absent \/ IsTable(config)
  /\ seenConfig = Absent \/ IsTable(seenConfig)

RoundOK ==
  \/ round = Idle
  \/ round \in [step : {"table"}, wanted : SUBSET Id, active : SUBSET Region]
  \/ /\ round \in [step : {"post"}, active : SUBSET Region, table : {round.table}]
     /\ IsTable(round.table)

ProxiesOK ==
  /\ DOMAIN forwards = Region /\ \A r \in Region : IsTable(forwards[r])
  /\ forwards = [r \in Region |-> forwards[r]]
  /\ \A t \in mounted : IsTable(t)
  /\ missed \subseteq Region

Typed == SpecOK /\ TablesOK /\ RoundOK /\ ProxiesOK

LEMMA TypedInit == Init => Typed
  BY EmptyIsTable DEF Init, Typed, SpecOK, TablesOK, RoundOK, ProxiesOK, Places

LEMMA OpenPortsOK == OpenPorts \subseteq Id /\ Active \subseteq Region
  BY DEF OpenPorts, Active

\* Whatever stays mounted was mounted or stored before.
LEMMA FormerOnes ==
  StaysMounted => mounted' \subseteq mounted \cup ({config} \ {Absent})
  BY DEF StaysMounted

LEMMA PostTyped ==
  ASSUME Typed, NEW told \in SUBSET Region, NEW t, IsTable(t), PostTo(told, t)
  PROVE  Typed'
  BY DEF Typed, SpecOK, TablesOK, RoundOK, ProxiesOK, PostTo, spec, proxies

LEMMA TypedStep == Typed /\ [Next]_vars => Typed'
<1> SUFFICES ASSUME Typed, [Next]_vars PROVE Typed'
  OBVIOUS
<1> USE DEF Typed, SpecOK, TablesOK, RoundOK, ProxiesOK
<1>1. CASE Begin
  <2>1. round' \in [step : {"table"}, wanted : SUBSET Id, active : SUBSET Region]
    BY <1>1, OpenPortsOK DEF Begin
  <2> QED
    BY <1>1, <2>1 DEF Begin, spec, proxies
<1>2. CASE CreateTable
  BY <1>2, EmptyIsTable DEF CreateTable, spec, proxies
<1>3. CASE TableIsRight
  BY <1>3 DEF TableIsRight, spec, proxies
<1>4. CASE StoreTable
  <2>1. PICK t \in Tables(seenConfig) :
          /\ config' = t
          /\ round' = [step |-> "post", active |-> round.active, table |-> t]
    BY <1>4 DEF StoreTable
  <2>2. round \in [step : {"table"}, wanted : SUBSET Id, active : SUBSET Region]
    BY <1>4 DEF StoreTable, At, Idle
  <2>3. IsTable(t)
    BY <1>4, <2>2, TablesAreTables DEF StoreTable
  <2>4. RoundOK'
    BY <2>1, <2>2, <2>3
  <2>5. mounted' \subseteq mounted \cup ({config} \ {Absent})
    BY <1>4, FormerOnes DEF StoreTable
  <2>6. ProxiesOK'
    BY <1>4, <2>5 DEF StoreTable
  <2> QED
    BY <1>4, <2>1, <2>3, <2>4, <2>6 DEF StoreTable, spec
<1>5. CASE Post
  <2>1. round.active \in SUBSET Region /\ IsTable(round.table)
    BY <1>5 DEF Post, At, Idle
  <2>2. PICK told \in SUBSET Region : PostTo(told, round.table)
    BY <1>5, <2>1 DEF Post
  <2> QED
    BY <2>1, <2>2, PostTyped
<1>6. CASE DeliverConfig
  BY <1>6 DEF DeliverConfig, spec, proxies
<1>7. ASSUME NEW d \in Device, EditPorts(d) PROVE Typed'
  BY <1>7 DEF EditPorts, proxies
<1>8. ASSUME NEW d \in Device, EditRegion(d) PROVE Typed'
  BY <1>8 DEF EditRegion, Places, proxies
<1>9. CASE RoundFails
  BY <1>9 DEF RoundFails, spec, proxies
<1>10. CASE Crash
  BY <1>10 DEF Crash, spec, proxies
<1>11. ASSUME NEW r \in Region, ProxyRestarts(r) PROVE Typed'
  BY <1>11, EmptyIsTable DEF ProxyRestarts, spec, proxies
<1>12. CASE UNCHANGED vars
  BY <1>12 DEF vars
<1> QED
  BY <1>1, <1>2, <1>3, <1>4, <1>5, <1>6, <1>7, <1>8, <1>9, <1>10, <1>11, <1>12
     DEF Next, Inside, Outside, Edits, Mishaps, Round

LEMMA TypedIsTypeOK == Typed => TypeOK
  BY DEF Typed, SpecOK, TablesOK, RoundOK, ProxiesOK, TypeOK

\* Every reachable state of the account's proxy tables has its type
\* (reconDevProxyConfig, account_controller.go:911-1154).
THEOREM TypeCorrect == Spec => []TypeOK
<1>1. Spec => []Typed
  BY TypedInit, TypedStep, PTL DEF Spec
<1> QED
  BY <1>1, TypedIsTypeOK, PTL

-------------------------------------------------------------------------------
(***************************************************************************)
(* What a proxy runs.  Only a round of the account writes the ConfigMap,   *)
(* so what a round posts is still the table that is stored.                *)
(***************************************************************************)
PostsStored ==
  /\ At("post") => config = round.table
  /\ config = Absent => \A r \in Region : forwards[r] = <<>>

ToldInv == Typed /\ PostsStored /\ Told

LEMMA ToldInit == Init => ToldInv
  BY TypedInit DEF Init, ToldInv, PostsStored, Told, Idle, At

LEMMA ToldStep == ToldInv /\ [Next]_vars => ToldInv'
<1> SUFFICES ASSUME ToldInv, [Next]_vars PROVE PostsStored' /\ Told'
  BY TypedStep DEF ToldInv
<1> USE DEF ToldInv, PostsStored, Told, At, proxies
<1>1. CASE Begin
  BY <1>1 DEF Begin
<1>2. CASE CreateTable
  BY <1>2, EmptyIsTable, AbsentIsNoTable DEF CreateTable, Idle
<1>3. CASE TableIsRight
  BY <1>3 DEF TableIsRight, Idle
<1>4. CASE StoreTable
  <2>1. PICK t \in Tables(seenConfig) :
          /\ config' = t
          /\ round' = [step |-> "post", active |-> round.active, table |-> t]
    BY <1>4 DEF StoreTable
  <2>2. config' # Absent
    <3>1. round \in [step : {"table"}, wanted : SUBSET Id, active : SUBSET Region]
      BY <1>4 DEF StoreTable, Idle, Typed, RoundOK
    <3> QED
      BY <1>4, <2>1, <3>1, TablesAreTables, AbsentIsNoTable
         DEF StoreTable, Typed, TablesOK
  <2> QED
    BY <1>4, <2>1, <2>2 DEF StoreTable
<1>5. CASE Post
  <2>1. config = round.table /\ IsTable(round.table)
    BY <1>5 DEF Post, Typed, RoundOK, Idle
  <2>2. PICK told : PostTo(told, round.table)
    BY <1>5 DEF Post
  <2> QED
    BY <2>1, <2>2, AbsentIsNoTable DEF PostTo, Idle
<1>6. CASE DeliverConfig
  BY <1>6 DEF DeliverConfig
<1>7. ASSUME NEW d \in Device, EditPorts(d) \/ EditRegion(d)
      PROVE  PostsStored' /\ Told'
  BY <1>7 DEF EditPorts, EditRegion
<1>8. CASE RoundFails
  BY <1>8 DEF RoundFails, Idle
<1>9. CASE Crash
  BY <1>9 DEF Crash, Idle
<1>10. ASSUME NEW r \in Region, ProxyRestarts(r) PROVE PostsStored' /\ Told'
  BY <1>10 DEF ProxyRestarts, Typed, ProxiesOK
<1>11. CASE UNCHANGED vars
  BY <1>11 DEF vars
<1> QED
  BY <1>1, <1>2, <1>3, <1>4, <1>5, <1>6, <1>7, <1>8, <1>9, <1>10, <1>11
     DEF Next, Inside, Outside, Edits, Mishaps, Round

\* A proxy that does not run the stored table was not told of it: its region
\* was not active when the table was stored, or the post was lost
\* (account_controller.go:1116-1143).
THEOREM ToldOfIt == Spec => []Told
<1>1. Spec => []ToldInv
  BY ToldInit, ToldStep, PTL DEF Spec
<1> QED
  BY <1>1, PTL DEF ToldInv

(***************************************************************************)
(* The proxies implement ConfigPush.  The empty table that a round creates *)
(* is stored, too: it is what the proxies run before there is one.         *)
(***************************************************************************)
LEMMA PushInit == Init => Push!Init
  BY DEF Init, Push!Init

LEMMA PushNext ==
  ASSUME ToldInv, [Next]_vars
  PROVE  Push!Next \/ UNCHANGED <<config, mounted, forwards, missed>>
<1> USE DEF ToldInv, Push!Next, proxies
<1>1. CASE CreateTable
  <2>1. CASE config = Absent
    <3>1. Push!Store
      BY <1>1, <2>1, EmptyIsTable, AbsentIsNoTable
         DEF CreateTable, PostsStored, Typed, ProxiesOK, Push!Store
    <3> QED
      BY <3>1
  <2> QED
    BY <1>1, <2>1 DEF CreateTable
<1>2. CASE StoreTable
  <2>1. round \in [step : {"table"}, wanted : SUBSET Id, active : SUBSET Region]
    BY <1>2 DEF StoreTable, At, Idle, Typed, RoundOK
  <2>2. config' # Absent
    BY <1>2, <2>1, TablesAreTables, AbsentIsNoTable DEF StoreTable, Typed, TablesOK
  <2>3. Push!Store
    BY <1>2, <2>2, FormerOnes DEF StoreTable, Push!Store
  <2> QED
    BY <2>3
<1>3. CASE Post
  <2>1. /\ config = round.table /\ IsTable(round.table)
        /\ round.active \subseteq Region
    BY <1>3 DEF Post, At, PostsStored, Typed, RoundOK, Idle
  <2>2. PICK told \in SUBSET round.active : PostTo(told, round.table)
    BY <1>3 DEF Post
  <2>3. Push!Tell
    BY <2>1, <2>2, AbsentIsNoTable DEF PostTo, Push!Tell
  <2> QED
    BY <2>3
<1>4. ASSUME NEW r \in Region, ProxyRestarts(r) PROVE Push!Next
  <2>1. Push!Restart(r)
    BY <1>4 DEF ProxyRestarts, Push!Restart
  <2> QED
    BY <2>1
<1>5. CASE UNCHANGED <<config, mounted, forwards, missed>>
  BY <1>5
<1> QED
  BY <1>1, <1>2, <1>3, <1>4, <1>5 DEF Next, Inside, Outside, Edits, Mishaps, Round,
     Begin, TableIsRight, DeliverConfig, EditPorts, EditRegion, RoundFails, Crash,
     vars

\* No post brings a proxy an older table than the stored one, and a proxy that
\* starts reads one that was stored: the rounds, the posts and the restarts
\* implement ConfigPush (account_controller.go:1083-1143).
THEOREM ImplementsPush == Spec => Pushes
<1>1. ToldInv /\ [Next]_vars => [Push!Next]_<<config, mounted, forwards, missed>>
  BY PushNext
<1> QED
  BY <1>1, PushInit, ToldInit, ToldStep, PTL DEF Spec, Pushes, Push!Spec

-------------------------------------------------------------------------------
\* A port that stays open keeps its proxy port when the round that stores the
\* next table has seen the last one (account_controller.go:955-1062).
THEOREM KeepsPorts == Spec => PortsKept
<1> DEFINE Kept == config # Absent /\ seenConfig = config =>
             \A id \in DOMAIN config \cap DOMAIN config' : config'[id] = config[id]
<1>1. ASSUME Typed, [Next]_vars PROVE [Kept]_vars
  <2>1. CASE StoreTable
    <3>1. PICK t \in Tables(seenConfig) : config' = t
      BY <2>1 DEF StoreTable
    <3>2. round \in [step : {"table"}, wanted : SUBSET Id, active : SUBSET Region]
      BY <2>1, <1>1 DEF StoreTable, At, Idle, Typed, RoundOK
    <3> QED
      BY <1>1, <3>1, <3>2, TablesAreTables DEF Typed, TablesOK
  <2>2. CASE ~StoreTable
    <3>1. config # Absent => config' = config
      BY <1>1, <2>2 DEF Next, Inside, Outside, Edits, Mishaps, Round, vars, Begin,
         CreateTable, TableIsRight, Post, PostTo, DeliverConfig, EditPorts,
         EditRegion, RoundFails, Crash, ProxyRestarts
    <3> QED
      BY <3>1
  <2> QED
    BY <2>1, <2>2
<1>2. Spec => []Typed
  BY TypedInit, TypedStep, PTL DEF Spec
<1> QED
  BY <1>1, <1>2, PTL DEF Spec, PortsKept

-------------------------------------------------------------------------------
(***************************************************************************)
(* Where a Service leads.  A Service is made from the cached table, which  *)
(* was stored once: what it says of a port is still so, or the port has    *)
(* lost that entry since.                                                  *)
(***************************************************************************)
Agrees(id, n) ==
  id \in lost \/ (config # Absent /\ id \in DOMAIN config /\ config[id] = n)

SeenAgrees ==
  seenConfig # Absent => \A id \in DOMAIN seenConfig : Agrees(id, seenConfig[id])

ServiceAgrees ==
  \A d \in Device : service[d] # Absent /\ service[d].target # Temp =>
    \A p \in DOMAIN service[d].target : Agrees(<<d, p>>, service[d].target[p])

OwnInv ==
  /\ Typed /\ SeenAgrees /\ ServiceAgrees
  /\ service = [d \in Device |-> service[d]]

\* The ConfigMap is never removed, and the cache shows it as it is or was.
LEMMA ConfigStays ==
  ASSUME Typed, [Next]_vars
  PROVE  /\ config # Absent => config' # Absent
         /\ seenConfig' \in {seenConfig, config}
<1>1. CASE StoreTable
  <2>1. PICK t \in Tables(seenConfig) : config' = t
    BY <1>1 DEF StoreTable
  <2>2. round \in [step : {"table"}, wanted : SUBSET Id, active : SUBSET Region]
    BY <1>1 DEF StoreTable, At, Idle, Typed, RoundOK
  <2> QED
    BY <1>1, <2>1, <2>2, TablesAreTables, AbsentIsNoTable
       DEF StoreTable, Typed, TablesOK
<1>2. CASE ~StoreTable
  BY <1>2 DEF Next, Inside, Outside, Edits, Mishaps, Round, vars, Begin,
     CreateTable, TableIsRight, Post, PostTo, DeliverConfig, EditPorts,
     EditRegion, RoundFails, Crash, ProxyRestarts
<1> QED
  BY <1>1, <1>2

\* Whatever the account does, what agreed agrees.
LEMMA AgreementLasts ==
  ASSUME Typed, [Next]_vars, Remember, NEW id, NEW n, Agrees(id, n)
  PROVE  Agrees(id, n)'
  BY ConfigStays DEF Agrees, Remember

LEMMA AccountAgrees ==
  ASSUME OwnInv, [Next]_vars, Remember, UNCHANGED service
  PROVE  OwnInv'
<1>1. Typed'
  BY TypedStep DEF OwnInv
<1>2. ServiceAgrees'
  BY AgreementLasts DEF OwnInv, ServiceAgrees
<1>3. SeenAgrees'
  <2>1. CASE seenConfig' = seenConfig
    BY <2>1, AgreementLasts DEF OwnInv, SeenAgrees
  <2>2. CASE seenConfig' = config
    <3>1. config # Absent => \A id \in DOMAIN config : Agrees(id, config[id])
      BY DEF Agrees
    <3> QED
      BY <2>2, <3>1, AgreementLasts DEF OwnInv, SeenAgrees
  <2> QED
    BY <2>1, <2>2, ConfigStays DEF OwnInv
<1> QED
  BY <1>1, <1>2, <1>3 DEF OwnInv

LEMMA OwnInit == ServicesInit => OwnInv
<1> SUFFICES ASSUME ServicesInit PROVE OwnInv
  OBVIOUS
<1>1. Typed
  BY TypedInit DEF ServicesInit
<1>2. seenConfig = Absent /\ service = [d \in Device |-> Absent]
  BY DEF ServicesInit, Init
<1> QED
  BY <1>1, <1>2 DEF OwnInv, SeenAgrees, ServiceAgrees

LEMMA OwnStep == OwnInv /\ [ServicesNext]_allvars => OwnInv'
<1> SUFFICES ASSUME OwnInv, [ServicesNext]_allvars PROVE OwnInv'
  OBVIOUS
<1>1. CASE AccountInside
  BY <1>1, AccountAgrees DEF AccountInside, services, Next
<1>2. CASE AccountOutside
  BY <1>2, AccountAgrees DEF AccountOutside, Next, Outside
<1>3. ASSUME NEW d \in Device, UpdateService(d) PROVE OwnInv'
  <2> DEFINE target == IF wants[d] = {} THEN Temp
                       ELSE [p \in wants[d] |-> seenConfig[<<d, p>>]]
  <2>1. /\ seenConfig # Absent /\ {d} \X wants[d] \subseteq DOMAIN seenConfig
        /\ service' = [service EXCEPT ![d] =
                         [region |-> place[d], target |-> target]]
        /\ UNCHANGED <<vars, seenService, lost>>
    BY <1>3 DEF UpdateService
  <2>2. Typed' /\ SeenAgrees'
    BY <2>1 DEF OwnInv, Typed, SpecOK, TablesOK, RoundOK, ProxiesOK, SeenAgrees,
       Agrees, vars, spec, proxies
  <2>3. target # Temp => \A p \in DOMAIN target : Agrees(<<d, p>>, target[p])
    <3> SUFFICES ASSUME target # Temp, NEW p \in DOMAIN target
                 PROVE  Agrees(<<d, p>>, target[p])
      OBVIOUS
    <3>1. p \in wants[d] /\ target[p] = seenConfig[<<d, p>>]
      OBVIOUS
    <3>2. <<d, p>> \in DOMAIN seenConfig
      BY <2>1, <3>1
    <3> QED
      BY <2>1, <3>1, <3>2 DEF OwnInv, SeenAgrees
  <2>4. lost' = lost /\ config' = config
    BY <2>1 DEF vars
  <2>5. /\ service'[d] = [region |-> place[d], target |-> target]
        /\ \A e \in Device \ {d} : service'[e] = service[e]
        /\ service' = [e \in Device |-> service'[e]]
    BY <2>1 DEF OwnInv
  <2> HIDE DEF target
  <2>6. ServiceAgrees'
    <3> SUFFICES ASSUME NEW e \in Device, service'[e] # Absent,
                        service'[e].target # Temp,
                        NEW p \in DOMAIN service'[e].target
                 PROVE  Agrees(<<e, p>>, service[e].target[p])'
      BY DEF ServiceAgrees, Temp
    <3>1. CASE e = d
      BY <2>3, <2>4, <2>5, <3>1 DEF Agrees
    <3>2. CASE e # d
      BY <2>4, <2>5, <3>2 DEF OwnInv, ServiceAgrees, Agrees
    <3> QED
      BY <3>1, <3>2
  <2> QED
    BY <2>2, <2>5, <2>6 DEF OwnInv
<1>4. ASSUME NEW d \in Device, DeliverService(d) PROVE OwnInv'
  BY <1>4 DEF DeliverService, OwnInv, Typed, SpecOK, TablesOK, RoundOK,
     ProxiesOK, SeenAgrees, ServiceAgrees, Agrees, vars, spec, proxies
<1>5. CASE UNCHANGED allvars
  BY <1>5 DEF allvars, services, OwnInv, Typed, SpecOK, TablesOK, RoundOK,
     ProxiesOK, SeenAgrees, ServiceAgrees, Agrees, vars, spec, proxies
<1> QED
  BY <1>1, <1>2, <1>3, <1>4, <1>5 DEF ServicesNext, DeviceSteps

\* A device's Service leads to the proxy ports that the stored table gives its
\* ports, but for ports whose entry went away or changed in between, and for a
\* Service that was last written for no ports (updateServices,
\* device_controller.go:216-332).
THEOREM LeadsToOwn == ServicesSpec => []OwnTargets
<1>1. OwnInv => OwnTargets
  BY DEF OwnInv, ServiceAgrees, Agrees, OwnTargets
<1> QED
  BY <1>1, OwnInit, OwnStep, PTL DEF ServicesSpec

(***************************************************************************)
(* The types of the Services.                                              *)
(***************************************************************************)
MaybeService == ServiceType \cup {Absent}

ServicesTyped ==
  /\ Typed
  /\ service \in [Device -> MaybeService] /\ seenService \in [Device -> MaybeService]
  /\ lost \subseteq Id

LEMMA AccountTyped ==
  ASSUME ServicesTyped, [Next]_vars, Remember, UNCHANGED service,
         seenService' \in {seenService, service}
  PROVE  ServicesTyped'
<1>1. Typed'
  BY TypedStep DEF ServicesTyped
<1>2. config # Absent => DOMAIN config \subseteq Id
  BY DEF ServicesTyped, Typed, TablesOK, IsTable
<1>3. lost' \subseteq Id
  BY <1>2 DEF ServicesTyped, Remember
<1> QED
  BY <1>1, <1>3 DEF ServicesTyped, MaybeService, ServiceType, Places

LEMMA ServicesTypedInit == ServicesInit => ServicesTyped
<1> SUFFICES ASSUME ServicesInit PROVE ServicesTyped
  OBVIOUS
<1>1. Typed
  BY TypedInit DEF ServicesInit
<1>2. service \in [Device -> MaybeService]
  BY DEF ServicesInit, MaybeService
<1> QED
  BY <1>1, <1>2 DEF ServicesInit, ServicesTyped

LEMMA ServicesTypedStep ==
  ServicesTyped /\ [ServicesNext]_allvars => ServicesTyped'
<1> SUFFICES ASSUME ServicesTyped, [ServicesNext]_allvars PROVE ServicesTyped'
  OBVIOUS
<1>1. CASE AccountInside
  BY <1>1, AccountTyped DEF AccountInside, services, Next
<1>2. CASE AccountOutside
  BY <1>2, AccountTyped DEF AccountOutside, Next, Outside
<1>3. ASSUME NEW d \in Device, UpdateService(d) PROVE ServicesTyped'
  <2> DEFINE target == IF wants[d] = {} THEN Temp
                       ELSE [p \in wants[d] |-> seenConfig[<<d, p>>]]
             new    == [region |-> place[d], target |-> target]
  <2>1. /\ seenConfig # Absent /\ {d} \X wants[d] \subseteq DOMAIN seenConfig
        /\ service' = [service EXCEPT ![d] = new]
        /\ UNCHANGED <<vars, seenService, lost>>
    BY <1>3 DEF UpdateService
  <2>2. wants[d] \in SUBSET Port /\ place[d] \in Places /\ IsTable(seenConfig)
    BY <2>1 DEF ServicesTyped, Typed, SpecOK, TablesOK
  <2>3. \A p \in wants[d] : seenConfig[<<d, p>>] \in ProxyPort
    <3> TAKE p \in wants[d]
    <3>1. <<d, p>> \in DOMAIN seenConfig
      BY <2>1
    <3> QED
      BY <2>2, <3>1 DEF IsTable
  <2>4. wants[d] # {} => target \in [wants[d] -> ProxyPort]
    BY <2>3
  <2>5. target \in {Temp} \cup
                   UNION {[ports -> ProxyPort] : ports \in (SUBSET Port) \ {{}}}
    <3>1. CASE wants[d] = {}
      BY <3>1
    <3>2. CASE wants[d] # {}
      <4> HIDE DEF target
      <4> QED
        BY <2>2, <2>4, <3>2
    <3> QED
      BY <3>1, <3>2
  <2> HIDE DEF target
  <2>6. new \in MaybeService
    BY <2>2, <2>5 DEF MaybeService, ServiceType
  <2> HIDE DEF new
  <2>7. service' \in [Device -> MaybeService]
    BY <2>1, <2>6 DEF ServicesTyped
  <2>8. Typed'
    BY <2>1, TypedStep DEF ServicesTyped, vars
  <2> QED
    BY <2>1, <2>7, <2>8 DEF ServicesTyped, MaybeService, ServiceType, Places
<1>4. ASSUME NEW d \in Device, DeliverService(d) PROVE ServicesTyped'
  <2>1. Typed'
    BY <1>4, TypedStep DEF DeliverService, ServicesTyped, vars
  <2>2. seenService' \in [Device -> MaybeService]
    BY <1>4 DEF DeliverService, ServicesTyped
  <2> QED
    BY <1>4, <2>1, <2>2
       DEF DeliverService, ServicesTyped, MaybeService, ServiceType, Places
<1>5. CASE UNCHANGED allvars
  <2>1. Typed'
    BY <1>5, TypedStep DEF allvars, ServicesTyped
  <2> QED
    BY <1>5, <2>1
       DEF allvars, services, ServicesTyped, MaybeService, ServiceType, Places
<1> QED
  BY <1>1, <1>2, <1>3, <1>4, <1>5 DEF ServicesNext, DeviceSteps

\* Every reachable state of the devices' Services has its type: a Service has
\* ports, and ports of the proxy behind all of them, or it has only the port
\* "temp" (updateServices, device_controller.go:216-332).
THEOREM ServicesTypeCorrect == ServicesSpec => []ServicesTypeOK
<1>1. ServicesTyped => ServicesTypeOK
  BY DEF ServicesTyped, ServicesTypeOK, MaybeService, Range
<1> QED
  BY <1>1, ServicesTypedInit, ServicesTypedStep, PTL DEF ServicesSpec
===============================================================================
