------------------------------ MODULE TunnelProofs -----------------------------
(***************************************************************************)
(* Proofs about Tunnel, for any devices, regions and keys and with         *)
(* everything of Disturbances: its type, that there is one key of the      *)
(* server, that the two ends agree, and what a server runs.                *)
(***************************************************************************)
EXTENDS Tunnel, TLAPS

\* The parts of the type invariant.
KeysOK ==
  /\ serverKey \in ServerKey \cup {Absent} /\ published \in ServerKey \cup {Absent}
  /\ deviceKey \in [Device -> DeviceKey \cup {Absent}]
ConfigsOK ==
  /\ server \in ServerConfig \cup {Absent}
  /\ client \in [Device -> ClientConfig \cup {Absent}]
  /\ runs \in [Region -> ServerConfig \cup {Absent}]
  /\ mounted \subseteq ServerConfig \cup {Absent}
SeenOK ==
  seen \in [key : ServerKey \cup {Absent}, server : ServerConfig \cup {Absent},
            keys : [Device -> DeviceKey \cup {Absent}]]
AccountOK ==
  account \in {Idle} \cup [step : {"key"}]
              \cup [step : {"publish"}, key : ServerKey]
              \cup [step : {"config"}, own : ServerKey]
              \cup [step : {"post"}, config : ServerConfig]
DeviceOK ==
  device \in {Idle} \cup [step : {"key"}, of : Device,
                          saw : DeviceKey \cup {Absent}]
             \cup [step : {"config"}, of : Device, own : DeviceKey]
HistoryOK == replaced \subseteq DeviceKey /\ missed \subseteq Region

Typed == KeysOK /\ ConfigsOK /\ SeenOK /\ AccountOK /\ DeviceOK /\ HistoryOK

LEMMA TypedIsTypeOK == Typed <=> TypeOK
  BY DEF Typed, KeysOK, ConfigsOK, SeenOK, AccountOK, DeviceOK, HistoryOK, TypeOK

LEMMA Drawn == \A keys : keys # {} => Draw(keys) \in keys
  BY DEF Draw

LEMMA TypedInit == Init => Typed
  BY DEF Init, Typed, KeysOK, ConfigsOK, SeenOK, AccountOK, DeviceOK, HistoryOK

\* Whatever stays mounted was mounted or stored before.
LEMMA FormerOnes ==
  StaysMounted => mounted' \subseteq mounted \cup ({server} \ {Absent})
  BY DEF StaysMounted

LEMMA ConfigTyped ==
  ASSUME Typed, OfAccount("config") PROVE Config \in ServerConfig
  BY DEF Typed, AccountOK, SeenOK, OfAccount, Idle, Config, ServerConfig

LEMMA AccountTyped == Typed /\ (BeginAccount \/ AccountRound) => Typed'
<1> SUFFICES ASSUME Typed, BeginAccount \/ AccountRound PROVE Typed'
  OBVIOUS
<1> USE DEF Typed, KeysOK, ConfigsOK, SeenOK, AccountOK, DeviceOK, HistoryOK,
        secrets, pods, history
<1>1. CASE BeginAccount
  BY <1>1 DEF BeginAccount
<1>2. CASE CreateServerKey
  <2>1. serverKey' \in ServerKey
    BY <1>2, Drawn DEF CreateServerKey, FreshServer
  <2> QED
    BY <1>2, <2>1 DEF CreateServerKey
<1>3. CASE PublishNewKey
  <2>1. account.key \in ServerKey
    BY <1>3 DEF PublishNewKey, OfAccount, Idle
  <2> QED
    BY <1>3, <2>1 DEF PublishNewKey, Publish
<1>4. CASE ServerKeyExists
  BY <1>4 DEF ServerKeyExists
<1>5. CASE PublishKey
  BY <1>5 DEF PublishKey, Publish
<1>6. CASE KeyIsPublished
  BY <1>6 DEF KeyIsPublished
<1>7. CASE ConfigIsCurrent
  BY <1>7 DEF ConfigIsCurrent
<1>8. CASE ConfigExists
  BY <1>8 DEF ConfigExists
<1>9. CASE StoreConfig
  <2>1. Config \in ServerConfig
    BY <1>9, ConfigTyped DEF StoreConfig
  <2>2. mounted' \subseteq ServerConfig \cup {Absent}
    BY <1>9, FormerOnes DEF StoreConfig
  <2> QED
    BY <1>9, <2>1, <2>2 DEF StoreConfig
<1>10. CASE Post
  <2>1. account.config \in ServerConfig
    BY <1>10 DEF Post, OfAccount, Idle
  <2>2. PICK told : PostTo(told, account.config)
    BY <1>10 DEF Post
  <2> QED
    BY <2>1, <2>2 DEF PostTo
<1> QED
  BY <1>1, <1>2, <1>3, <1>4, <1>5, <1>6, <1>7, <1>8, <1>9, <1>10 DEF AccountRound

LEMMA DeviceTyped ==
  ASSUME Typed, NEW d \in Device, BeginDevice(d) \/ DeviceRound(d)
  PROVE  Typed'
<1> USE DEF Typed, KeysOK, ConfigsOK, SeenOK, AccountOK, DeviceOK, HistoryOK,
        secrets, pods, history
<1>1. CASE BeginDevice(d)
  BY <1>1 DEF BeginDevice
<1>2. CASE GenerateKey(d)
  <2>1. Draw(FreshDevice) \in DeviceKey
    BY <1>2, Drawn DEF GenerateKey, FreshDevice
  <2> QED
    BY <1>2, <2>1 DEF GenerateKey
<1>3. CASE HasKey(d)
  <2>1. device.saw \in DeviceKey
    BY <1>3 DEF HasKey, AtKey, Idle
  <2> QED
    BY <1>3, <2>1 DEF HasKey
<1>4. CASE WriteClient(d)
  <2>1. device.own \in DeviceKey
    BY <1>4 DEF WriteClient, AtConfig, Idle
  <2>2. client' \in [Device -> ClientConfig \cup {Absent}]
    BY <1>4, <2>1 DEF WriteClient, ClientConfig
  <2> QED
    BY <1>4, <2>2 DEF WriteClient
<1> QED
  BY <1>1, <1>2, <1>3, <1>4 DEF DeviceRound

LEMMA WorldTyped == Typed /\ (Deliver \/ World) => Typed'
<1> SUFFICES ASSUME Typed, Deliver \/ World PROVE Typed'
  OBVIOUS
<1> USE DEF Typed, KeysOK, ConfigsOK, SeenOK, AccountOK, DeviceOK, HistoryOK,
        secrets, pods, history
<1>1. CASE Deliver
  BY <1>1 DEF Deliver, DeliverServerKey, DeliverServer, DeliverDeviceKey, See
<1>2. CASE AccountFails \/ DeviceFails \/ ClearStatus
  BY <1>2 DEF AccountFails, DeviceFails, ClearStatus
<1>3. CASE Crash
  BY <1>3 DEF Crash
<1>4. ASSUME NEW r \in Region, ServerRestarts(r) PROVE Typed'
  <2>1. PICK c \in mounted \cup {server} :
          /\ runs' = [runs EXCEPT ![r] = c]
          /\ missed' = IF c = server THEN missed \ {r} ELSE missed \cup {r}
    BY <1>4 DEF ServerRestarts
  <2> QED
    BY <1>4, <2>1 DEF ServerRestarts
<1> QED
  BY <1>1, <1>2, <1>3, <1>4 DEF World

LEMMA TypedStep == Typed /\ [Next]_vars => Typed'
<1>1. ASSUME Typed, UNCHANGED vars PROVE Typed'
  BY <1>1 DEF vars, secrets, pods, history, Typed, KeysOK, ConfigsOK, SeenOK, AccountOK,
     DeviceOK, HistoryOK
<1> QED
  BY <1>1, AccountTyped, DeviceTyped, WorldTyped DEF Next, Controllers

\* Every reachable state of the tunnels has its type
\* (account_controller.go:360-600, device_controller.go:377-652).
THEOREM TypeCorrect == Spec => []TypeOK
<1>1. Spec => []Typed
  BY TypedInit, TypedStep, PTL DEF Spec
<1> QED
  BY <1>1, TypedIsTypeOK, PTL

-------------------------------------------------------------------------------
(***************************************************************************)
(* The server's key.  It is made once, by Create; whatever a round or the  *)
(* cache holds of it is that key or nothing.                               *)
(***************************************************************************)
InFlight ==
  /\ seen.key \in {serverKey, Absent}
  /\ OfAccount("publish") => account.key = serverKey
  /\ OfAccount("config") => account.own = serverKey

OneInv == Typed /\ InFlight /\ OneServerKey

LEMMA OneInit == Init => OneInv
  BY TypedInit DEF Init, OneInv, InFlight, OneServerKey, OfAccount, Idle

LEMMA OneStep == OneInv /\ [Next]_vars => OneInv'
<1> SUFFICES ASSUME OneInv, [Next]_vars PROVE InFlight' /\ OneServerKey'
  BY TypedStep DEF OneInv
<1> USE DEF OneInv, InFlight, OneServerKey, OfAccount, Idle, secrets, pods, history
<1>1. CASE BeginAccount
  BY <1>1 DEF BeginAccount
<1>2. CASE CreateServerKey
  \* Nothing names a key while there is none: ServerConfig and ClientConfig
  \* have no place for Absent.
  <2>1. published = Absent /\ seen.key = Absent
    BY <1>2 DEF CreateServerKey
  <2>2. server = Absent
    BY <1>2, TunnelAssumption DEF CreateServerKey, Typed, ConfigsOK, ServerConfig
  <2>3. \A d \in Device : client[d] = Absent
    BY <1>2, TunnelAssumption DEF CreateServerKey, Typed, ConfigsOK, ClientConfig
  <2> QED
    BY <1>2, <2>1, <2>2, <2>3 DEF CreateServerKey
<1>3. CASE PublishNewKey
  BY <1>3 DEF PublishNewKey, Publish
<1>4. CASE ServerKeyExists
  BY <1>4 DEF ServerKeyExists
<1>5. CASE PublishKey
  BY <1>5 DEF PublishKey, Publish
<1>6. CASE KeyIsPublished
  BY <1>6 DEF KeyIsPublished
<1>7. CASE ConfigIsCurrent \/ ConfigExists
  BY <1>7 DEF ConfigIsCurrent, ConfigExists
<1>8. CASE StoreConfig
  BY <1>8 DEF StoreConfig, Config
<1>9. CASE Post
  <2>1. PICK told : PostTo(told, account.config)
    BY <1>9 DEF Post
  <2> QED
    BY <2>1 DEF PostTo
<1>10. ASSUME NEW d \in Device, BeginDevice(d) \/ GenerateKey(d) \/ HasKey(d)
       PROVE  InFlight' /\ OneServerKey'
  BY <1>10 DEF BeginDevice, GenerateKey, HasKey
<1>11. ASSUME NEW d \in Device, WriteClient(d) PROVE InFlight' /\ OneServerKey'
  <2>1. CASE published = Absent
    BY <1>11, <2>1 DEF WriteClient
  <2>2. CASE published # Absent
    <3>1. client' = [client EXCEPT ![d] = [own |-> device.own, server |-> serverKey]]
      BY <1>11, <2>2 DEF WriteClient
    <3>2. \A e \in Device : client'[e] # Absent => client'[e].server = serverKey
      BY <3>1 DEF Typed, ConfigsOK
    <3> QED
      BY <1>11, <3>2 DEF WriteClient
  <2> QED
    BY <2>1, <2>2
<1>12. CASE Deliver
  <2>1. UNCHANGED <<secrets, published, account>> /\ seen'.key \in {seen.key, serverKey}
    BY <1>12 DEF Deliver, DeliverServerKey, DeliverServer, DeliverDeviceKey, See,
       Typed, SeenOK
  <2> QED
    BY <2>1
<1>13. CASE AccountFails \/ DeviceFails \/ ClearStatus
  BY <1>13 DEF AccountFails, DeviceFails, ClearStatus
<1>14. CASE Crash
  BY <1>14 DEF Crash
<1>15. ASSUME NEW r \in Region, ServerRestarts(r) PROVE InFlight' /\ OneServerKey'
  BY <1>15 DEF ServerRestarts
<1>16. CASE UNCHANGED vars
  BY <1>16 DEF vars
<1> QED
  BY <1>1, <1>2, <1>3, <1>4, <1>5, <1>6, <1>7, <1>8, <1>9, <1>10, <1>11, <1>12,
     <1>13, <1>14, <1>15, <1>16
     DEF Next, Controllers, World, AccountRound, DeviceRound

\* The server's config, the account's status and the clients' configs never
\* name another key than the server's (reconWGServerKey, 360-438).
THEOREM NamesServerKey == Spec => []OneServerKey
<1>1. Spec => []OneInv
  BY OneInit, OneStep, PTL DEF Spec
<1> QED
  BY <1>1, PTL DEF OneInv

-------------------------------------------------------------------------------
(***************************************************************************)
(* The devices' keys.  Wherever a key of a device is held, it is the key   *)
(* of that device or one that was written over.                            *)
(***************************************************************************)
Genuine(d, k) == k \in {Absent, deviceKey[d]} \cup replaced

GenuineCopies ==
  \A d \in Device :
    /\ Genuine(d, seen.keys[d])
    /\ server # Absent => Genuine(d, server.peers[d])
    /\ client[d] # Absent => Genuine(d, client[d].own)
GenuineRound ==
  device # Idle =>
    Genuine(device.of, IF device.step = "key" THEN device.saw ELSE device.own)

EndsInv == Typed /\ GenuineCopies /\ GenuineRound

LEMMA EndsInit == Init => EndsInv
  BY TypedInit DEF Init, EndsInv, GenuineCopies, GenuineRound, Genuine

\* A key stays genuine: it is replaced when another one is put in its place.
LEMMA GenuineLasts ==
  ASSUME Typed, [Next]_vars, NEW d \in Device, NEW k, Genuine(d, k)
  PROVE  Genuine(d, k)'
<1> USE DEF Genuine, secrets, pods, history
<1>1. ASSUME NEW e \in Device, GenerateKey(e) PROVE Genuine(d, k)'
  BY <1>1 DEF GenerateKey, Typed, KeysOK
<1>2. ASSUME \A e \in Device : ~GenerateKey(e) PROVE Genuine(d, k)'
  <2>1. deviceKey' = deviceKey /\ replaced' = replaced
    BY <1>2 DEF Next, Controllers, World, AccountRound, DeviceRound, BeginAccount,
       CreateServerKey, PublishNewKey, Publish, ServerKeyExists, PublishKey,
       KeyIsPublished, ConfigIsCurrent, ConfigExists, StoreConfig, Post, PostTo,
       BeginDevice, HasKey, WriteClient, Deliver, DeliverServerKey, DeliverServer,
       DeliverDeviceKey, See, AccountFails, DeviceFails, ClearStatus, Crash,
       ServerRestarts, vars
  <2> QED
    BY <2>1
<1> QED
  BY <1>1, <1>2

LEMMA EndsStep == EndsInv /\ [Next]_vars => EndsInv'
<1> SUFFICES ASSUME EndsInv, [Next]_vars PROVE GenuineCopies' /\ GenuineRound'
  BY TypedStep DEF EndsInv
<1>1. \A d \in Device : \A k : Genuine(d, k) => k \in {Absent, deviceKey'[d]} \cup replaced'
  BY GenuineLasts DEF EndsInv, Genuine
<1> USE DEF EndsInv, GenuineCopies, GenuineRound, secrets, pods, history, Idle
<1>2. CASE UNCHANGED <<seen, server, client, device>>
  <2>1. device # Idle => device.of \in Device
    BY DEF Typed, DeviceOK
  <2> QED
    BY <1>1, <1>2, <2>1 DEF Genuine
<1>3. CASE StoreConfig
  <2>1. device # Idle => device.of \in Device
    BY DEF Typed, DeviceOK
  <2>2. server'.peers = seen.keys /\ UNCHANGED <<seen, client, device>>
    BY <1>3 DEF StoreConfig, Config
  <2> QED
    BY <1>1, <2>1, <2>2 DEF Genuine
<1>4. ASSUME NEW d \in Device, BeginDevice(d) PROVE GenuineCopies' /\ GenuineRound'
  BY <1>4 DEF BeginDevice, Genuine
<1>5. ASSUME NEW d \in Device, GenerateKey(d) PROVE GenuineCopies' /\ GenuineRound'
  BY <1>1, <1>5 DEF GenerateKey, Genuine
<1>6. ASSUME NEW d \in Device, HasKey(d) PROVE GenuineCopies' /\ GenuineRound'
  BY <1>6 DEF HasKey, AtKey, Genuine
<1>7. ASSUME NEW d \in Device, WriteClient(d) PROVE GenuineCopies' /\ GenuineRound'
  <2>1. Genuine(d, device.own)
    BY <1>7 DEF WriteClient, AtConfig
  <2>2. \A e \in Device : client'[e] # Absent =>
          client'[e] = client[e] \/ (e = d /\ client'[e].own = device.own)
    BY <1>7 DEF WriteClient, Typed, ConfigsOK
  <2>3. UNCHANGED <<seen, server, deviceKey, replaced>> /\ device' = Idle
    BY <1>7 DEF WriteClient
  <2> QED
    BY <2>1, <2>2, <2>3 DEF Genuine
<1>8. CASE Deliver \/ Crash
  <2>1. \A d \in Device : seen'.keys[d] \in {seen.keys[d], deviceKey[d]}
    BY <1>8 DEF Deliver, DeliverServerKey, DeliverServer, DeliverDeviceKey, See,
       Crash, Typed, SeenOK
  <2>2. UNCHANGED <<server, client, deviceKey, replaced>> /\ device' \in {device, Idle}
    BY <1>8 DEF Deliver, DeliverServerKey, DeliverServer, DeliverDeviceKey, See, Crash
  <2> QED
    BY <2>1, <2>2 DEF Genuine
<1>9. CASE DeviceFails
  BY <1>9 DEF DeviceFails, Genuine
<1>10. CASE BeginAccount \/ AccountFails \/ ClearStatus \/ UNCHANGED vars
  BY <1>2, <1>10 DEF BeginAccount, AccountFails, ClearStatus, vars
<1>11. CASE AccountRound
  BY <1>2, <1>3, <1>11 DEF AccountRound, CreateServerKey, PublishNewKey, Publish,
     ServerKeyExists, PublishKey, KeyIsPublished, ConfigIsCurrent, ConfigExists,
     Post, PostTo
<1>12. ASSUME NEW r \in Region, ServerRestarts(r)
       PROVE  GenuineCopies' /\ GenuineRound'
  BY <1>2, <1>12 DEF ServerRestarts
<1> QED
  BY <1>3, <1>4, <1>5, <1>6, <1>7, <1>8, <1>9, <1>10, <1>11, <1>12
     DEF Next, Controllers, World, DeviceRound

\* The two ends of a tunnel name the same key of the device, unless one of
\* them has a key that was written over (reconWgKeys, 377-451).
THEOREM SameKeys == Spec => []EndsAgree
<1>1. ASSUME EndsInv, NEW d \in Device, server # Absent, client[d] # Absent
      PROVE  \/ server.peers[d] \in {Absent, client[d].own}
             \/ {server.peers[d], client[d].own} \cap replaced # {}
  <2>1. client[d].own # Absent
    BY <1>1, TunnelAssumption DEF EndsInv, Typed, ConfigsOK, ClientConfig
  <2>2. server.peers[d] \in replaced \/ server.peers[d] \in {Absent, deviceKey[d]}
    BY <1>1 DEF EndsInv, GenuineCopies, Genuine
  <2>3. client[d].own \in replaced \/ client[d].own = deviceKey[d]
    BY <1>1, <2>1 DEF EndsInv, GenuineCopies, Genuine
  <2> QED
    BY <2>2, <2>3
<1>2. EndsInv => EndsAgree
  BY <1>1 DEF EndsAgree
<1> QED
  BY <1>2, EndsInit, EndsStep, PTL DEF Spec

-------------------------------------------------------------------------------
(***************************************************************************)
(* What a server runs: as in DeviceServiceProofs, a round posts what is    *)
(* still stored, because only the rounds of the account store a config.    *)
(***************************************************************************)
PostsStored == OfAccount("post") => account.config = server

LEMMA PushedStep == ConfigsOK /\ PostsStored /\ Pushed /\ [Next]_vars => PostsStored' /\ Pushed'
<1> SUFFICES ASSUME ConfigsOK, PostsStored, Pushed, [Next]_vars PROVE PostsStored' /\ Pushed'
  OBVIOUS
<1> USE DEF PostsStored, Pushed, OfAccount, secrets, pods, history
<1>1. CASE StoreConfig
  BY <1>1 DEF StoreConfig
<1>2. CASE Post
  <2>1. PICK told : PostTo(told, account.config)
    BY <1>2 DEF Post
  <2> QED
    BY <1>2, <2>1 DEF Post, PostTo, Idle
<1>3. ASSUME NEW r \in Region, ServerRestarts(r) PROVE PostsStored' /\ Pushed'
  <2>1. PICK c \in mounted \cup {server} :
          /\ runs' = [runs EXCEPT ![r] = c]
          /\ missed' = IF c = server THEN missed \ {r} ELSE missed \cup {r}
    BY <1>3 DEF ServerRestarts
  <2>2. runs'[r] = c /\ \A q \in Region \ {r} : runs'[q] = runs[q]
    BY <2>1 DEF ConfigsOK
  <2>3. server' = server /\ account' = account
    BY <1>3 DEF ServerRestarts
  <2>4. ASSUME NEW q \in Region
        PROVE  server = Absent \/ runs'[q] = server \/ q \in missed'
    <3>1. CASE q = r /\ c = server
      BY <2>2, <3>1
    <3>2. CASE q = r /\ c # server
      BY <2>1, <3>2
    <3>3. CASE q # r
      BY <2>1, <2>2, <3>3
    <3> QED
      BY <3>1, <3>2, <3>3
  <2> QED
    BY <2>3, <2>4
<1>4. CASE UNCHANGED <<server, runs, missed>> /\ ~OfAccount("post")'
  BY <1>4
<1>5. CASE UNCHANGED <<server, runs, missed, account>>
  BY <1>5
<1> QED
  BY <1>1, <1>2, <1>3, <1>4, <1>5 DEF Next, Controllers, World, AccountRound,
     DeviceRound, BeginAccount, CreateServerKey, PublishNewKey, Publish,
     ServerKeyExists, PublishKey, KeyIsPublished, ConfigIsCurrent, ConfigExists,
     BeginDevice, GenerateKey, HasKey, WriteClient, Deliver, DeliverServerKey,
     DeliverServer, DeliverDeviceKey, See, AccountFails, DeviceFails, ClearStatus,
     Crash, Idle, vars

\* A server that does not run the stored config was not told of it
\* (reconWGServerConfig, 540-591).
THEOREM PushedToAll == Spec => []Pushed
<1> DEFINE Inv == Typed /\ PostsStored /\ Pushed
<1>1. Init => Inv
  BY TypedInit DEF Init, PostsStored, Pushed, OfAccount, Idle
<1>2. Inv /\ [Next]_vars => Inv'
  BY TypedStep, PushedStep DEF Typed
<1> QED
  BY <1>1, <1>2, PTL DEF Spec

-------------------------------------------------------------------------------
(***************************************************************************)
(* The servers implement ConfigPush: storing is Store, posting is Tell, a  *)
(* server's restart is Restart, and everything else leaves them alone.     *)
(***************************************************************************)
PushInv == Typed /\ PostsStored /\ Pushed

LEMMA PushInit == Init => PushInv /\ Push!Init
  BY TypedInit DEF Init, PushInv, PostsStored, Pushed, OfAccount, Idle, Push!Init

LEMMA PushInvStep == PushInv /\ [Next]_vars => PushInv'
  BY TypedStep, PushedStep DEF PushInv, Typed

LEMMA PushNext ==
  ASSUME PushInv, [Next]_vars
  PROVE  Push!Next \/ UNCHANGED <<server, mounted, runs, missed>>
<1> USE DEF PushInv, Push!Next
<1>1. CASE StoreConfig
  <2>1. server' \in ServerConfig
    BY <1>1, ConfigTyped DEF StoreConfig
  <2>2. Push!Store
    BY <1>1, <2>1, FormerOnes, TunnelAssumption
       DEF StoreConfig, Push!Store, ServerConfig
  <2> QED
    BY <2>2
<1>2. CASE Post
  <2>1. server = account.config /\ server # Absent
    BY <1>2, TunnelAssumption
       DEF Post, OfAccount, PostsStored, Typed, AccountOK, Idle, ServerConfig
  <2>2. PICK told \in SUBSET Region : PostTo(told, account.config)
    BY <1>2 DEF Post
  <2>3. Push!Tell
    BY <2>1, <2>2 DEF PostTo, Push!Tell, secrets
  <2> QED
    BY <2>3
<1>3. ASSUME NEW r \in Region, ServerRestarts(r) PROVE Push!Next
  <2>1. Push!Restart(r)
    BY <1>3 DEF ServerRestarts, Push!Restart, secrets
  <2> QED
    BY <2>1
<1>4. CASE UNCHANGED <<server, mounted, runs, missed>>
  BY <1>4
<1> QED
  BY <1>1, <1>2, <1>3, <1>4 DEF Next, Controllers, World, AccountRound,
     DeviceRound, BeginAccount, CreateServerKey, PublishNewKey, Publish,
     ServerKeyExists, PublishKey, KeyIsPublished, ConfigIsCurrent, ConfigExists,
     BeginDevice, GenerateKey, HasKey, WriteClient, Deliver, DeliverServerKey,
     DeliverServer, DeliverDeviceKey, See, AccountFails, DeviceFails, ClearStatus,
     Crash, vars, secrets, pods, history

\* No post brings a server an older config than the stored one, and a server
\* that starts reads one that was stored, or none: the rounds, the posts and the
\* restarts implement ConfigPush (reconWGServerConfig, 540-591).
THEOREM ImplementsPush == Spec => Pushes
<1>1. PushInv /\ [Next]_vars => [Push!Next]_<<server, mounted, runs, missed>>
  BY PushNext
<1> QED
  BY <1>1, PushInit, PushInvStep, PTL DEF Spec, Pushes, Push!Spec
===============================================================================
