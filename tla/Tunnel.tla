--------------------------------- MODULE Tunnel --------------------------------
(***************************************************************************)
(* The WireGuard tunnels between the devices of an account and its         *)
(* servers.  The account controller makes the server's key pair and the    *)
(* server's config, the device controller the key pair of each device and  *)
(* the client's config (controllers/common/account/account_controller.go   *)
(* and controllers/common/device_controller.go).  A tunnel works when      *)
(* each end names the key of the other.                                    *)
(*                                                                         *)
(* A key stands for its pair.  Rounds may begin at any time; secrets are   *)
(* read from informer caches.  The devices here have open ports, and the   *)
(* steps of a round between its keys and its config (module DeviceService  *)
(* has one of them) succeed or end the round.                              *)
(***************************************************************************)
EXTENDS Integers, FiniteSets

CONSTANTS Device,
          Region,       \* the regions that run a WireGuard server
          ServerKey,    \* the keys that may be generated for the server
          DeviceKey,    \* the keys that may be generated for the devices
          MaxReplaced,  \* bound: how many keys of devices are written over
          MaxMounted,   \* bound: how many former configs stay mounted
          Absent,       \* no such object
          Interference  \* what may happen besides reconciling, see below

\* "fail": a step fails and ends the round; "api": a write to the API server
\* fails; "post": a post to a server is lost; "restart": a server restarts;
\* "clear": the owner clears the account's status; "crash": the manager
\* restarts.
Disturbances == {"fail", "api", "post", "restart", "clear", "crash"}

ASSUME TunnelAssumption ==
  /\ Absent \notin ServerKey \cup DeviceKey
  /\ Absent \notin [own : ServerKey, peers : [Device -> DeviceKey \cup {Absent}]]
  /\ Absent \notin [own : DeviceKey, server : ServerKey]
  /\ {MaxReplaced, MaxMounted} \subseteq Nat /\ Interference \subseteq Disturbances

VARIABLES
  serverKey,   \* the secret wg-server-keys
  published,   \* wg-public-key in the account's Status.DisplayVars
  server,      \* the secret wg-server-config
  deviceKey,   \* device -> the secret wg-device-keys-...
  client,      \* device -> the secret wg-device-config-...
  seen,        \* the informer's copies of serverKey, server and deviceKey
  runs,        \* region -> the config its server runs, or Absent
  mounted,     \* the former configs that a server may still find mounted
  account,     \* the account's reconcile in progress
  device,      \* the device controller's reconcile in progress
  replaced,    \* history: the keys of devices that were written over
  missed       \* history: the regions that were not told of the stored config

secrets == <<serverKey, server, deviceKey, client>>
history == <<replaced, missed>>
pods    == <<runs, mounted>>
vars == <<secrets, published, seen, pods, account, device, history>>

Idle == [step |-> "idle"]

Init ==
  /\ serverKey = Absent /\ published = Absent /\ server = Absent
  /\ deviceKey = [d \in Device |-> Absent] /\ client = deviceKey
  /\ seen = [key |-> Absent, server |-> Absent, keys |-> deviceKey]
  /\ runs = [r \in Region |-> Absent] /\ mounted = {Absent}
  /\ account = Idle /\ device = Idle
  /\ replaced = {} /\ missed = {}

Fails(what) == what \in Interference

\* GenerateWgKeys: a pair nobody has had, and it does not matter which.
Draw(keys) == CHOOSE k \in keys : TRUE

FreshServer == ServerKey \ {serverKey}
FreshDevice == DeviceKey \ (replaced \cup {deviceKey[d] : d \in Device})

-------------------------------------------------------------------------------
(***************************************************************************)
(* A round of the account: reconWGServerKey, reconWGServerConfig.          *)
(***************************************************************************)
OfAccount(step) == account.step = step

BeginAccount ==
  /\ account = Idle
  /\ account' = [step |-> "key"]
  /\ UNCHANGED <<secrets, published, seen, pods, device, history>>

Publish(key) ==
  /\ published' = key
  /\ account' = Idle
  /\ UNCHANGED <<secrets, seen, pods, device, history>>

\* Mutant: the secret is applied, over the one that is there.
ApplyServerKey ==
  /\ OfAccount("key") /\ seen.key = Absent
  /\ FreshServer # {} /\ serverKey' = Draw(FreshServer)
  /\ account' = [step |-> "publish", key |-> serverKey']
  /\ UNCHANGED <<published, server, deviceKey, client, seen, pods, device, history>>

CreateServerKey ==
  /\ OfAccount("key") /\ seen.key = Absent /\ serverKey = Absent
  /\ FreshServer # {} /\ serverKey' = Draw(FreshServer)
  /\ account' = [step |-> "publish", key |-> serverKey']
  /\ UNCHANGED <<published, server, deviceKey, client, seen, pods, device, history>>

PublishNewKey == OfAccount("publish") /\ Publish(account.key)

\* Create refuses when there is a secret that the cache does not show yet.
ServerKeyExists ==
  /\ OfAccount("key") /\ seen.key = Absent /\ serverKey # Absent
  /\ account' = Idle
  /\ UNCHANGED <<secrets, published, seen, pods, device, history>>

PublishKey ==
  /\ OfAccount("key") /\ seen.key # Absent /\ published # seen.key
  /\ Publish(seen.key)

KeyIsPublished ==
  /\ OfAccount("key") /\ seen.key # Absent /\ published = seen.key
  /\ account' = [step |-> "config", own |-> seen.key]
  /\ UNCHANGED <<secrets, published, seen, pods, device, history>>

\* The config of the server: a peer for every listed key of a device.
Config == [own |-> account.own, peers |-> seen.keys]

\* Mutant: the configs are compared by the devices they have.
SameDevices(c) ==
  \A d \in Device : (c.peers[d] = Absent) <=> (seen.keys[d] = Absent)

IsCurrent(c) == c = Config

ConfigIsCurrent ==
  /\ OfAccount("config") /\ seen.server # Absent /\ IsCurrent(seen.server)
  /\ account' = Idle
  /\ UNCHANGED <<secrets, published, seen, pods, device, history>>

\* Without a secret in the cache the round creates one; when there is one after
\* all, it ends.
ConfigExists ==
  /\ OfAccount("config") /\ seen.server = Absent /\ server # Absent
  /\ account' = Idle
  /\ UNCHANGED <<secrets, published, seen, pods, device, history>>

\* The kubelets refresh what they mount some time later, if at all: a file
\* mounted by its subPath stays as it was when the pod was made.  The bound
\* says how many former configs are remembered.
StaysMounted ==
  LET former == mounted \cup ({server} \ {Absent})
  IN  \/ Cardinality(former) <= MaxMounted /\ mounted' = former
      \/ mounted' \in {some \in SUBSET former : Cardinality(some) = MaxMounted}

\* The update names no version.
StoreConfig ==
  /\ OfAccount("config")
  /\ \/ seen.server = Absent /\ server = Absent
     \/ seen.server # Absent /\ ~IsCurrent(seen.server)
  /\ server' = Config
  /\ account' = [step |-> "post", config |-> Config]
  /\ StaysMounted
  /\ missed' = Region
  /\ UNCHANGED <<serverKey, deviceKey, client, published, seen, runs, device,
                 replaced>>

\* Tell some regions, end the round.
PostTo(told, config) ==
  /\ runs' = [r \in Region |-> IF r \in told THEN config ELSE runs[r]]
  /\ missed' = Region \ told
  /\ account' = Idle
  /\ UNCHANGED <<secrets, published, seen, mounted, device, replaced>>

\* Mutant: the config is posted as the cache shows it.
PostSeen == OfAccount("post") /\ PostTo(Region, seen.server)

\* An error is logged and forgotten; a region without active devices is not
\* told either.
Post ==
  /\ OfAccount("post")
  /\ \E told \in IF Fails("post") THEN SUBSET Region ELSE {Region} :
       PostTo(told, account.config)

AccountRound ==
  \/ CreateServerKey \/ PublishNewKey \/ ServerKeyExists
  \/ PublishKey \/ KeyIsPublished
  \/ ConfigIsCurrent \/ ConfigExists \/ StoreConfig \/ Post

-------------------------------------------------------------------------------
(***************************************************************************)
(* A round of a device: reconWgKeys, reconDeviceConfig.  One worker does   *)
(* them all.                                                               *)
(***************************************************************************)
BeginDevice(d) ==
  /\ device = Idle
  /\ seen.keys[d] = Absent /\ deviceKey[d] # Absent =>
       Cardinality(replaced) < MaxReplaced
  /\ device' = [step |-> "key", of |-> d, saw |-> seen.keys[d]]
  /\ UNCHANGED <<secrets, published, seen, pods, account, history>>

AtKey(d) == device.step = "key" /\ device.of = d

\* KubectlApply writes over the secret that the cache did not show yet.
GenerateKey(d) ==
  /\ AtKey(d) /\ device.saw = Absent
  /\ FreshDevice # {} /\ deviceKey' = [deviceKey EXCEPT ![d] = Draw(FreshDevice)]
  /\ replaced' = replaced \cup ({deviceKey[d]} \ {Absent})
  /\ device' = Idle
  /\ UNCHANGED <<serverKey, server, client, published, seen, pods, account, missed>>

\* Mutant: the key found is that of any device.
HasSomeKey(d) ==
  /\ AtKey(d)
  /\ \E e \in Device :
       /\ seen.keys[e] # Absent
       /\ device' = [step |-> "config", of |-> d, own |-> seen.keys[e]]
  /\ UNCHANGED <<secrets, published, seen, pods, account, history>>

HasKey(d) ==
  /\ AtKey(d) /\ device.saw # Absent
  /\ device' = [step |-> "config", of |-> d, own |-> device.saw]
  /\ UNCHANGED <<secrets, published, seen, pods, account, history>>

AtConfig(d) == device.step = "config" /\ device.of = d

\* Mutant: it is not asked whether the server's key is published.
WriteUnchecked(d) ==
  /\ AtConfig(d)
  /\ client' = [client EXCEPT ![d] = [own |-> device.own, server |-> published]]
  /\ device' = Idle
  /\ UNCHANGED <<serverKey, server, deviceKey, published, seen, pods, account, history>>

WriteClient(d) ==
  /\ AtConfig(d)
  /\ client' = IF published = Absent THEN client
               ELSE [client EXCEPT ![d] = [own |-> device.own, server |-> published]]
  /\ device' = Idle
  /\ UNCHANGED <<serverKey, server, deviceKey, published, seen, pods, account, history>>

DeviceRound(d) == GenerateKey(d) \/ HasKey(d) \/ WriteClient(d)

-------------------------------------------------------------------------------
(***************************************************************************)
(* The watches, the servers, and what may go wrong.                        *)
(***************************************************************************)
See(copies) ==
  /\ seen' = copies /\ seen' # seen
  /\ UNCHANGED <<secrets, published, pods, account, device, history>>

DeliverServerKey    == See([seen EXCEPT !.key = serverKey])
DeliverServer       == See([seen EXCEPT !.server = server])
DeliverDeviceKey(d) == See([seen EXCEPT !.keys[d] = deviceKey[d]])

Deliver == DeliverServerKey \/ DeliverServer \/ \E d \in Device : DeliverDeviceKey(d)

\* Any step may fail: a status write meets a conflict; between storing and
\* posting, the update that follows a create fails, or no regions were listed.
AccountFails ==
  /\ Fails("fail") /\ ~OfAccount("idle")
  /\ account' = Idle
  /\ UNCHANGED <<secrets, published, seen, pods, device, history>>

DeviceFails ==
  /\ Fails("fail") /\ device # Idle
  /\ device' = Idle
  /\ UNCHANGED <<secrets, published, seen, pods, account, history>>

\* ClearStatusIfAnnotated forgets the published key.
ClearStatus ==
  /\ Fails("clear") /\ account = Idle
  /\ published' = Absent
  /\ UNCHANGED <<secrets, seen, pods, account, device, history>>

\* The manager dies, also when the update of the server's config fails: the
\* error it reports is the nil one of another call.
Crash ==
  /\ \/ Fails("crash")
     \/ Fails("api") /\ OfAccount("config") /\ seen.server # Absent
  /\ account' = Idle /\ device' = Idle
  /\ seen' = [key |-> serverKey, server |-> server, keys |-> deviceKey]
  /\ UNCHANGED <<secrets, published, pods, history>>

\* A server that starts reads the secret as it is mounted: the stored config,
\* one of before, or none.
ServerRestarts(r) ==
  /\ Fails("restart") /\ server # Absent
  /\ \E c \in mounted \cup {server} :
       /\ runs' = [runs EXCEPT ![r] = c]
       /\ missed' = IF c = server THEN missed \ {r} ELSE missed \cup {r}
  /\ UNCHANGED <<secrets, published, seen, mounted, account, device, replaced>>

Controllers ==
  \/ BeginAccount \/ AccountRound
  \/ \E d \in Device : BeginDevice(d) \/ DeviceRound(d)
  \/ Deliver

World ==
  \/ AccountFails \/ DeviceFails \/ ClearStatus \/ Crash
  \/ \E r \in Region : ServerRestarts(r)

Next == Controllers \/ World

Spec == Init /\ [][Next]_vars

\* Both controllers keep reconciling and the watches deliver.  The workqueue
\* is first-in-first-out: no device is passed over for ever.
Fairness ==
  /\ WF_vars(BeginAccount) /\ WF_vars(AccountRound)
  /\ \A d \in Device : SF_vars(BeginDevice(d))
  /\ WF_vars(\E d \in Device : DeviceRound(d))
  /\ WF_vars(DeliverServerKey) /\ WF_vars(DeliverServer)
  /\ \A d \in Device : WF_vars(DeliverDeviceKey(d))

\* From some moment on nothing goes wrong.
CalmSpec == Spec /\ Fairness /\ <>[][Controllers]_vars

-------------------------------------------------------------------------------
ServerConfig == [own : ServerKey, peers : [Device -> DeviceKey \cup {Absent}]]
ClientConfig == [own : DeviceKey, server : ServerKey]

TypeOK ==
  /\ {serverKey, published} \subseteq ServerKey \cup {Absent}
  /\ server \in ServerConfig \cup {Absent}
  /\ deviceKey \in [Device -> DeviceKey \cup {Absent}]
  /\ client \in [Device -> ClientConfig \cup {Absent}]
  /\ seen \in [key : ServerKey \cup {Absent}, server : ServerConfig \cup {Absent},
               keys : [Device -> DeviceKey \cup {Absent}]]
  /\ runs \in [Region -> ServerConfig \cup {Absent}]
  /\ mounted \subseteq ServerConfig \cup {Absent}
  /\ account \in {Idle} \cup [step : {"key"}]
                 \cup [step : {"publish"}, key : ServerKey]
                 \cup [step : {"config"}, own : ServerKey]
                 \cup [step : {"post"}, config : ServerConfig]
  /\ device \in {Idle} \cup [step : {"key"}, of : Device,
                          saw : DeviceKey \cup {Absent}]
                \cup [step : {"config"}, of : Device, own : DeviceKey]
  /\ replaced \subseteq DeviceKey /\ missed \subseteq Region

\* Whatever is written down as the server's key is the server's key: in its
\* config, in the account's status and in the clients' configs.
OneServerKey ==
  /\ published \in {serverKey, Absent}
  /\ server # Absent => server.own = serverKey
  /\ \A d \in Device : client[d] # Absent => client[d].server = serverKey

\* The two ends agree about the device's key, but for keys that were written
\* over by a round that did not see them (reconWgKeys, 383-436).
EndsAgree ==
  \A d \in Device : server # Absent /\ client[d] # Absent =>
    \/ server.peers[d] \in {Absent, client[d].own}
    \/ {server.peers[d], client[d].own} \cap replaced # {}

\* A server runs the stored config, or it was not told of it: a post was lost,
\* the round ended before it, or the region was not active
\* (reconWGServerConfig, 540-591).
Pushed ==
  \A r \in Region : server = Absent \/ runs[r] = server \/ r \in missed

\* The servers as their own specification has them: a post brings a server the
\* config that is stored at that moment, never an older one, and only a server
\* that starts reads one of before (reconWGServerConfig, 540-591).
Push == INSTANCE ConfigPush WITH Server <- Region, Blank <- Absent, stored <- server

Pushes == Push!Spec

\* Left alone, every device gets a tunnel whose ends know each other.
Connects ==
  <>[](\A d \in Device :
         /\ server # Absent /\ client[d] # Absent
         /\ client[d] = [own |-> server.peers[d], server |-> server.own]
         /\ serverKey = server.own /\ deviceKey[d] = client[d].own)
===============================================================================
