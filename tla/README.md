# TLA+ development of the internal operator

This directory models the parts of the operator that buy, scale, join and give
back machines, the tree of providers, edges and pools they belong to with the
agent that edits it, the part that opens ports of devices behind a proxy, the
WireGuard keys and configs of an account, and the DNS records of regions and
domains. It checks the models with TLC on small instances and proves the central
safety properties with TLAPS for every instance.

## The system

The operator is one Go process, the *manager* (`src/main.go`), that runs eight
controllers on controller-runtime. Each controller has one worker, so the
reconciles of one kind never overlap, those of different kinds do. They share
the API server's objects, read (stale) through informer caches, and written
through the client or by running `kubectl`. A reconcile that panics kills the
process; the pod is restarted and every object is queued again.

| component | state it keeps | operations | correct when |
|---|---|---|---|
| `lib/rcalculate` | none; input is a picture of the fleet | `Calculate` | it adds below max, deletes above min, and does not flap |
| NodePool controller | NodePool, its status; creates, tags, deletes WorkerNodes | `reconWorkerNodes`, `finalize` | size within bounds, indices usable, stateful nodes kept, settles, goes away |
| WorkerNode controller | WorkerNode; Jobs; label on the Node | `ensureNodeCreated`, `ensureNodeAttached`, `finalize` | the node joins with its label, no machine is left behind |
| Edge controller | Edge; applies Region and NodePools | `PatchDefaults`, `reconRegion`, `reconPool`, `UpdatePool`, `finalize` | its pools are those of the spec, its deletion ends, no pool is left with machines |
| CloudProvider controller | CloudProvider; its secret | `finalize` | the secret outlives the machines that are returned with it; its deletion ends |
| Region controller | Region; a DNS record per region | `reconUpdateRecord`, `finalize` | the record is the set of node addresses |
| Domain controller | Domain; its DNS record | `reconUpdateRecord`, `finalize` | the record is Spec.Ips; gone with the object |
| Device controller | key secret, Service, DNS rewrite rules, client config | five `recon…` steps | keys are generated once; the Service follows region and ports |
| Account controller | namespace, server keys, server config, deployments, coredns, proxy config | seven `recon…` steps | one port per device service, every peer configured |
| `lib/operator.v2` | checks, finalizers, annotations of an object | `EnsureChecks`, `EnsureFinalizers`, `CheckFailed`, `Done`, `UpdateStatus`, … | no lost wake-ups |
| agent | a position in a Kafka partition | consume, run kubectl, commit | what the cluster looks like in the end is what the partition says, and the agent goes on |
| name server client, terraform outputs, pod usage | none | HTTP calls, `terraform output`, `kubectl get` | – |

How they interact: a CloudProvider owns Edges, an Edge owns NodePools, a
NodePool owns WorkerNodes and a WorkerNode owns Jobs. Owner references wake the
owner's controller when a dependent changes (`Owns`), and make Kubernetes'
garbage collector delete the dependents. An Account and its Devices share the
namespace `wg-<account>`: the account hands out proxy ports and collects the
devices' public keys, the devices point their Services at the ports.

What is hard here:

* Listings are stale: a pool may not see the node it has just created.
* `CheckFailed` and `Done` end a round without a requeue. The wake-up is the
  event of the status write itself, which is no event at all if nothing changed.
* Jobs go on while the object that applied them is deleted or its Job is
  deleted.
* Kubernetes objects are released in two hands: the controller's finalizer and
  the garbage collector's.
* Anyone may delete any object at any time and in two ways: `kubectl delete`
  asks for the background, which makes the API server take the garbage
  collector's finalizer off and leaves the dependents to the controllers.
* The agent executes every message more than once, and old ones again after it
  was restarted.
* A crash of the manager between two writes is part of normal operation: one
  successful code path ends in a nil dereference.

The hazards, each at its line, are listed in `PROJECT.json`.

## Modules

| module | models |
|---|---|
| `Rcalculate` | `lib/rcalculate/main.go`: the decision, with its integer divisions |
| `NodeIndex` | the index of a new node and of the node to delete |
| `ScaleLoop` | the autoscaler as its authors picture it: one pool, each decision takes effect at once |
| `NodePool` | the node pools of one edge: cache, watch, workqueue, timers, garbage collector, users, crashes |
| `WorkerNode` | one worker node from the first reconcile to its release, with its Jobs, agent and Node |
| `DeviceProxy` | an account's table of proxy ports: drawn, stored, posted to the regions' proxies (Account controller) |
| `DeviceService` | extends `DeviceProxy` with the Services of the devices (Device controller), which read the same table |
| `Tunnel` | the keys and configs of an account's server and of its devices (Account and Device controllers) |
| `Dns` | the records of domains and regions at the name server (Domain and Region controllers, `lib/nameserver`) |
| `InfraTree` | a provider, its edges, their pools, worker nodes and machines (Edge and CloudProvider controllers, the rest as far as the tree sees it, garbage collector, users) |
| `Agent` | the agent: a partition, its position in it, tries, the kubectl it waits for |
| `Infra` | extends both: the messages of the partition are the users of the tree |
| `ConfigPush` | abstract: a config that is stored and pushed to servers; `DeviceProxy` and `Tunnel` implement it |
| `MCScaleLoop`, `MCNodePool`, `MCNodePoolFair`, `MCWorkerNode`, `MCDeviceProxy`, `MCDeviceService`, `MCTunnel`, `MCDns`, `MCInfra` | the instances TLC checks |
| `DecisionProofs`, `ScaleLoopProofs`, `NodePoolProofs`, `WorkerNodeProofs`, `DeviceServiceProofs`, `TunnelProofs`, `DnsProofs`, `InfraProofs` | theorems and proofs |

### NodePool

`worker` is what the API server holds, `cache` the informer's copy, and `events`
the states the watch has still to deliver. A round is two steps: `Begin` takes a
pool from `queue`, checks its deletionTimestamp and lists the cache (`rc.view`);
then `AddNode`, `DeleteNode`, `AddStateful`, `Neutral` or `ReconFails` decides
with `Calculate` and writes, or `Finalize` waits or releases, or `FinalizeFails`
(a listing that fails, a conflict). Anything may happen between the two. The
code's order of tests is that of `Calculate`; the listing's order is unspecified
in the code (`Nodes[0]`), so `Decides` lets any node be the first.

`MaxLag` bounds by how many events a listing is behind. It is a guard of
`Begin`, not of the watch: TLC needs a bound, and the theorems are stated in
terms of it. With `MaxLag = 0` the cache is up to date when a round begins, but
not when it writes.

The copy of the *pool* that a round works on is the one of the moment it begins;
that it may be older still shows as a write that meets a conflict (`InSync`,
`FinalizeFails`) and nothing else. The status writes of `CheckFailed` and `Done`
change `LastReconcileTime`, which has whole seconds: `PerhapsWake` says that
such a write may be no event.

Deleted worker nodes stay, terminating, until `WorkerGone`, which stands for the
whole of module WorkerNode's `Release`. In the listing the code does not filter
terminating nodes, and neither does the model.

A pool is deleted in the foreground (by the garbage collector, on behalf of its
edge) or in the background (by `kubectl delete`); in the second case it is not
`blocked` and nobody deletes its worker nodes: `finalize` only waits for them.
The same happens to a worker node that a round under way creates after the
garbage collector has taken its finalizer off. `Overtaken` names such nodes, and
`PoolsGo` is stated with them as the exception.

### WorkerNode

One variable per thing that has a life of its own: the object (`phase`,
`stateful`, `prologue`, `foreground`), the create and delete Jobs (`job`,
`delJob`), pods whose Job was deleted (`orphans`), the `machine`, the `agent` on
it, the cluster's `node`, and the informers' copies. `rc.step` is where the
reconcile is; each step reads or writes one thing, as in the code:

    outputs -> apply -> job -> attach          (live)
    detach -> destroy -> delete | release      (deletionTimestamp set)

`terraform apply` and `destroy` are atomic, and the outputs exist exactly as
long as the machine does: the state is locked in the code's bucket, a second
apply finds the machine there. `Stale` is the API server's conflict: the object
changed since the round read it.

`excuse` is a history variable that records what finalize overlooked when it
decided there was nothing to destroy. It makes the leak a statement about two
steps that may be far apart (`NoLeak`) instead of hiding it.

### DeviceProxy and DeviceService

`config` is the ConfigMap `device-proxy-config`, a function from the open ports
(device and port) to ports of the proxy; `seenConfig` is the informer's copy,
which both controllers read. A round of the account is `Begin` (the listing of
devices and regions, which the round keeps), then `CreateTable`, `TableIsRight`
or `StoreTable`, then `Post`. `Draws` is what the code really excludes: numbers
that are *service* ports of old entries. Other steps of the round appear as
`RoundFails`. The posts of one round are one step, for nothing else of the
account happens between them; which of them are lost is a choice. `missed`
records the regions that were not told of the stored table. A proxy that
restarts reads the mounted file, which the kubelet refreshes some time later or
not at all: `mounted` has the former tables it may find there, at most
`MaxMounted` of them.

In `DeviceService` a round of a device is one step: it writes the Service or
does nothing that the others see. `lost` records the ports whose entry of the
table went away or changed, which is one of two ways in which a Service can lead
to the wrong place. The other is `Temp`: a device without ports is given a
Service with one port, 80, that leads nowhere (`TargetPort` 0). Such a device is
never found current, for it has no port and its Service has one, and its
repeated rounds, which write the same Service, are stuttering steps. But when
its owner then opens port 80 and no other, `checkPortsDiffer` finds one port on
either side and the numbers equal, and the Service keeps its target for good.
Abstracted: `TargetPort` of a port and the address of a device, whose edits only
make the table be stored and posted again, and the order of Spec.Ports.

### Tunnel

One variable per secret: `serverKey`, `server`, `deviceKey`, `client`;
`published` is the key in the account's status, which the device controller
copies into client configs; `seen` is the informer's copy of the three secrets
that are read. A key stands for its pair. `runs` is what the WireGuard servers
run.

    key -> publish | config -> post             (a round of the account)
    key -> config                               (a round of a device)

The two kinds of secret are made in different ways, and that decides what may go
wrong. The server's key is made with `Create`, which refuses when there is one
that the cache does not show; a device's key is made with `KubectlApply`, which
writes over it. `replaced` records the keys lost that way. The server's config
is created, or updated without a version; `Config` has a peer for every key the
cache shows. It is stored first and posted once; `missed` and `mounted` are as
in `DeviceProxy`: `wg0.conf` is mounted with a `subPath`
(`wg-deployment.tmpl.yml:81-83`), so a container that restarts reads the config
its pod was started with. A `kubectl apply` that fails is `AccountFails` or
`DeviceFails`; an update of the server's config that fails kills the manager,
because the error handed to `failed` is the nil one of an earlier call
(`Crash`).

Abstracted: the devices have open ports (a device without one never passes
`reconSyncServices` and never gets a client config); the addresses of peers, and
the node ports and regions of the client's config; the account's status as a
cache shows it, for which a device's round that fails and comes back stands.

### ConfigPush

Server configs and proxy tables are pushed by two copies of one pattern: store,
then post once to the active regions, and never again unless the config changes.
`ConfigPush` says what the pattern is good for without saying how: `Store`,
`Tell`, `Restart`. A server that is told takes up the config that is stored at
that moment, never an older one; only a server that starts again may take up one
of before, from a volume that has not been refreshed (`mounted`), and none that
was never stored. The refinement mappings are

    DeviceProxy:  stored <- config, runs <- forwards, Blank <- the empty table
    Tunnel:       stored <- server, runs <- runs,     Blank <- Absent

with `mounted` and `missed` in both cases the variables of the same names. Both
runs check the refinement (`Pushes`), and both proof modules prove it
(`ImplementsPush`). It is not about the shape of the models: it fails as soon as
a round posts what the cache shows, or a second writer stores a config while a
round is under way.

### InfraTree, Agent and Infra

In `InfraTree` the provider, the edges and the pools are what the API server
holds; `seenProvider`, `seenEdge`, `seenPool`, `seenWorker` and `seenSecret` the
informers' copies, each behind by any amount. `dangling` has the objects whose
owner is gone, which is all that owner references decide. A provider has a
`birth`, so that one that was deleted and made again is not taken for its
predecessor: two are enough, for the cache shows at most one that is gone. Each
early `update` of the code ends the round, so the prologue is one action per
update, refused when the cached copy is not the stored one:

    labels -> finalizers -> owner | region -> pools        (an edge)
    guard                                                  (a provider)
    list the edges -> secret -> release                    (a provider, deleted)

`UpdatePools` applies all pools of the round's copy of the spec; nothing ever
deletes a pool that was taken out of the spec, and from then on `Matches` is
false for ever, so every round applies the others again. `ListedEdges` is a
listing by a label that edges put on themselves in their first round. A deleted
edge is released when the cache shows no pool of it, a deleted provider when it
shows no edge; both take off the garbage collector's finalizer together with
their own.

Below the pools are what modules NodePool and WorkerNode look like from here.
`worker` has a pool's worker node, one at a time, and `machine` that worker
node's machine. Each reconcile is one step, on the cached objects:

    AddWorker -> StartPod -> PodBuys                       (a live pool)
    CollectWorker -> ReturnMachine -> ReleaseWorker        (a deleted one)
    PoolGone                                               (no worker node listed)

The create pod needs nothing of the cluster once it runs: `PodBuys` is possible
when its worker node, or the pool, is gone. `PoolGone` releases the pool on the
cached listing of the edge's worker nodes, so one that the watch has not shown
stays behind (`adrift`), and `AddWorker` works on the cached pool, which may be
in the middle of its deletion. A delete Job may fail, or come before a second
create pod (`ReturnFails`): the machine is then kept, for the Job exists and is
not run again. Terraform may not answer (`OutputsFlake`): the worker node is
released and leaves its machine. A pool that was applied a moment ago has no
finalizers (`GuardPool`), and goes at once when the collector deletes it. What
becomes of a machine whose worker node is gone is the subject of `NoLeak` of
module WorkerNode, and not of this module.

What a stale listing costs is in three variables. `missed`: pools that were
there when their edge was released, but not in the cache. `adrift`: worker nodes
that were there when their pool was released, but not in the cache. `late`:
create Jobs applied after the provider's listing, or when the secret was already
gone. `NoStranded` is stated with all three.

`Agent` is the loop of `readMessages`: a message is executed `MaxRetries` times
whether kubectl fails or not, since nothing ends the loop after a success; a
message that is not JSON ends it at once; then the message is committed, without
a look at the answer. `kubectl delete` waits for the object to go (`waiting`).
`Rejoin` takes the position back to any earlier one: the agent was restarted, or
waited longer than its consumer group allows, and commits were lost.

`Infra` makes the messages the tree's users. `Cascade` is a user with another
client who deletes in the foreground. `Stuck` names what keeps a deletion from
ending: an owner deleted in the background, or one that the garbage collector
has finished with, above an object that nobody deletes (`Held`: a provider and
its edge, an edge and its pool, a pool and its worker node); a machine whose
worker node cannot return it, because the secret is gone or its delete Job was
in vain.

### Dns

`kind` says which objects are domains and which are regions, once and for all. A
round of an object is `Begin`, then

    read -> upsert -> confirm                   (a domain)
    upsert -> confirm                           (a region)
    delete -> release                           (a domain with a deletionTimestamp)

`Matches` is the code's comparison: both lists in descending order, compared as
far as `Spec.Ips` goes. `old` says of a copy that the object has changed since,
so that a status write or the removal of the finalizer meets a conflict.
`upToDate` has the domains whose check is true for the present generation. The
name server may refuse a request (`Refused`: its answer is not read), answer a
read with something that is no record, or perform an upsert after the client's
five seconds (`TimesOut`, `Arrive`). `doubted` records the owners whose last
write was refused or performed late. A deleted region is never released: its
`finalize` does nothing.

Objects have names of their own: renaming a domain, which leaves the old record
behind, and two domains with one name are left out.

## What the runs check

| run | instance | result |
|---|---|---|
| `scale_loop` | equal nodes of memory 100, four bounds (one with min > max), 7 × 4 loads around the thresholds of one to four nodes | 2 570 states; holds |
| `scale_loop_mixed` | nodes of memory 100 and 300 | `DeleteKeepsRoom` is violated |
| `node_pool_safety` | one pool, 4 names, bounds 2..2, lag 1, every interference | 808 218 states; holds |
| `node_pool_fair` | two edges in one run: one pool of three names, bounds edited between 1..2 and 1..3, changing load with stateful pods; two pools of one node each, deleted in both ways, users that delete worker nodes, failing rounds; lag 0 | 177 428 states; holds |
| `infra` | one edge with up to two pools, one kind of pool with worker nodes, five partitions, two tries per message, one mishap | 428 703 states; holds |
| `device_proxy` | two devices with one port, one region, two proxy ports, one former table, every disturbance | 634 032 states; holds |
| `device_ports_unique` | the same, nothing but edits | `PortsUnique` is violated |
| `device_service` | one device with two ports, 80 among them, no proxies, crashes | 723 240 states; holds |
| `tunnel` | two devices, one region, two server keys, three device keys of which one may be written over, one former config, every disturbance | 773 775 states; holds |
| `dns` | one owner, a domain or a region, two addresses, two pending upserts, every disturbance | 56 694 states; holds |
| `worker_node` | one create pod at a time, every interference | 318 011 states; holds |
| `worker_node_one_create` | two create pods at a time, tags and deletion only | `OneCreate` is violated |

Why the bounds are enough. Memory is counted in hundredths of a node, so loads
are percentages and 74, 75, 80 are on both sides of the two thresholds. In
`node_pool_safety` the pool wants two nodes, with lag 1 it can exceed its
maximum by one, and the fourth name is the one that would exceed it by two. It
has one pair of bounds and no load, since its invariants bound what stale
listings do and say nothing of the load's decisions, which `node_pool_fair` and
`scale_loop` explore; the theorems cover all bounds and loads. It has one pool:
that two pools of an edge count each other's nodes, and delete them, is in
`node_pool_fair`, and for these three invariants in the theorems only. Symmetry
over names is used in that run only, which checks invariants alone. In
`node_pool_fair` two pools suffice for the mutual wait of `finalize`, and bounds
1..3 let a second and a third deletion be decided while the first is under way;
the two edges share the run, and the first state decides which one it is. Two
devices are needed for two entries that are drawn in different rounds, and two
proxy ports for an entry that changes; one proxy, because proxies do not
interact; and one former table that stays mounted (`MaxMounted`), the empty one
or any other, which is enough for a restart to bring an older table than the one
a proxy runs. `device_service` has two ports, so that a port can be swapped for
another while their number stays, one of them 80, so that a Service without
ports can be taken for right, and no proxies, which the Services do not depend
on. In `tunnel` two devices make the server's config change while a round of the
other one is under way, the third key is one written over, and the second server
key is the one that a second round would make. In `dns` two addresses give a
record that is larger, smaller, sorted before or after the one wanted, and two
pending upserts can be performed in the wrong order; one owner, since records of
different names do not meet. In `infra` the partitions are: an edge whose pool
gets worker nodes, and the provider; an edit of an edge; a deletion between two
edges of one name; the provider taken away under its edge, after a message that
is not JSON; a pool taken out of the spec. `Staffed` bounds which pools get
worker nodes: the one of the first partition, whose whole life the run follows
from its first machine to a deletion at any level, in the foreground or not; the
others show how pools follow the spec, which worker nodes have no part in. The
first state has no provider, or one that has been reconciled. `MaxRetries` is
the code's own. `MaxMishaps` is 1: one failure, restart, lost commit, crash or
deletion in the foreground at any moment, the last one only after the partition
was read, which bounds the interleavings of two clients. The controllers' own
races (stale copies, rounds under way, the garbage collector) are not bounded by
it. Edges meet only in the provider's listing: one is enough to be listed, not
yet listed and no longer listed. `SecretOutlives` covers all sizes and any
number of mishaps. In `worker_node` one create pod at a time is still enough for
an orphaned pod to outlive its Job and its WorkerNode; two are needed only to
see two of them.

Deadlock is checked everywhere except in `worker_node_one_create`, where the
deleted worker node is the end.

### The three disagreements

* `DeleteKeepsRoom`: the code explains a deletion with "Node usage is less than
  75% if node will be deleted, deleting last node" (`rcalculate/main.go:260`),
  but subtracts the node that was listed first (`:178`), not the last one. With
  equal nodes the two are the same (`scale_loop`); with mixed sizes the pool may
  delete its largest node and be overfull.
* `OneCreate`: `createNode` refuses a second Job ("creation of node is in
  progress", `workernode_controller.go:299`), but the same round deletes the Job
  of the cache (`:342`), which is the one just applied if the watch was quick.
  Its pod goes on, and the next round starts another.
* `PortsUnique`: "method to finding the unique port"
  (`account_controller.go:987`) looks for the number among the service ports of
  the old table (`:980`): entries of one round, and of two, may get the same
  proxy port.

Where the code is silent the models are too: nothing compares the fleet with
`Spec.Max` when it shrinks, although the notes in `kresource/task.md:10` say
"while node_length > max -> delete one"; an edit of the bounds that lowers the
maximum is among the edits of `node_pool_fair`, and `Settles` does not promise
that the pool gets below it.

Several properties are stated with the exception the code needs, and the
exception is worth knowing. `Stored`: a table without entries is never stored,
so the last ports of an account stay forwarded. `OwnTargets`, `Routed`: a port
that is closed and opened again gets a new proxy port that its Service is never
told of, because `checkPortsDiffer` compares ports only; and a Service that was
written for no ports leads nowhere although its device has opened port 80 since,
so `OwnTargets` speaks of the others and `Routed` of ports and region and not of
targets. `Pushes`: a restart may take a server or a proxy back to an older
config, where it stays until the next one is stored. `EndsAgree`: a device's key
that was written over stays in the configs until the next rounds. `Confirmed`,
`NoGhost`, `Follows`: the name server's refusals go unnoticed, and a lower
address that is removed from a domain stays in its record. `NoStranded`: the
secret goes with the edges that the cache shows, so a machine bought in between,
or in a pool that was just applied, or of a worker node that its pool's release
did not see, cannot be returned. `TreeGoes`: a deletion in the background, or an
object that a round under way applied or created, leaves an owner waiting for a
dependent that nobody deletes; and a delete Job that failed is not run again, so
its worker node waits, and all above it. `Delivered`: pools that left the spec
stay with their machines; only pools that are in the spec are promised.
`AgentGoesOn`: `kubectl delete` of an edge that has pools waits in the
background for ever, and with it every later message of the partition.

### Fairness

*ScaleLoop*: the pool is reconciled every 30 seconds (`RequeueAfter`).
*NodePool*: the watch delivers, timers expire, a round that began ends. The
workqueue is first-in-first-out, so a queued pool is taken although others come
(strong fairness of `Begin`, whose guard is also false while another pool is
reconciled). Worker nodes that are deleted are released in the end: that is what
`Deletes` of module WorkerNode is about, with its exception. The garbage
collector does its rounds.
*WorkerNode*: as above, and strong fairness for `StartPod` and
`CollectorReleases`. Under weak fairness alone the reconcile may delete every
create Job before its pod starts, and the garbage collector every delete Job
before it looks whether any remain: races that nobody loses for ever in
practice.

*DeviceProxy, DeviceService*: account and device come back after 30 seconds (or
with the workqueue's back-off after an error), and the informers deliver.
*Tunnel*: likewise, with strong fairness of `BeginDevice`, for the devices share
one worker and the workqueue is first-in-first-out.
*Dns*: the objects come back after 30 seconds (or with the back-off after an
error), and the name server performs in the end what it has accepted.
*Infra*: edges and providers come back after their period, or at the resync at
the latest, rounds that began end, the five watches deliver, the garbage
collector does its rounds, and the agent reads on. Of pools and worker nodes
only what takes them down is fair (`Shrinks`): that a pool ever gets a worker
node or a machine is not assumed (`Grows`), nor that a delete Job does its work,
which may end in failure instead (`Falters`, `Stuck`). All of it is weak
fairness: no action is fair that the code could lose to another.

Liveness is stated for a world that calms down: from some moment on only the
controllers act (`<>[][Inside]_vars` and its like). Loads, edits, failures and
crashes may come in any number before (in `infra` the bound on mishaps says the
same). `PoolsGo` and `ReachesMin` additionally assume the informers' periodic
resync; without it a pool whose last wake-up was lost waits for ever. `Settles`
does not need the resync.

## What is proved

For every set of pools and names, all sizes, bounds, lags and interferences,
from the modules' named assumptions on the constants and from the hypotheses
named below:

* `NodePoolProofs`: `TypeCorrect`, `OvershootBounded`, `IndicesShared`,
  `OrphansBounded`. The three bounds are not inductive. What makes them so is
  the relation between a listing and the truth (`Behind`, `ViewBehind`): the
  worker nodes that the cache does not show are at most as many as the events
  that are still to be delivered, and those a round's view does not show are at
  most `MaxLag`, because the worker that creates nodes is the one whose round is
  in progress (`ActorPresent`). An index is shared only with a node the view did
  not show; a pool is released on an empty view.
* `NodePoolProofs`, the floor: `FloorHolds` (`FloorKept`) has the hypothesis
  `LeftAlone`: listings are up to date when a round begins, and nobody but the
  pools deletes worker nodes or pools. Loads, edits of the bounds, failures and
  crashes are free. The invariant (`FloorInv`) says that indices are unique,
  that below the index of every terminating node at least as many nodes stay as
  the minimum asks for (`Safe`), and that a round's listing differs from the
  truth only by nodes that went for good since (`ViewExact`): so the node with
  the largest index is one whose loss leaves enough, or terminates already. The
  hypothesis is not for the proof's convenience: with lag 1 TLC finds two nodes
  made from one listing, with one index, that are both deleted. The floor is the
  least minimum that any edit can give a pool, since a minimum that is raised
  while a node terminates is not kept: the round reads the new minimum but
  counts the node. `OwnFloorHolds` says it of the round's own `Spec.Min` when
  minima are not edited.
* `NodePoolProofs`, wake-ups: `NeverAsleep` (`[]Awake`) has the hypothesis
  `Undisturbed` (the edge has one pool, and no call of a round fails). A pool
  that is neither queued nor on its timer nor in a round has a change still to
  be delivered or a terminating node still to go, or is deleted itself and waits
  for a worker node of the edge. The invariant says that the last state the
  watch will show is the true one (`Latest`) and that a round's listing is the
  cache unless the pool was woken since (`ViewCurrent`). With two pools it is
  false: an event wakes the owner of a worker node, and the pool that deleted a
  node of the other one may sleep until the resync.
* `WorkerNodeProofs`: `TypeCorrect` and `NoMachineLeft` (`[]NoLeak`). The
  invariant follows a machine from the release backwards: at the step "release"
  there is no machine, or the history says why (`KnowsAtRelease`), and after the
  release no pod is left that could make one unless the history says so
  (`KnowsAfterwards`); `Untouched` covers a worker node deleted before its first
  real round. `NeverDropped` (`[]Pursued`) is the safety half of `Deletes`: a
  deleted worker node is queued or in a round of finalize until it is released.
  A live worker node has no such theorem: one whose label could not be written
  sleeps until the resync, for nothing wakes it when its Node changes.
* `ScaleLoopProofs`: `StatefulInFront`, `StatefulStays`, `BoundsKept` from the
  invariant of `StaysShaped`: the indices are 0..n-1 and the stateful nodes are
  the first. `BoundsKept` (a step adds only below `Spec.Max` and deletes only
  above `Spec.Min`) is a theorem only; no run repeats it.
* `ScaleLoopProofs`, one size: `NeverFlaps` (`[]NoFlapping`),
  `DeletionLeavesRoom` (`DeleteKeepsRoom`) and `ChangesRunOut` are for nodes of
  one size, whichever it is; with mixed sizes TLC finds the first two violated.
  `NoFlapping` is not inductive; its strengthening `Directed` says what the
  fleet's last direction under the present load tells of the load: after an
  addition that the fleet without one node was full or too small, after a
  deletion that the fleet is less full than the threshold for shrinking. Integer
  quotients are compared through the products they stand for. `ChangesRunOut`
  gives the variant `Left`, a natural number that falls with every round that
  changes the fleet, which is the safety half of `Settles`.
* `DeviceServiceProofs`: `TypeCorrect`; `ToldOfIt` (`[]Told`), whose invariant
  says that what a round posts is still what is stored, because nobody else
  writes the table; `KeepsPorts` (`PortsKept`); and `LeadsToOwn`
  (`[]OwnTargets`), whose invariant extends the claim from Services to the
  informer's copy of the table they are made from: `Agrees` is stable under
  every step of the account. `ServicesTypeCorrect` has the same shape. Both
  leave out a Service that was written for no ports (`Temp`). `ImplementsPush`
  uses the invariant of `ToldOfIt`, and that what stays mounted was stored once.
* `TunnelProofs`: `TypeCorrect`; `NamesServerKey` (`[]OneServerKey`), whose
  invariant adds what a round of the account carries and what the cache shows;
  `SameKeys` (`[]EndsAgree`), from "every key found anywhere is the device's
  present key or one written over", which `GenuineLasts` shows to outlive every
  change of the secrets; `PushedToAll` (`[]Pushed`) and `ImplementsPush`, from
  "what a round posts is what is stored".
* `InfraProofs`: `TreeTypeCorrect`; `SecretOutlives` (`[]NoStranded`);
  `Composes` (`Spec => TreeSpec`): every step of the agent is a step of the
  tree's users or leaves the tree alone, so what is proved of the tree alone
  holds with an agent at work. The invariant of `SecretOutlives` (`TreeInv`)
  goes down the tree: a worker node that is not adrift has its pool, and that
  pool its finalizers (`WorkersHavePool`), which it keeps once the cache has
  shown them (`PoolThere`), a pool has its edge unless the release overlooked it
  (`PoolsHaveEdge`), the edge that has pools or that a round works on has its
  finalizers (`SeenGuarded`, `WorksOnGuarded`) and so its label, and is in the
  provider's listing (`GuardedListed`). Once the provider's round has found the
  listing empty, the only worker nodes with machines are late, adrift or in
  missed pools (`NoneLeft`), and it stays so while the secret is deleted,
  whatever create pods still buy.
* `InfraProofs`, the last word: `LastWordHolds` (`[]LastWord`) is the safety
  half of `Delivered`: once the partition was read, an edge has the spec of the
  last message about it, and is not there if that message deletes it, unless
  more went wrong than a message has tries. The invariant (`LastWordKept`)
  extends it to every moment by what a message has achieved in the agent's
  present pass (`TookEffect`): it lies behind, or it was tried more often than
  anything has gone wrong; and nobody but the agent makes an edge or writes its
  spec (`OthersLeaveSpec`).
* `DnsProofs`: `TypeCorrect`; `ChecksHold` (`[]Confirmed`) and `LeavesNoRecord`
  (`[]NoGhost`). The invariant follows one round at a time (`Good`): a copy that
  is not old is the object, at "confirm" the record has the addresses of the
  round, at "release" it has none, or the owner is doubted.
* `DecisionProofs`: theorems on the operators of `Rcalculate` and `NodeIndex`
  (`AddDecision`, `DeleteDecision`, `FreeIndexFresh`, `FreeIndexLowest`,
  `LastIndexIsLargest`, `DeletionNeedsRoom`). A fleet's memory is a fold over a
  set; what it is for one node less (`MemoryRemove`) and for nodes of one size
  (`MemoryOfEqual`) is proved by taking a counterexample with as few nodes as
  possible, without an induction theorem.

Every invariant and action property that a passing run checks is a theorem. Only
model-checked: what needs fairness (`Settles`, `ReachesMin`, `PoolsGo`,
`Attaches`, `Deletes`, `Stored`, `Routed`, `Connects`, `Follows`,
`RegionFollows`, `TreeGoes`, `Delivered`, `AgentGoesOn`), since liveness under
fairness is out of the prover's reach, and beyond the theorems' hypotheses
`FloorKept` in the second edge of `node_pool_fair`, whose users delete.

## What is not modelled

* Content of pods' resource requests, templates, labels other than the two that
  decide something, log and status messages.
* That a stateful node is never deleted by `NodePool`: it can be. A listing that
  does not show the tag yet may pick it. It also happens with up-to-date
  listings: node 1 of the nodes 0 and 1 is deleted, the load rises while it
  terminates, node 2 is made, and the pool tags node 1, which goes, and node 2;
  later node 1 is made again, the load falls, and the node with the largest
  index is the stateful one. `StatefulKept` is a property of the loop whose
  decisions take effect at once.
* `FloorKept` speaks of what the pool deletes. Users may delete below the
  minimum, and then terminating nodes, which still count, keep the pool from
  noticing until they are gone; users delete worker nodes only in the edge of
  `node_pool_fair` whose pools have one size, and in `node_pool_safety`.
* Partial terraform runs, a state file that is lost, an agent that registers its
  Node again later than its installation.
* Events of the delete Job: they only wake a worker node that finalize requeues
  anyway.
* Deployments and node ports of active regions (`updateDeployments`). At this
  commit the template `wg-deployment.tmpl.yml` uses `$IsMaster` (line 41) and
  declares `$isMaster` (line 3), so rendering it always fails: no server is ever
  deployed, and the account's round ends there for as long as an active region
  has no deployment, which also keeps coredns (`reconCoredns`) from being
  reached. The round's order is namespace, lists, server key, server config,
  proxy config, deployments, coredns. A model of the rest would be one of code
  that does not run. `Tunnel` and `DeviceProxy` speak of servers and proxies
  that exist from an earlier deployment.
* The DNS rewrite rules of a device (`reconDnsRewriteRules`, which needs that
  coredns), and addresses of devices (`getRemoteDeviceIp`, a pure function).
* An edit of an edge's `Spec.AccountName` or `Spec.ProviderName`; pods and Nodes
  that lead to an edge's status only; the Kafka and fx wiring of the agent, and
  its consumer group's rebalancing beyond `Rejoin`.
* How many worker nodes a pool of `InfraTree` has: it has one at a time, and
  none as long as the machine of a former one is there. Several of them,
  downscaling, Jobs that are retried and the agent on the machine are in
  `NodePool` and `WorkerNode`.
* The components that `PROJECT.json` lists as not modelled.

## Plan

1. (done) `Rcalculate`, `NodeIndex`, `ScaleLoop`, `NodePool`, `WorkerNode`, with
   the proofs above.
2. (done) `DeviceProxy`, `DeviceService` and `Tunnel`, the namespace that
   Account and Device controllers share, and `Dns`, with the proofs above.
3. (done) `InfraTree`, `Agent`, `Infra`: the deletion cascade, the secret that
   outlives what needs it, pools that follow the spec, apply, retry and commit.
   `ConfigPush` and its two refinements.
4. (done) Theorems for `FloorKept`, `NoFlapping` and `DeleteKeepsRoom`, and the
   safety halves of `Settles`, `Deletes`, `Delivered` and of the wake-ups.
   `NodePool` does not implement `ScaleLoop`, not even with `MaxLag = 0`:
   terminating nodes count, leave holes when they go, and let stateful nodes be
   deleted. The abstract specification worth stating is a weaker one, of a fleet
   whose deleted nodes go later.
5. `Request`: the toolkit's wake-ups as a module of its own, which the others
   use.
6. coredns and the DNS rewrite rules, once the deployments they need exist.
