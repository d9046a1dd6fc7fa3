------------------------------- MODULE InfraTree -------------------------------
(***************************************************************************)
(* A cloud provider, its edges, their node pools and the worker nodes of   *)
(* those (controllers/infra/cloudprovider_controller.go,                   *)
(* edge_controller.go): how an edge comes to own its pools, and how the    *)
(* tree is taken down.                                                     *)
(*                                                                         *)
(* The two controllers of this module read one informer cache per kind,    *)
(* with optimistic locking on every update; so do the node-pool and the    *)
(* worker-node controller, which are here as far as the tree sees them: a  *)
(* pool has one worker node at a time, and each of its reconciles is a     *)
(* step (modules NodePool and WorkerNode have the fleet and the steps).    *)
(* Kubernetes' garbage collector works on the same objects.                *)
(* An object may be reconciled at any time: after an event, after its      *)
(* RequeueAfter, at the latest at the resync of the informers.             *)
(***************************************************************************)
EXTENDS Naturals

CONSTANTS Edge, PoolName,
          Config,       \* what an edge's spec says of a pool: Min, Max, Config
          Specs,        \* the Spec.Pools an edge can have
          Staffed,      \* a bound: the names of the pools that get worker nodes
          Absent

Pool == Edge \X PoolName

\* birth: which of two successive incarnations this is.
ProviderObject == [birth : BOOLEAN, guarded : BOOLEAN,
                   deleting : BOOLEAN, foreground : BOOLEAN]
\* owned: the ownerReference to the provider is set.
EdgeObject == [stage : {"new", "labelled", "guarded"}, owned : BOOLEAN,
               deleting : BOOLEAN, foreground : BOOLEAN, spec : Specs]
\* foreground: not yet with the finalizers, and no longer when it is deleted.
PoolObject == [config : Config, deleting : BOOLEAN, foreground : BOOLEAN]

ASSUME InfraTreeAssumption ==
  /\ Specs \subseteq UNION {[names -> Config] : names \in SUBSET PoolName}
  /\ Absent \notin ProviderObject \cup EdgeObject \cup PoolObject

VARIABLES
  provider,  \* the CloudProvider, or Absent
  edge,      \* edge -> the Edge, or Absent
  pool,      \* pool -> the NodePool, or Absent
  dangling,  \* the edges and pools whose owner is gone
  worker,    \* pool -> its worker node: "none", "live" or "deleting"
  machine,   \* pool -> that worker node's machine: "none", "buying" (a create
             \* pod is in flight), "up", "kept" (its delete Job was in vain)
  adrift,    \* the worker nodes whose pool is gone
  secret,    \* the provider's secret in kl-core is there
  region,    \* the edges that have a Region (module Dns)
  seenProvider, seenEdge, seenPool, seenWorker, seenSecret,  \* the informers'
             \* copies
  rcEdge,    \* the reconcile of an edge in progress
  rcProvider,\* the reconcile of the provider in progress
  missed,    \* history: pools that the release of their edge overlooked
  late       \* history: create Jobs applied after the edges had been listed

objects  == <<provider, edge, pool, dangling>>
workers  == <<worker, machine, adrift>>
cloud    == <<workers, secret, region>>
caches   == <<seenProvider, seenEdge, seenPool, seenWorker, seenSecret>>
rounds   == <<rcEdge, rcProvider>>
history  == <<missed, late>>
tree     == <<objects, cloud, caches, rounds, history>>

Idle == [step |-> "idle"]

\* Nothing is there, or a provider that its reconcile has gone through.
TreeInit ==
  /\ \/ provider = Absent
     \/ provider = [birth |-> FALSE, guarded |-> TRUE,
                    deleting |-> FALSE, foreground |-> TRUE]
  /\ edge = [e \in Edge |-> Absent] /\ pool = [k \in Pool |-> Absent]
  /\ dangling = {} /\ adrift = {} /\ region = {} /\ secret = TRUE
  /\ worker = [k \in Pool |-> "none"] /\ machine = [k \in Pool |-> "none"]
  /\ seenProvider = provider /\ seenEdge = edge /\ seenPool = pool
  /\ seenWorker = worker /\ seenSecret = secret
  /\ rcEdge = Idle /\ rcProvider = Idle
  /\ missed = {} /\ late = {}

PoolsOf(e) == {k \in Pool : k[1] = e}

Existing(pools) == {k \in Pool : pools[k] # Absent}

\* The cached provider is not, or no longer, the one that is stored.
Outdated ==
  \/ provider = Absent
  \/ provider # Absent /\ seenProvider.birth # provider.birth

-------------------------------------------------------------------------------
(***************************************************************************)
(* EdgeReconciler.Reconcile.  Each update ends the round; it is refused    *)
(* when the cached copy is not the stored edge, and then nothing happens.  *)
(***************************************************************************)
Update(e, new) ==
  /\ edge[e] = seenEdge[e]
  /\ edge' = [edge EXCEPT ![e] = new]
  /\ UNCHANGED <<provider, pool, cloud, caches, rounds, history>>

\* An edge that the cache shows live, at the given stage, and nobody at work.
Takes(e, stage) ==
  /\ rcEdge = Idle
  /\ seenEdge[e] # Absent /\ ~seenEdge[e].deleting
  /\ seenEdge[e].stage = stage

\* EnsureLabelsAndAnnotations: only now can the provider list the edge.
EnsureLabels(e) ==
  /\ Takes(e, "new")
  /\ Update(e, [seenEdge[e] EXCEPT !.stage = "labelled"])
  /\ UNCHANGED dangling

EnsureFinalizers(e) ==
  /\ Takes(e, "labelled")
  /\ Update(e, [seenEdge[e] EXCEPT !.stage = "guarded", !.foreground = TRUE])
  /\ UNCHANGED dangling

\* PatchDefaults: nothing happens as long as the cache shows no provider.
\* The reference names the cached provider, which may be gone.
PatchDefaults(e) ==
  /\ Takes(e, "guarded") /\ ~seenEdge[e].owned
  /\ seenProvider # Absent
  /\ Update(e, [seenEdge[e] EXCEPT !.owned = TRUE])
  /\ dangling' = IF Outdated THEN dangling \cup {e} ELSE dangling

\* The edge's owner is the cached provider.  (A second controller reference
\* is refused: an edge whose provider is gone is never adopted again.)
IsOwned(e) ==
  /\ seenEdge[e].owned
  /\ seenProvider # Absent
  /\ e \in dangling => Outdated

BeginEdge(e) ==
  /\ Takes(e, "guarded") /\ IsOwned(e)
  /\ rcEdge' = [step |-> "region", edge |-> e, spec |-> seenEdge[e].spec]
  /\ UNCHANGED <<objects, cloud, caches, rcProvider, history>>

\* reconRegion: the Region of the edge's name is applied, and never deleted.
ReconRegion ==
  /\ rcEdge.step = "region"
  /\ region' = region \cup {rcEdge.edge}
  /\ rcEdge' = [rcEdge EXCEPT !.step = "pools"]
  /\ UNCHANGED <<objects, workers, secret, caches, rcProvider, history>>

\* Mutant: the numbers of pools are compared and nothing else.
CountsAgree(e, spec) ==
  \E f \in [DOMAIN spec -> Existing(seenPool) \cap PoolsOf(e)] :
    {f[p] : p \in DOMAIN spec} = Existing(seenPool) \cap PoolsOf(e)

\* The listed pools are the ones of the spec, with the same configuration.
\* A pool that has been taken out of the spec is listed for ever.
Matches(e, spec) ==
  /\ Existing(seenPool) \cap PoolsOf(e) = {e} \X DOMAIN spec
  /\ \A p \in DOMAIN spec : seenPool[<<e, p>>].config = spec[p]

EndEdge == rcEdge' = Idle /\ UNCHANGED <<cloud, caches, rcProvider, history>>

PoolsMatch ==
  /\ rcEdge.step = "pools" /\ Matches(rcEdge.edge, rcEdge.spec)
  /\ EndEdge
  /\ UNCHANGED objects

\* The pools of these names are applied as the round's spec has them; a new
\* one has no finalizers yet.
Applies(names) ==
  LET applied == {rcEdge.edge} \X names IN
  /\ pool' = [k \in Pool |->
       IF k \notin applied THEN pool[k]
       ELSE IF pool[k] # Absent THEN [pool[k] EXCEPT !.config = rcEdge.spec[k[2]]]
       ELSE [config |-> rcEdge.spec[k[2]], deleting |-> FALSE, foreground |-> FALSE]]
  /\ dangling' = dangling \ applied
  /\ UNCHANGED <<provider, edge>>

\* UpdatePool: every pool of the spec is applied, none is deleted.
UpdatePools ==
  /\ rcEdge.step = "pools" /\ ~Matches(rcEdge.edge, rcEdge.spec)
  /\ Applies(DOMAIN rcEdge.spec)
  /\ EndEdge

\* The API server refuses a list, or kubectl apply fails, perhaps half-way.
UpdateFails ==
  /\ rcEdge # Idle
  /\ \/ UNCHANGED objects
     \/ /\ rcEdge.step = "pools" /\ ~Matches(rcEdge.edge, rcEdge.spec)
        /\ \E names \in SUBSET DOMAIN rcEdge.spec : Applies(names)
  /\ EndEdge

\* The edge is gone, and its pools without an owner.
Forget(e) ==
  /\ edge' = [edge EXCEPT ![e] = Absent]
  /\ dangling' = (dangling \ {e}) \cup (Existing(pool) \cap PoolsOf(e))

\* The pools of e that the watch has not shown yet.
Unseen(e) == {k \in Existing(pool) \cap PoolsOf(e) : seenPool[k] = Absent}

\* The edge is released: both finalizers are taken off.
Release(e) ==
  /\ edge[e] = seenEdge[e]
  /\ Forget(e)
  /\ missed' = missed \cup Unseen(e)
  /\ UNCHANGED <<provider, pool, cloud, caches, rounds, late>>

\* Mutant: the wait is forgotten.
FinalizeEdgeAtOnce(e) ==
  /\ rcEdge = Idle
  /\ seenEdge[e] # Absent /\ seenEdge[e].deleting
  /\ Release(e)

\* finalize: the edge waits until the cache shows no pool of it.
FinalizeEdge(e) ==
  /\ rcEdge = Idle
  /\ seenEdge[e] # Absent /\ seenEdge[e].deleting
  /\ Existing(seenPool) \cap PoolsOf(e) = {}
  /\ Release(e)

-------------------------------------------------------------------------------
(***************************************************************************)
(* CloudProviderReconciler.Reconcile.                                      *)
(***************************************************************************)
GuardProvider ==
  /\ rcProvider = Idle
  /\ seenProvider # Absent /\ ~seenProvider.deleting /\ ~seenProvider.guarded
  /\ provider = seenProvider
  /\ provider' = [provider EXCEPT !.guarded = TRUE, !.foreground = TRUE]
  /\ UNCHANGED <<edge, pool, dangling, cloud, caches, rounds, history>>

\* The listing is by a label that the edges give themselves.
ListedEdges == {e \in Edge : seenEdge[e] # Absent /\ seenEdge[e].stage # "new"}

\* finalize: the provider waits until the cache shows no edge of it.
ListEdges ==
  /\ rcProvider = Idle
  /\ seenProvider # Absent /\ seenProvider.deleting
  /\ ListedEdges = {}
  /\ rcProvider' = [step |-> "secret", copy |-> seenProvider]
  /\ UNCHANGED <<objects, cloud, caches, rcEdge, history>>

\* Mutant: a round that finds no secret fails.
DeleteSecretOrFail ==
  /\ rcProvider.step = "secret"
  /\ rcProvider' = IF secret THEN [rcProvider EXCEPT !.step = "release"] ELSE Idle
  /\ secret' = FALSE
  /\ UNCHANGED <<objects, workers, region, caches, rcEdge, history>>

\* Get finds the secret in the cache; when it is gone Delete fails and with
\* it the round.
DeleteSecret ==
  /\ rcProvider.step = "secret"
  /\ IF seenSecret /\ ~secret THEN rcProvider' = Idle
     ELSE rcProvider' = [rcProvider EXCEPT !.step = "release"]
  /\ secret' = FALSE
  /\ UNCHANGED <<objects, workers, region, caches, rcEdge, history>>

OwnedEdges == {e \in Edge : edge[e] # Absent /\ edge[e].owned}

ReleaseProvider ==
  /\ rcProvider.step = "release"
  /\ rcProvider' = Idle
  /\ IF provider = rcProvider.copy
     THEN provider' = Absent /\ dangling' = dangling \cup OwnedEdges
     ELSE UNCHANGED <<provider, dangling>>
  /\ UNCHANGED <<edge, pool, cloud, caches, rcEdge, history>>

-------------------------------------------------------------------------------
(***************************************************************************)
(* NodePoolReconciler and WorkerNodeReconciler, as the tree sees them.     *)
(***************************************************************************)
\* EnsureFinalizers of a pool.
GuardPool(k) ==
  /\ pool[k] # Absent /\ pool[k] = seenPool[k]
  /\ ~pool[k].deleting /\ ~pool[k].foreground
  /\ pool' = [pool EXCEPT ![k].foreground = TRUE]
  /\ UNCHANGED <<provider, edge, dangling, cloud, caches, rounds, history>>

\* reconWorkerNodes: the cached pool is live, whatever the stored one is by
\* now.  Bounds: the pools of some names only, one worker node at a time, and
\* none as long as a machine that a former one left behind is there.
AddWorker(k) ==
  /\ k[2] \in Staffed
  /\ seenPool[k] # Absent /\ ~seenPool[k].deleting /\ seenPool[k].foreground
  /\ worker[k] = "none" /\ machine[k] = "none"
  /\ worker' = [worker EXCEPT ![k] = "live"]
  /\ UNCHANGED <<objects, machine, adrift, secret, region, caches, rounds, history>>

\* createNode: the Job, with the cached secret's contents, is applied for a
\* worker node that the cache shows live.
StartPod(k) ==
  /\ worker[k] # "none" /\ seenWorker[k] = "live"
  /\ machine[k] = "none" /\ seenSecret
  /\ machine' = [machine EXCEPT ![k] = "buying"]
  /\ late' = IF rcProvider # Idle \/ ~secret THEN late \cup {k} ELSE late
  /\ UNCHANGED <<objects, worker, adrift, secret, region, caches, rounds, missed>>

\* The pod needs nothing of the cluster any more, not even its worker node.
PodBuys(k) ==
  /\ machine[k] = "buying"
  /\ machine' = [machine EXCEPT ![k] = "up"]
  /\ UNCHANGED <<objects, worker, adrift, secret, region, caches, rounds, history>>

\* A worker node whose deletion the cache shows.
Leaving(k) == worker[k] = "deleting" /\ seenWorker[k] = "deleting"

\* deleteNode: the Job, made from the cached secret, comes to its end.
DeleteNode(k, left) ==
  /\ Leaving(k) /\ machine[k] = "up" /\ seenSecret
  /\ machine' = [machine EXCEPT ![k] = left]
  /\ UNCHANGED <<objects, worker, adrift, secret, region, caches, rounds, missed>>

ReturnMachine(k) == DeleteNode(k, "none") /\ late' = late \ {k}

\* The Job fails, or another create pod buys after it; it is not run again.
ReturnFails(k) == DeleteNode(k, "kept") /\ UNCHANGED late

\* Both finalizers are taken off the worker node.
WorkerGone(k) ==
  /\ Leaving(k)
  /\ worker' = [worker EXCEPT ![k] = "none"]
  /\ adrift' = adrift \ {k} /\ late' = late \ {k}
  /\ UNCHANGED <<objects, machine, secret, region, caches, rounds, missed>>

\* finalize: terraform has no outputs (but a create pod may be in flight).
ReleaseWorker(k) == machine[k] \in {"none", "buying"} /\ WorkerGone(k)

\* terraform does not show the outputs there are (module WorkerNode, NoLeak).
OutputsFlake(k) == machine[k] \in {"up", "kept"} /\ WorkerGone(k)

\* finalize of a pool: the cache shows no worker node of its edge.  One that
\* is there all the same is left to the garbage collector.
PoolGone(k) ==
  /\ pool[k] # Absent /\ pool[k].deleting /\ pool[k] = seenPool[k]
  /\ \A l \in PoolsOf(k[1]) : seenWorker[l] = "none"
  /\ pool' = [pool EXCEPT ![k] = Absent]
  /\ adrift' = IF worker[k] = "none" THEN adrift ELSE adrift \cup {k}
  /\ dangling' = dangling \ {k} /\ missed' = missed \ {k}
  /\ UNCHANGED <<provider, edge, worker, machine, secret, region, caches, rounds, late>>

-------------------------------------------------------------------------------
(***************************************************************************)
(* The garbage collector: dependents of what is gone, or is being deleted  *)
(* in the foreground, are deleted, and the foreground finalizer is taken   *)
(* off when none is left.                                                  *)
(***************************************************************************)
CollectEdge(e) ==
  /\ edge[e] # Absent /\ ~edge[e].deleting /\ edge[e].owned
  /\ \/ e \in dangling
     \/ provider # Absent /\ provider.deleting /\ provider.foreground
  /\ edge' = [edge EXCEPT ![e].deleting = TRUE]
  /\ UNCHANGED <<provider, pool, dangling, cloud, caches, rounds, history>>

\* A pool without its finalizers goes at once.
CollectPool(k) ==
  /\ pool[k] # Absent /\ ~pool[k].deleting
  /\ \/ k \in dangling
     \/ /\ edge[k[1]] # Absent
        /\ edge[k[1]].deleting /\ edge[k[1]].foreground
  /\ IF pool[k].foreground
     THEN /\ pool' = [pool EXCEPT ![k].deleting = TRUE]
          /\ UNCHANGED <<dangling, missed>>
     ELSE /\ pool' = [pool EXCEPT ![k] = Absent]
          /\ dangling' = dangling \ {k} /\ missed' = missed \ {k}
  /\ UNCHANGED <<provider, edge, cloud, caches, rounds, late>>

\* The pool's own worker node, and not one of an earlier pool of its name.
HasWorker(k) == worker[k] # "none" /\ k \notin adrift

CollectWorker(k) ==
  /\ worker[k] = "live"
  /\ \/ k \in adrift
     \/ pool[k] # Absent /\ pool[k].deleting /\ pool[k].foreground
  /\ worker' = [worker EXCEPT ![k] = "deleting"]
  /\ UNCHANGED <<objects, machine, adrift, secret, region, caches, rounds, history>>

CollectorReleasesProvider ==
  /\ provider # Absent /\ provider.deleting /\ provider.foreground
  /\ OwnedEdges \subseteq dangling
  /\ provider' = [provider EXCEPT !.foreground = FALSE]
  /\ UNCHANGED <<edge, pool, dangling, cloud, caches, rounds, history>>

CollectorReleasesEdge(e) ==
  /\ edge[e] # Absent /\ edge[e].deleting /\ edge[e].foreground
  /\ Existing(pool) \cap PoolsOf(e) \subseteq dangling
  /\ edge' = [edge EXCEPT ![e].foreground = FALSE]
  /\ UNCHANGED <<provider, pool, dangling, cloud, caches, rounds, history>>

CollectorReleasesPool(k) ==
  /\ pool[k] # Absent /\ pool[k].deleting /\ pool[k].foreground
  /\ ~HasWorker(k)
  /\ pool' = [pool EXCEPT ![k].foreground = FALSE]
  /\ UNCHANGED <<provider, edge, dangling, cloud, caches, rounds, history>>

\* The watches.
Watch(news) == news /\ UNCHANGED <<objects, cloud, rounds, history>>

DeliverProvider ==
  Watch(/\ seenProvider' = provider
        /\ UNCHANGED <<seenEdge, seenPool, seenWorker, seenSecret>>)
DeliverEdges ==
  Watch(/\ seenEdge' = edge
        /\ UNCHANGED <<seenProvider, seenPool, seenWorker, seenSecret>>)
DeliverPools ==
  Watch(/\ seenPool' = pool
        /\ UNCHANGED <<seenProvider, seenEdge, seenWorker, seenSecret>>)
DeliverWorkers ==
  Watch(/\ seenWorker' = worker
        /\ UNCHANGED <<seenProvider, seenEdge, seenPool, seenSecret>>)
DeliverSecret ==
  Watch(/\ seenSecret' = secret
        /\ UNCHANGED <<seenProvider, seenEdge, seenPool, seenWorker>>)

\* The manager is restarted: its rounds are lost, its caches are filled anew.
Crash ==
  /\ seenProvider' = provider /\ seenEdge' = edge
  /\ seenPool' = pool /\ seenWorker' = worker /\ seenSecret' = secret
  /\ rcEdge' = Idle /\ rcProvider' = Idle
  /\ UNCHANGED <<objects, cloud, history>>

-------------------------------------------------------------------------------
(***************************************************************************)
(* What users do: kubectl apply and delete.                                *)
(***************************************************************************)
Users(change) ==
  /\ change
  /\ UNCHANGED <<pool, cloud, caches, rounds, history>>

CachedBirth == IF seenProvider = Absent THEN FALSE ELSE seenProvider.birth

ApplyProvider ==
  Users(/\ IF provider # Absent THEN UNCHANGED provider
           ELSE provider' = [birth |-> ~CachedBirth, guarded |-> FALSE,
                             deleting |-> FALSE, foreground |-> FALSE]
        /\ UNCHANGED <<edge, dangling>>)

ApplyEdge(e, spec) ==
  Users(/\ edge' = [edge EXCEPT ![e] =
                     IF edge[e] # Absent THEN [edge[e] EXCEPT !.spec = spec]
                     ELSE [stage |-> "new", owned |-> FALSE, deleting |-> FALSE,
                           foreground |-> FALSE, spec |-> spec]]
        /\ UNCHANGED <<provider, dangling>>)

\* Without finalizers an object goes at once.  kubectl delete asks for the
\* background, and the API server takes the foreground finalizer off.
DeleteProvider(foreground) ==
  Users(/\ provider # Absent
        /\ IF provider.guarded
           THEN /\ provider' = [provider EXCEPT !.deleting = TRUE,
                                  !.foreground = @ /\ foreground]
                /\ UNCHANGED dangling
           ELSE provider' = Absent /\ dangling' = dangling \cup OwnedEdges
        /\ UNCHANGED edge)

DeleteEdge(e, foreground) ==
  Users(/\ edge[e] # Absent
        /\ IF edge[e].stage = "guarded"
           THEN /\ edge' = [edge EXCEPT ![e].deleting = TRUE,
                              ![e].foreground = @ /\ foreground]
                /\ UNCHANGED dangling
           ELSE Forget(e)
        /\ UNCHANGED provider)

-------------------------------------------------------------------------------
\* An edge's reconcile begins with its cached copy; the rest of the round.
ReconcileEdge(e) ==
  \/ EnsureLabels(e) \/ EnsureFinalizers(e) \/ PatchDefaults(e)
  \/ BeginEdge(e) \/ FinalizeEdge(e)
EdgeRound == ReconRegion \/ PoolsMatch \/ UpdatePools

ProviderRound == GuardProvider \/ ListEdges \/ DeleteSecret \/ ReleaseProvider

Edges(e) == ReconcileEdge(e) \/ CollectEdge(e) \/ CollectorReleasesEdge(e)

Grows(k) == GuardPool(k) \/ AddWorker(k) \/ StartPod(k) \/ PodBuys(k)

Shrinks(k) ==
  \/ CollectPool(k) \/ CollectorReleasesPool(k) \/ PoolGone(k)
  \/ CollectWorker(k) \/ ReturnMachine(k) \/ ReleaseWorker(k)

\* What may go wrong with a machine.
Falters(k) == ReturnFails(k) \/ OutputsFlake(k)

Watches ==
  \/ DeliverProvider \/ DeliverEdges \/ DeliverPools \/ DeliverWorkers
  \/ DeliverSecret

Controllers ==
  \/ \E e \in Edge : Edges(e)
  \/ \E k \in Pool : Grows(k) \/ Shrinks(k) \/ Falters(k)
  \/ EdgeRound \/ ProviderRound \/ CollectorReleasesProvider \/ Watches

Mishaps == UpdateFails \/ Crash

Commands ==
  \/ ApplyProvider
  \/ \E e \in Edge, s \in Specs : ApplyEdge(e, s)
  \/ \E foreground \in BOOLEAN :
       DeleteProvider(foreground) \/ \E e \in Edge : DeleteEdge(e, foreground)

TreeNext == Controllers \/ Mishaps \/ Commands

TreeSpec == TreeInit /\ [][TreeNext]_tree

-------------------------------------------------------------------------------
Maybe(kind) == kind \cup {Absent}

TreeTypeOK ==
  /\ {provider, seenProvider} \subseteq Maybe(ProviderObject)
  /\ {edge, seenEdge} \subseteq [Edge -> Maybe(EdgeObject)]
  /\ {pool, seenPool} \subseteq [Pool -> Maybe(PoolObject)]
  /\ dangling \subseteq Edge \cup Pool
  /\ {worker, seenWorker} \subseteq [Pool -> {"none", "live", "deleting"}]
  /\ machine \in [Pool -> {"none", "buying", "up", "kept"}]
  /\ adrift \subseteq Pool /\ region \subseteq Edge
  /\ secret \in BOOLEAN /\ seenSecret \in BOOLEAN
  /\ rcEdge \in {Idle} \cup [step : {"region", "pools"}, edge : Edge, spec : Specs]
  /\ rcProvider \in {Idle} \cup [step : {"secret", "release"}, copy : ProviderObject]
  /\ missed \subseteq Pool /\ late \subseteq Pool

\* The provider's secret, without which no machine can be returned, is not
\* deleted as long as there is a worker node with a machine (finalize, 83-137),
\* but for one that the listings could not show: its create Job was applied
\* after the edges had been listed; its pool had not been shown when the edge
\* was released, or it had not been shown itself when its pool was.
NoStranded ==
  ~secret => \A k \in Pool : worker[k] # "none" /\ machine[k] \in {"up", "kept"}
                              => k \in late \cup missed \cup adrift
===============================================================================
