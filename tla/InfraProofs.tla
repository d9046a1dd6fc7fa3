------------------------------- MODULE InfraProofs -----------------------------
(***************************************************************************)
(* Theorems about the tree of providers, edges and pools, for any number   *)
(* of them, and about the agent that edits it: the agent's steps are steps *)
(* of users, so what holds for the tree holds for both, and the last       *)
(* message about an edge has the last word.                                *)
(***************************************************************************)
EXTENDS Infra, TLAPS

-------------------------------------------------------------------------------
(***************************************************************************)
(* Types.                                                                  *)
(***************************************************************************)
LEMMA TreeTypedInit == TreeInit => TreeTypeOK
<1> SUFFICES ASSUME TreeInit PROVE TreeTypeOK
  OBVIOUS
<1>1. [birth |-> FALSE, guarded |-> TRUE, deleting |-> FALSE, foreground |-> TRUE]
        \in ProviderObject
  BY DEF ProviderObject
<1>2. {provider, seenProvider} \subseteq Maybe(ProviderObject)
  BY <1>1 DEF TreeInit, Maybe
<1>3. secret \in BOOLEAN /\ seenSecret \in BOOLEAN
  BY DEF TreeInit
<1>4. /\ {edge, seenEdge} \subseteq [Edge -> Maybe(EdgeObject)]
      /\ {pool, seenPool} \subseteq [Pool -> Maybe(PoolObject)]
      /\ {worker, seenWorker} \subseteq [Pool -> {"none", "live", "deleting"}]
      /\ machine \in [Pool -> {"none", "buying", "up", "kept"}]
  BY DEF TreeInit, Maybe
<1> QED
  BY <1>2, <1>3, <1>4 DEF TreeInit, TreeTypeOK

\* The reconcile of an edge.
LEMMA ReconcileTyped ==
  ASSUME TreeTypeOK, NEW e \in Edge, ReconcileEdge(e)
  PROVE  TreeTypeOK'
<1> USE DEF TreeTypeOK, Maybe, Takes, cloud, workers, caches, rounds, history, objects
<1>1. seenEdge[e] # Absent => seenEdge[e] \in EdgeObject
  OBVIOUS
<1>a. ASSUME NEW o \in EdgeObject
      PROVE  /\ [o EXCEPT !.stage = "labelled"] \in EdgeObject
             /\ [o EXCEPT !.stage = "guarded", !.foreground = TRUE] \in EdgeObject
             /\ [o EXCEPT !.owned = TRUE] \in EdgeObject
  BY <1>a DEF EdgeObject
<1>b. ASSUME NEW new \in EdgeObject, Update(e, new),
             dangling' \in {dangling, dangling \cup {e}}
      PROVE  TreeTypeOK'
  BY <1>b DEF Update
<1>2. CASE EnsureLabels(e)
  BY <1>1, <1>2, <1>a, <1>b DEF EnsureLabels
<1>3. CASE EnsureFinalizers(e)
  BY <1>1, <1>3, <1>a, <1>b DEF EnsureFinalizers
<1>4. CASE PatchDefaults(e)
  BY <1>1, <1>4, <1>a, <1>b DEF PatchDefaults
<1>5. CASE BeginEdge(e)
  BY <1>1, <1>5 DEF BeginEdge, EdgeObject
<1>6. CASE FinalizeEdge(e)
  BY <1>6 DEF FinalizeEdge, Release, Forget, Unseen, Existing, PoolsOf
<1> QED
  BY <1>2, <1>3, <1>4, <1>5, <1>6 DEF ReconcileEdge

\* Pools that are applied.
LEMMA AppliesTyped ==
  ASSUME TreeTypeOK, rcEdge # Idle,
         NEW names \in SUBSET DOMAIN rcEdge.spec, Applies(names)
  PROVE  /\ pool' \in [Pool -> Maybe(PoolObject)]
         /\ dangling' \subseteq Edge \cup Pool
         /\ \A k \in Pool :
              /\ k \notin {rcEdge.edge} \X names => pool'[k] = pool[k]
              /\ pool[k] # Absent => /\ pool'[k] # Absent
                                     /\ pool'[k].deleting = pool[k].deleting
                                     /\ pool'[k].foreground = pool[k].foreground
<1> DEFINE applied == {rcEdge.edge} \X names
           Marked(k) == [pool[k] EXCEPT !.config = rcEdge.spec[k[2]]]
           Fresh(k) == [config |-> rcEdge.spec[k[2]], deleting |-> FALSE, foreground |-> FALSE]
<1>1. rcEdge.edge \in Edge /\ rcEdge.spec \in Specs
  BY DEF TreeTypeOK
<1>2. /\ rcEdge.spec \in [DOMAIN rcEdge.spec -> Config]
      /\ DOMAIN rcEdge.spec \subseteq PoolName
  BY <1>1, InfraTreeAssumption
<1>3. \A k \in applied : k \in Pool /\ rcEdge.spec[k[2]] \in Config
  BY <1>1, <1>2 DEF Pool
<1>4. \A k \in applied : Fresh(k) \in PoolObject
  BY <1>3 DEF PoolObject
<1>5. ASSUME NEW k \in applied, pool[k] # Absent
      PROVE  /\ Marked(k) \in PoolObject
             /\ Marked(k).deleting = pool[k].deleting
             /\ Marked(k).foreground = pool[k].foreground
  <2>1. pool[k] \in PoolObject
    BY <1>3, <1>5 DEF TreeTypeOK, Maybe
  <2> QED
    BY <1>3, <2>1 DEF PoolObject
<1>6. pool' = [k \in Pool |-> IF k \notin applied THEN pool[k]
                              ELSE IF pool[k] # Absent THEN Marked(k) ELSE Fresh(k)]
  BY Zenon DEF Applies
<1> HIDE DEF Marked, Fresh
<1>7. \A k \in Pool : pool'[k] = IF k \notin applied THEN pool[k]
                                 ELSE IF pool[k] # Absent THEN Marked(k) ELSE Fresh(k)
  BY <1>6
<1>8. pool' \in [Pool -> Maybe(PoolObject)]
  BY <1>4, <1>5, <1>6 DEF TreeTypeOK, Maybe
<1>9. dangling' \subseteq Edge \cup Pool
  BY DEF Applies, TreeTypeOK
<1> QED
  BY <1>5, <1>7, <1>8, <1>9, InfraTreeAssumption

\* The other steps of its round.
LEMMA RoundTyped == ASSUME TreeTypeOK, EdgeRound \/ UpdateFails PROVE TreeTypeOK'
<1>1. CASE ReconRegion
  BY <1>1 DEF ReconRegion, TreeTypeOK, Maybe, cloud, workers, caches, history,
     objects, Idle
<1>2. ASSUME EndEdge, pool' \in [Pool -> Maybe(PoolObject)],
             dangling' \subseteq Edge \cup Pool, UNCHANGED <<provider, edge>>
      PROVE  TreeTypeOK'
  BY <1>2 DEF EndEdge, TreeTypeOK, Maybe, cloud, workers, caches, rounds, history, objects
<1>3. ASSUME EndEdge, UNCHANGED objects PROVE TreeTypeOK'
  BY <1>2, <1>3 DEF objects, TreeTypeOK
<1>4. ASSUME EndEdge, rcEdge # Idle,
             NEW names \in SUBSET DOMAIN rcEdge.spec, Applies(names)
      PROVE  TreeTypeOK'
  BY <1>2, <1>4, AppliesTyped DEF Applies
<1>5. rcEdge.step = "pools" => rcEdge # Idle
  BY DEF Idle
<1>6. CASE UpdatePools
  BY <1>4, <1>5, <1>6 DEF UpdatePools
<1> QED
  BY <1>1, <1>3, <1>4, <1>6 DEF EdgeRound, PoolsMatch, UpdateFails

LEMMA ProviderTyped ==
  ASSUME TreeTypeOK, ProviderRound \/ CollectorReleasesProvider
  PROVE  TreeTypeOK'
<1> USE DEF TreeTypeOK, Maybe, cloud, workers, caches, rounds, history, objects, Idle
<1>1. CASE GuardProvider
  BY <1>1 DEF GuardProvider, ProviderObject
<1>2. CASE ListEdges
  BY <1>2 DEF ListEdges
<1>3. CASE DeleteSecret
  <2>1. secret' \in BOOLEAN
    BY <1>3 DEF DeleteSecret
  <2>2. rcProvider' = Idle \/ rcProvider' = [rcProvider EXCEPT !.step = "release"]
    BY <1>3, Zenon DEF DeleteSecret
  <2> QED
    BY <1>3, <2>1, <2>2 DEF DeleteSecret
<1>4. CASE ReleaseProvider
  BY <1>4 DEF ReleaseProvider, OwnedEdges
<1>5. CASE CollectorReleasesProvider
  BY <1>5 DEF CollectorReleasesProvider, ProviderObject
<1> QED
  BY <1>1, <1>2, <1>3, <1>4, <1>5 DEF ProviderRound

LEMMA DependentsTyped ==
  ASSUME TreeTypeOK, NEW e \in Edge, CollectEdge(e) \/ CollectorReleasesEdge(e)
  PROVE  TreeTypeOK'
<1> USE DEF TreeTypeOK, Maybe, cloud, workers, caches, rounds, history, objects
<1>1. edge[e] \in EdgeObject
  BY DEF CollectEdge, CollectorReleasesEdge
<1>2. /\ [edge[e] EXCEPT !.deleting = TRUE] \in EdgeObject
      /\ [edge[e] EXCEPT !.foreground = FALSE] \in EdgeObject
  BY <1>1 DEF EdgeObject
<1>3. \/ edge' = [edge EXCEPT ![e] = [edge[e] EXCEPT !.deleting = TRUE]]
      \/ edge' = [edge EXCEPT ![e] = [edge[e] EXCEPT !.foreground = FALSE]]
  BY DEF CollectEdge, CollectorReleasesEdge
<1>4. edge' \in [Edge -> Maybe(EdgeObject)]
  BY <1>2, <1>3
<1> QED
  BY <1>4 DEF CollectEdge, CollectorReleasesEdge

\* The steps of a pool that change its object: the copy that is marked is one.
PoolStep(k) ==
  GuardPool(k) \/ CollectPool(k) \/ CollectorReleasesPool(k) \/ PoolGone(k)

\* ... and the steps of its worker node.
WorkerStep(k) ==
  \/ AddWorker(k) \/ StartPod(k) \/ PodBuys(k)
  \/ CollectWorker(k) \/ ReturnMachine(k) \/ ReleaseWorker(k) \/ Falters(k)

LEMMA PoolMarked ==
  ASSUME TreeTypeOK, NEW k \in Pool, pool[k] # Absent
  PROVE  /\ pool[k] \in PoolObject
         /\ [pool[k] EXCEPT !.deleting = TRUE] \in PoolObject
         /\ \A f \in BOOLEAN : [pool[k] EXCEPT !.foreground = f] \in PoolObject
<1>1. pool[k] \in PoolObject
  BY DEF TreeTypeOK, Maybe
<1> QED
  BY <1>1 DEF PoolObject

\* What a step of a pool makes of it.
LEMMA PoolChanges ==
  ASSUME TreeTypeOK, NEW k \in Pool, PoolStep(k)
  PROVE  /\ pool' \in [Pool -> Maybe(PoolObject)]
         /\ \A l \in Pool \ {k} : pool'[l] = pool[l]
         /\ pool[k] # Absent
         /\ pool'[k] = Absent \/ (pool'[k] \in PoolObject /\ pool'[k] # Absent)
<1>1. pool[k] # Absent
  BY DEF PoolStep, GuardPool, CollectPool, CollectorReleasesPool, PoolGone
<1>2. \/ pool' = [pool EXCEPT ![k] = Absent]
      \/ pool' = [pool EXCEPT ![k] = [pool[k] EXCEPT !.deleting = TRUE]]
      \/ \E f \in BOOLEAN : pool' = [pool EXCEPT ![k] = [pool[k] EXCEPT !.foreground = f]]
  BY DEF PoolStep, GuardPool, CollectPool, CollectorReleasesPool, PoolGone
<1>3. pool \in [Pool -> Maybe(PoolObject)] /\ Absent \notin PoolObject
  BY InfraTreeAssumption DEF TreeTypeOK
<1>4. ASSUME NEW new \in Maybe(PoolObject), pool' = [pool EXCEPT ![k] = new]
      PROVE  /\ pool' \in [Pool -> Maybe(PoolObject)]
             /\ \A l \in Pool \ {k} : pool'[l] = pool[l]
             /\ pool'[k] = Absent \/ (pool'[k] \in PoolObject /\ pool'[k] # Absent)
  BY <1>3, <1>4 DEF Maybe
<1> QED
  BY <1>1, <1>2, <1>4, PoolMarked DEF Maybe

LEMMA PoolTyped == ASSUME TreeTypeOK, NEW k \in Pool, PoolStep(k) PROVE TreeTypeOK'
<1>1. pool' \in [Pool -> Maybe(PoolObject)]
  BY PoolChanges
<1>2. /\ UNCHANGED <<provider, edge, worker, machine, secret, region, caches>>
      /\ UNCHANGED <<rounds, late>>
      /\ dangling' \in {dangling, dangling \ {k}} /\ missed' \in {missed, missed \ {k}}
      /\ adrift' \in {adrift, adrift \cup {k}}
  BY DEF PoolStep, GuardPool, CollectPool, CollectorReleasesPool, PoolGone,
         cloud, workers, history
<1> QED
  BY <1>1, <1>2 DEF TreeTypeOK, caches, rounds

LEMMA WorkerTyped == ASSUME TreeTypeOK, NEW k \in Pool, WorkerStep(k) PROVE TreeTypeOK'
<1>1. /\ worker' \in [Pool -> {"none", "live", "deleting"}]
      /\ machine' \in [Pool -> {"none", "buying", "up", "kept"}]
      /\ adrift' \subseteq Pool /\ late' \subseteq Pool
  BY DEF TreeTypeOK, WorkerStep, Falters, AddWorker, StartPod, PodBuys, CollectWorker,
         ReturnMachine, ReleaseWorker, ReturnFails, OutputsFlake, DeleteNode, WorkerGone,
         history
<1>2. UNCHANGED <<objects, secret, region, caches, rounds, missed>>
  BY DEF WorkerStep, Falters, AddWorker, StartPod, PodBuys, CollectWorker,
         ReturnMachine, ReleaseWorker, ReturnFails, OutputsFlake, DeleteNode, WorkerGone,
         history
<1> QED
  BY <1>1, <1>2 DEF TreeTypeOK, objects, caches, rounds

LEMMA WatchesTyped == ASSUME TreeTypeOK, Watches \/ Crash PROVE TreeTypeOK'
  BY DEF TreeTypeOK, Maybe, cloud, workers, caches, rounds, history, objects, Watches,
     Watch, DeliverProvider, DeliverEdges, DeliverPools, DeliverWorkers, DeliverSecret,
     Crash

LEMMA CommandsTyped == ASSUME TreeTypeOK, Commands PROVE TreeTypeOK'
<1> USE DEF TreeTypeOK, Maybe, cloud, workers, caches, rounds, history, objects, Users
<1>1. CASE ApplyProvider
  <2>1. (~CachedBirth) \in BOOLEAN
    BY Zenon
  <2>2. \A b \in BOOLEAN : [birth |-> b, guarded |-> FALSE,
                             deleting |-> FALSE, foreground |-> FALSE] \in ProviderObject
    BY DEF ProviderObject
  <2>3. provider' \in Maybe(ProviderObject)
    BY <1>1, <2>1, <2>2 DEF ApplyProvider
  <2> QED
    BY <1>1, <2>3 DEF ApplyProvider
<1>2. ASSUME NEW e \in Edge, NEW s \in Specs, ApplyEdge(e, s) PROVE TreeTypeOK'
  BY <1>2 DEF ApplyEdge, EdgeObject
<1>3. ASSUME NEW f \in BOOLEAN, DeleteProvider(f) PROVE TreeTypeOK'
  <2>1. provider \in ProviderObject
    BY <1>3 DEF DeleteProvider
  <2>2. [provider EXCEPT !.deleting = TRUE, !.foreground = @ /\ f] \in ProviderObject
    BY <2>1 DEF ProviderObject
  <2>3. provider' \in Maybe(ProviderObject) /\ dangling' \subseteq Edge \cup Pool
    BY <1>3, <2>2 DEF DeleteProvider, OwnedEdges
  <2> QED
    BY <1>3, <2>3 DEF DeleteProvider
<1>4. ASSUME NEW f \in BOOLEAN, NEW e \in Edge, DeleteEdge(e, f) PROVE TreeTypeOK'
  <2>1. edge[e] \in EdgeObject
    BY <1>4 DEF DeleteEdge
  <2>2. [edge[e] EXCEPT !.deleting = TRUE, !.foreground = @ /\ f] \in EdgeObject
    BY <2>1 DEF EdgeObject
  <2>3. CASE edge[e].stage = "guarded"
    <3>1. edge' = [edge EXCEPT ![e] = [edge[e] EXCEPT !.deleting = TRUE,
                                                      !.foreground = @ /\ f]]
      BY <1>4, <2>3 DEF DeleteEdge
    <3> QED
      BY <1>4, <2>2, <2>3, <3>1 DEF DeleteEdge
  <2>4. CASE edge[e].stage # "guarded"
    BY <1>4, <2>4 DEF DeleteEdge, Forget, Existing, PoolsOf
  <2> QED
    BY <2>3, <2>4
<1> QED
  BY <1>1, <1>2, <1>3, <1>4 DEF Commands

LEMMA TreeTypedStep == TreeTypeOK /\ [TreeNext]_tree => TreeTypeOK'
<1> SUFFICES ASSUME TreeTypeOK, [TreeNext]_tree PROVE TreeTypeOK'
  OBVIOUS
<1>1. CASE UNCHANGED tree
  BY <1>1 DEF tree, objects, cloud, workers, caches, rounds, history, TreeTypeOK
<1>2. CASE Controllers
  BY <1>2, ReconcileTyped, RoundTyped, ProviderTyped, DependentsTyped, PoolTyped,
     WorkerTyped, WatchesTyped
     DEF Controllers, Edges, Grows, Shrinks, PoolStep, WorkerStep
<1> QED
  BY <1>1, <1>2, RoundTyped, WatchesTyped, CommandsTyped DEF TreeNext, Mishaps

\* Every reachable state of the tree has its type.
THEOREM TreeTypeCorrect == TreeSpec => []TreeTypeOK
  BY TreeTypedInit, TreeTypedStep, PTL DEF TreeSpec

-------------------------------------------------------------------------------
(***************************************************************************)
(* The secret outlives the machines of the worker nodes.  Pools are only   *)
(* made for an edge that has its finalizers, in the cache and in the store; *)
(* such an edge has its label in the cache, so the provider's listing shows *)
(* it; it goes when the cache shows no pool of it, and what it overlooks   *)
(* then is in missed.  Worker nodes are only made for a pool that has its  *)
(* finalizers; it goes when the cache shows no worker node, and one that is *)
(* overlooked then is adrift.                                              *)
(***************************************************************************)
Guarded(o) == o # Absent /\ o.stage = "guarded"

SeenGuarded ==
  \A e \in Edge : Guarded(seenEdge[e]) /\ ~seenEdge[e].deleting => Guarded(edge[e])

WorksOnGuarded == rcEdge # Idle => Guarded(edge[rcEdge.edge])

PoolsHaveEdge ==
  \A k \in Pool : pool[k] # Absent /\ k \notin missed => Guarded(edge[k[1]])

\* A pool that has been given its finalizers.
Firm(o) == o # Absent /\ (o.deleting \/ o.foreground)

PoolThere ==
  \A k \in Pool : seenPool[k] # Absent /\ ~seenPool[k].deleting /\ seenPool[k].foreground
                  => Firm(pool[k])

WorkersHavePool == \A k \in Pool : HasWorker(k) => Firm(pool[k])

GuardedListed == \A e \in Edge : Guarded(edge[e]) => e \in ListedEdges

NoneLeft ==
  rcProvider # Idle \/ ~secret =>
    \A k \in Pool : worker[k] # "none" /\ machine[k] # "none"
                    => k \in late \cup missed \cup adrift

TreeInv ==
  /\ TreeTypeOK
  /\ SeenGuarded /\ WorksOnGuarded /\ PoolsHaveEdge
  /\ WorkersHavePool /\ PoolThere /\ GuardedListed /\ NoneLeft

LEMMA TreeInvInit == TreeInit => TreeInv
<1> SUFFICES ASSUME TreeInit PROVE TreeInv
  OBVIOUS
<1>1. \A e \in Edge : ~Guarded(edge[e]) /\ ~Guarded(seenEdge[e])
  BY DEF TreeInit, Guarded
<1>2. /\ rcEdge = Idle
      /\ \A k \in Pool : /\ pool[k] = Absent /\ seenPool[k] = Absent
                         /\ worker[k] = "none"
  BY DEF TreeInit
<1> QED
  BY <1>1, <1>2, TreeTypedInit
     DEF TreeInv, SeenGuarded, WorksOnGuarded, PoolsHaveEdge, WorkersHavePool,
         HasWorker, PoolThere, GuardedListed, NoneLeft

\* What six of the parts are about, besides secret and rcProvider.
LEMMA PartsKept ==
  ASSUME TreeInv, UNCHANGED <<edge, seenEdge, seenPool, pool, workers, rcEdge, missed>>
  PROVE  /\ SeenGuarded' /\ WorksOnGuarded' /\ PoolsHaveEdge'
         /\ WorkersHavePool' /\ PoolThere' /\ GuardedListed'
  BY DEF TreeInv, SeenGuarded, WorksOnGuarded, PoolsHaveEdge, WorkersHavePool, HasWorker,
     PoolThere, Firm, GuardedListed, ListedEdges, Guarded, workers

\* A step that changes edges, but none that has its finalizers, for good.
LEMMA EdgesKept ==
  ASSUME TreeInv, NEW e \in Edge,
         Guarded(edge[e]) => Guarded(edge'[e]),
         Guarded(edge'[e]) => e \in ListedEdges,
         \A f \in Edge \ {e} : edge'[f] = edge[f],
         UNCHANGED <<seenEdge, seenPool, pool, workers, rcEdge, missed,
                     rcProvider, secret, late>>
  PROVE  /\ SeenGuarded' /\ WorksOnGuarded' /\ PoolsHaveEdge'
         /\ WorkersHavePool' /\ PoolThere' /\ GuardedListed' /\ NoneLeft'
<1> USE DEF TreeInv
<1>1. \A f \in Edge : Guarded(edge[f]) => Guarded(edge'[f])
  OBVIOUS
<1>2. SeenGuarded'
  BY <1>1 DEF SeenGuarded, Guarded
<1>3. WorksOnGuarded'
  BY <1>1 DEF WorksOnGuarded, TreeTypeOK, Guarded
<1>4. PoolsHaveEdge'
  BY <1>1 DEF PoolsHaveEdge, Pool, Guarded
<1>5. WorkersHavePool' /\ PoolThere' /\ NoneLeft'
  BY DEF WorkersHavePool, HasWorker, PoolThere, Firm, NoneLeft, workers
<1>6. GuardedListed'
  BY DEF GuardedListed, ListedEdges, Guarded
<1> QED
  BY <1>2, <1>3, <1>4, <1>5, <1>6

\* A step of an edge's reconcile, whose copy must be the stored edge.
LEMMA UpdateKeeps ==
  ASSUME TreeInv, NEW e \in Edge, NEW new, Update(e, new),
         seenEdge[e] # Absent,
         Guarded(seenEdge[e]) => Guarded(new),
         Guarded(new) => seenEdge[e].stage # "new"
  PROVE  /\ SeenGuarded' /\ WorksOnGuarded' /\ PoolsHaveEdge'
         /\ WorkersHavePool' /\ PoolThere' /\ GuardedListed' /\ NoneLeft'
<1>1. edge' = [edge EXCEPT ![e] = new] /\ edge[e] = seenEdge[e]
  BY DEF Update
<1>2. edge'[e] = new /\ \A f \in Edge \ {e} : edge'[f] = edge[f]
  BY <1>1 DEF TreeInv, TreeTypeOK
<1>3. Guarded(edge'[e]) => e \in ListedEdges
  BY <1>2 DEF ListedEdges
<1> QED
  BY <1>1, <1>2, <1>3, EdgesKept DEF Update, cloud, caches, rounds, history

LEMMA ReconcileKeeps ==
  ASSUME TreeInv, NEW e \in Edge, ReconcileEdge(e)
  PROVE  /\ SeenGuarded' /\ WorksOnGuarded' /\ PoolsHaveEdge'
         /\ WorkersHavePool' /\ PoolThere' /\ GuardedListed' /\ NoneLeft'
<1>1. CASE EnsureLabels(e) \/ EnsureFinalizers(e) \/ PatchDefaults(e)
  <2>1. /\ seenEdge[e] # Absent /\ seenEdge[e] \in EdgeObject
    BY <1>1 DEF EnsureLabels, EnsureFinalizers, PatchDefaults, Takes, TreeInv,
                TreeTypeOK, Maybe
  <2>2. CASE EnsureLabels(e)
    <3> DEFINE new == [seenEdge[e] EXCEPT !.stage = "labelled"]
    <3>1. ~Guarded(new) /\ ~Guarded(seenEdge[e])
      BY <2>1, <2>2 DEF EnsureLabels, Takes, Guarded, EdgeObject
    <3> QED
      BY <2>1, <2>2, <3>1, UpdateKeeps DEF EnsureLabels
  <2>3. CASE EnsureFinalizers(e)
    <3> DEFINE new == [seenEdge[e] EXCEPT !.stage = "guarded", !.foreground = TRUE]
    <3>1. Guarded(new) /\ seenEdge[e].stage # "new"
      BY <2>1, <2>3, InfraTreeAssumption DEF EnsureFinalizers, Takes, Guarded, EdgeObject
    <3> QED
      BY <2>1, <2>3, <3>1, UpdateKeeps DEF EnsureFinalizers
  <2>4. CASE PatchDefaults(e)
    <3> DEFINE new == [seenEdge[e] EXCEPT !.owned = TRUE]
    <3>1. Guarded(new) /\ seenEdge[e].stage # "new"
      BY <2>1, <2>4, InfraTreeAssumption DEF PatchDefaults, Takes, Guarded, EdgeObject
    <3> QED
      BY <2>1, <2>4, <3>1, UpdateKeeps DEF PatchDefaults
  <2> QED
    BY <1>1, <2>2, <2>3, <2>4
<1>2. CASE BeginEdge(e)
  <2>1. Guarded(edge[e]) /\ rcEdge'.edge = e
    BY <1>2 DEF BeginEdge, Takes, Guarded, TreeInv, SeenGuarded
  <2>2. UNCHANGED <<objects, cloud, caches, rcProvider, history>>
    BY <1>2 DEF BeginEdge
  <2> QED
    BY <2>1, <2>2 DEF TreeInv, SeenGuarded, WorksOnGuarded, PoolsHaveEdge,
       WorkersHavePool, HasWorker, PoolThere, Firm, GuardedListed, NoneLeft,
       ListedEdges, Guarded, objects, cloud, workers, caches, history
<1>3. CASE FinalizeEdge(e)
  <2> USE DEF TreeInv
  <2>1. /\ rcEdge = Idle /\ seenEdge[e].deleting
        /\ \A k \in PoolsOf(e) : k \in Pool /\ seenPool[k] = Absent
    BY <1>3 DEF FinalizeEdge, Existing, PoolsOf
  <2>2. /\ edge' = [edge EXCEPT ![e] = Absent]
        /\ missed' = missed \cup Unseen(e)
        /\ UNCHANGED <<provider, pool, cloud, caches, rounds, late>>
    BY <1>3 DEF FinalizeEdge, Release, Forget
  <2>3. edge'[e] = Absent /\ \A f \in Edge \ {e} : edge'[f] = edge[f]
    BY <2>2 DEF TreeTypeOK
  <2>4. \A k \in Pool : k[1] = e /\ pool[k] # Absent => k \in missed'
    BY <2>1, <2>2 DEF Unseen, Existing, PoolsOf
  <2>5. SeenGuarded'
    BY <2>1, <2>2, <2>3 DEF SeenGuarded, caches, Guarded
  <2>6. WorksOnGuarded'
    BY <2>1, <2>2 DEF WorksOnGuarded, rounds
  <2>7. PoolsHaveEdge'
    BY <2>2, <2>3, <2>4 DEF PoolsHaveEdge, Pool, Guarded
  <2>8. WorkersHavePool' /\ PoolThere' /\ NoneLeft'
    BY <2>2 DEF WorkersHavePool, HasWorker, PoolThere, Firm, NoneLeft, cloud, workers,
       caches, rounds
  <2>9. GuardedListed'
    BY <2>2, <2>3 DEF GuardedListed, ListedEdges, Guarded, caches
  <2> QED
    BY <2>5, <2>6, <2>7, <2>8, <2>9
<1> QED
  BY <1>1, <1>2, <1>3 DEF ReconcileEdge

\* The other steps of the edge's round.
LEMMA RoundKeeps ==
  ASSUME TreeInv, EdgeRound \/ UpdateFails
  PROVE  /\ SeenGuarded' /\ WorksOnGuarded' /\ PoolsHaveEdge'
         /\ WorkersHavePool' /\ PoolThere' /\ GuardedListed' /\ NoneLeft'
<1> USE DEF TreeInv
<1>1. ASSUME NEW names \in SUBSET DOMAIN rcEdge.spec, Applies(names), EndEdge,
             rcEdge # Idle
      PROVE  /\ SeenGuarded' /\ WorksOnGuarded' /\ PoolsHaveEdge'
             /\ WorkersHavePool' /\ PoolThere' /\ GuardedListed' /\ NoneLeft'
  <2> DEFINE applied == {rcEdge.edge} \X names
  <2>1. Guarded(edge[rcEdge.edge])
    BY <1>1 DEF WorksOnGuarded
  <2>2. /\ \A k \in Pool : k \notin applied => pool'[k] = pool[k]
        /\ \A k \in Pool : Firm(pool[k]) => Firm(pool'[k])
    BY <1>1, AppliesTyped DEF Firm
  <2>3. /\ rcEdge' = Idle
        /\ UNCHANGED <<provider, edge, cloud, caches, rcProvider, history>>
    BY <1>1 DEF Applies, EndEdge
  <2>4. SeenGuarded' /\ WorksOnGuarded' /\ GuardedListed' /\ NoneLeft'
    BY <2>3 DEF SeenGuarded, WorksOnGuarded, GuardedListed, ListedEdges, Guarded,
       NoneLeft, cloud, workers, caches, history
  <2>5. WorkersHavePool' /\ PoolThere'
    BY <2>2, <2>3 DEF WorkersHavePool, HasWorker, PoolThere, Firm, cloud, workers, caches
  <2>6. PoolsHaveEdge'
    BY <2>1, <2>2, <2>3 DEF PoolsHaveEdge, Pool, Guarded, history
  <2> QED
    BY <2>4, <2>5, <2>6
<1>2. rcEdge.step = "pools" => rcEdge # Idle
  BY DEF Idle
<1>3. CASE UpdatePools
  BY <1>1, <1>2, <1>3 DEF UpdatePools
<1>4. ASSUME EndEdge, UNCHANGED objects
      PROVE  /\ SeenGuarded' /\ WorksOnGuarded' /\ PoolsHaveEdge'
             /\ WorkersHavePool' /\ PoolThere' /\ GuardedListed' /\ NoneLeft'
  BY <1>4 DEF EndEdge, SeenGuarded, WorksOnGuarded, PoolsHaveEdge, WorkersHavePool,
     HasWorker, PoolThere, GuardedListed, NoneLeft, ListedEdges, Guarded, Firm,
     objects, cloud, workers, caches, history
<1>5. CASE UpdateFails
  BY <1>1, <1>4, <1>5 DEF UpdateFails
<1>6. CASE ReconRegion
  <2>1. rcEdge # Idle /\ rcEdge'.edge = rcEdge.edge
    BY <1>6 DEF ReconRegion, TreeTypeOK, Idle
  <2>2. UNCHANGED <<objects, workers, secret, caches, rcProvider, history>>
    BY <1>6 DEF ReconRegion
  <2> QED
    BY <2>1, <2>2 DEF SeenGuarded, WorksOnGuarded, PoolsHaveEdge, WorkersHavePool,
       HasWorker, PoolThere, GuardedListed, NoneLeft, ListedEdges, Guarded, Firm,
       objects, workers, caches, history
<1> QED
  BY <1>3, <1>4, <1>5, <1>6 DEF EdgeRound, PoolsMatch

\* The provider's round: it starts when every machine there is was overlooked.
LEMMA ProviderKeeps ==
  ASSUME TreeInv, ProviderRound \/ CollectorReleasesProvider
  PROVE  /\ SeenGuarded' /\ WorksOnGuarded' /\ PoolsHaveEdge'
         /\ WorkersHavePool' /\ PoolThere' /\ GuardedListed' /\ NoneLeft'
<1>1. UNCHANGED <<edge, seenEdge, seenPool, pool, workers, rcEdge, missed, late>>
  BY DEF ProviderRound, GuardProvider, ListEdges, DeleteSecret, ReleaseProvider,
     CollectorReleasesProvider, objects, cloud, caches, rounds, history
<1>2. NoneLeft'
  <2> USE DEF TreeInv
  <2>1. CASE ListEdges
    <3>1. \A k \in Pool : worker[k] # "none" => k \in missed \cup adrift
      BY <2>1 DEF ListEdges, GuardedListed, PoolsHaveEdge, WorkersHavePool, HasWorker,
         Firm, Pool
    <3> QED
      BY <1>1, <3>1 DEF NoneLeft, workers
  <2>2. CASE DeleteSecret
    <3>1. rcProvider # Idle
      BY <2>2 DEF DeleteSecret, Idle
    <3> QED
      BY <1>1, <3>1 DEF NoneLeft, workers
  <2>3. CASE GuardProvider \/ ReleaseProvider \/ CollectorReleasesProvider
    <3>1. secret' = secret /\ (rcProvider' = rcProvider \/ rcProvider' = Idle)
      BY <2>3 DEF GuardProvider, ReleaseProvider, CollectorReleasesProvider,
         cloud, rounds
    <3> QED
      BY <1>1, <3>1 DEF NoneLeft, workers
  <2> QED
    BY <2>1, <2>2, <2>3 DEF ProviderRound
<1> QED
  BY <1>1, <1>2, PartsKept

\* The garbage collector's marks, and kubectl's.
LEMMA MarksKeep ==
  ASSUME TreeInv, NEW e \in Edge,
         edge[e] # Absent, edge'[e] \in EdgeObject, edge'[e].stage = edge[e].stage,
         \A f \in Edge \ {e} : edge'[f] = edge[f],
         UNCHANGED <<seenEdge, seenPool, pool, workers, rcEdge, missed,
                     rcProvider, secret, late>>
  PROVE  /\ SeenGuarded' /\ WorksOnGuarded' /\ PoolsHaveEdge'
         /\ WorkersHavePool' /\ PoolThere' /\ GuardedListed' /\ NoneLeft'
<1>1. Guarded(edge[e]) <=> Guarded(edge'[e])
  BY InfraTreeAssumption DEF Guarded
<1>2. Guarded(edge'[e]) => e \in ListedEdges
  BY <1>1 DEF TreeInv, GuardedListed
<1> QED
  BY <1>1, <1>2, EdgesKept

LEMMA EdgeCollected ==
  ASSUME TreeInv, NEW e \in Edge, CollectEdge(e) \/ CollectorReleasesEdge(e)
  PROVE  /\ SeenGuarded' /\ WorksOnGuarded' /\ PoolsHaveEdge'
         /\ WorkersHavePool' /\ PoolThere' /\ GuardedListed' /\ NoneLeft'
<1>1. edge[e] \in EdgeObject /\ edge[e] # Absent
  BY DEF CollectEdge, CollectorReleasesEdge, TreeInv, TreeTypeOK, Maybe
<1>2. /\ [edge[e] EXCEPT !.deleting = TRUE] \in EdgeObject
      /\ [edge[e] EXCEPT !.foreground = FALSE] \in EdgeObject
  BY <1>1 DEF EdgeObject
<1>3. \/ edge' = [edge EXCEPT ![e] = [edge[e] EXCEPT !.deleting = TRUE]]
      \/ edge' = [edge EXCEPT ![e] = [edge[e] EXCEPT !.foreground = FALSE]]
  BY DEF CollectEdge, CollectorReleasesEdge
<1>4. /\ edge'[e] \in { [edge[e] EXCEPT !.deleting = TRUE],
                        [edge[e] EXCEPT !.foreground = FALSE] }
      /\ \A f \in Edge \ {e} : edge'[f] = edge[f]
  BY <1>3 DEF TreeInv, TreeTypeOK
<1>5. edge'[e] \in EdgeObject /\ edge'[e].stage = edge[e].stage
  BY <1>1, <1>2, <1>4 DEF EdgeObject
<1> QED
  BY <1>1, <1>4, <1>5, MarksKeep
     DEF CollectEdge, CollectorReleasesEdge, cloud, caches, rounds, history

LEMMA PoolsKeep ==
  ASSUME TreeInv, NEW k \in Pool, PoolStep(k)
  PROVE  /\ SeenGuarded' /\ WorksOnGuarded' /\ PoolsHaveEdge'
         /\ WorkersHavePool' /\ PoolThere' /\ GuardedListed' /\ NoneLeft'
<1> USE DEF TreeInv
<1>1. /\ UNCHANGED <<edge, worker, machine, secret, caches, rounds, late>>
      /\ pool[k] # Absent
      /\ \A l \in Pool \ {k} : pool'[l] = pool[l]
  BY PoolChanges DEF PoolStep, GuardPool, CollectPool, CollectorReleasesPool, PoolGone,
     cloud, workers, history
<1>2. SeenGuarded' /\ WorksOnGuarded' /\ GuardedListed'
  BY <1>1 DEF SeenGuarded, WorksOnGuarded, GuardedListed, ListedEdges, Guarded,
     caches, rounds
\* The pool stays ...
<1>3. CASE pool'[k] # Absent /\ UNCHANGED <<adrift, missed>>
  <2>1. Firm(pool[k]) => Firm(pool'[k])
    <3>1. \/ pool'[k] = [pool[k] EXCEPT !.deleting = TRUE]
          \/ pool'[k] = [pool[k] EXCEPT !.foreground = TRUE]
          \/ pool[k].deleting /\ pool'[k] = [pool[k] EXCEPT !.foreground = FALSE]
      BY <1>3 DEF PoolStep, GuardPool, CollectPool, CollectorReleasesPool, PoolGone,
         TreeTypeOK
    <3>2. pool[k] \in PoolObject
      BY <1>1, PoolMarked
    <3> QED
      BY <1>3, <3>1, <3>2 DEF PoolObject, Firm
  <2>2. PoolsHaveEdge' /\ WorkersHavePool' /\ NoneLeft'
    BY <1>1, <1>3, <2>1 DEF PoolsHaveEdge, Guarded, WorkersHavePool, HasWorker, NoneLeft,
       rounds
  <2>3. PoolThere'
    BY <1>1, <1>3, <2>1 DEF PoolThere, caches
  <2> QED
    BY <1>2, <2>2, <2>3
\* ... or goes; a worker node that is there all the same is adrift.
<1>4. CASE /\ pool'[k] = Absent /\ missed' = missed \ {k}
           /\ worker[k] # "none" => k \in adrift'
           /\ adrift' \in {adrift, adrift \cup {k}}
           /\ ~(seenPool[k] # Absent /\ ~seenPool[k].deleting /\ seenPool[k].foreground)
  <2>1. PoolsHaveEdge'
    BY <1>1, <1>4 DEF PoolsHaveEdge, Guarded
  <2>2. WorkersHavePool'
    BY <1>1, <1>4 DEF WorkersHavePool, HasWorker
  <2>3. PoolThere'
    BY <1>1, <1>4 DEF PoolThere, caches
  <2>4. NoneLeft'
    BY <1>1, <1>4 DEF NoneLeft, rounds
  <2> QED
    BY <1>2, <2>1, <2>2, <2>3, <2>4
<1>5. CASE GuardPool(k) \/ CollectorReleasesPool(k)
  <2>1. pool'[k] # Absent
    <3>1. \E f \in BOOLEAN : pool'[k] = [pool[k] EXCEPT !.foreground = f]
      BY <1>5 DEF GuardPool, CollectorReleasesPool, TreeTypeOK
    <3> QED
      BY <1>1, <3>1, PoolMarked, InfraTreeAssumption
  <2> QED
    BY <1>3, <1>5, <2>1 DEF GuardPool, CollectorReleasesPool, cloud, workers, history
<1>6. CASE CollectPool(k)
  <2>1. CASE pool[k].foreground
    <3>1. pool'[k] = [pool[k] EXCEPT !.deleting = TRUE] /\ UNCHANGED <<adrift, missed>>
      BY <1>6, <2>1 DEF CollectPool, TreeTypeOK, cloud, workers
    <3> QED
      BY <1>1, <1>3, <3>1, PoolMarked, InfraTreeAssumption
  <2>2. CASE ~pool[k].foreground
    <3>1. pool'[k] = Absent /\ missed' = missed \ {k} /\ adrift' = adrift
      BY <1>6, <2>2 DEF CollectPool, TreeTypeOK, cloud, workers
    <3>2. ~(seenPool[k] # Absent /\ ~seenPool[k].deleting /\ seenPool[k].foreground)
      BY <1>6, <2>2 DEF CollectPool, PoolThere, Firm
    <3>3. worker[k] # "none" => k \in adrift
      BY <1>6, <2>2 DEF CollectPool, WorkersHavePool, HasWorker, Firm
    <3> QED
      BY <1>4, <3>1, <3>2, <3>3
  <2> QED
    BY <2>1, <2>2
<1>7. CASE PoolGone(k)
  <2>1. pool'[k] = Absent /\ missed' = missed \ {k} /\ pool[k] = seenPool[k]
    BY <1>7 DEF PoolGone, TreeTypeOK
  <2> QED
    BY <1>4, <1>7, <2>1 DEF PoolGone
<1> QED
  BY <1>5, <1>6, <1>7 DEF PoolStep

\* A worker node is made for a pool that is there, a machine bought after the
\* listing is late.
LEMMA WorkersKeep ==
  ASSUME TreeInv, NEW k \in Pool, WorkerStep(k)
  PROVE  /\ SeenGuarded' /\ WorksOnGuarded' /\ PoolsHaveEdge'
         /\ WorkersHavePool' /\ PoolThere' /\ GuardedListed' /\ NoneLeft'
<1> USE DEF TreeInv
<1>1. UNCHANGED <<objects, secret, caches, rounds, missed>>
  BY DEF WorkerStep, Falters, AddWorker, StartPod, PodBuys, CollectWorker,
     ReturnMachine, ReleaseWorker, ReturnFails, OutputsFlake, DeleteNode, WorkerGone,
     history
<1>2. /\ SeenGuarded' /\ WorksOnGuarded' /\ PoolsHaveEdge' /\ PoolThere'
      /\ GuardedListed'
  BY <1>1 DEF SeenGuarded, WorksOnGuarded, PoolsHaveEdge, PoolThere, GuardedListed,
     ListedEdges, Guarded, objects, caches, rounds
<1>3. /\ worker \in [Pool -> {"none", "live", "deleting"}]
      /\ machine \in [Pool -> {"none", "buying", "up", "kept"}]
  BY DEF TreeTypeOK
<1>4. CASE AddWorker(k)
  <2>1. /\ Firm(pool[k]) /\ machine[k] = "none"
        /\ worker' = [worker EXCEPT ![k] = "live"]
        /\ UNCHANGED <<machine, adrift, late>>
    BY <1>4 DEF AddWorker, PoolThere, history
  <2>2. WorkersHavePool' /\ NoneLeft'
    BY <1>1, <1>3, <2>1 DEF WorkersHavePool, HasWorker, NoneLeft, objects, rounds
  <2> QED
    BY <1>2, <2>2
<1>5. CASE StartPod(k)
  <2>1. /\ machine' = [machine EXCEPT ![k] = "buying"]
        /\ rcProvider # Idle \/ ~secret => k \in late'
        /\ late \subseteq late' /\ UNCHANGED <<worker, adrift>>
    BY <1>5 DEF StartPod
  <2>2. WorkersHavePool' /\ NoneLeft'
    BY <1>1, <1>3, <2>1 DEF WorkersHavePool, HasWorker, NoneLeft, objects, rounds
  <2> QED
    BY <1>2, <2>2
<1>6. CASE PodBuys(k)
  <2>1. /\ machine' = [machine EXCEPT ![k] = "up"] /\ machine[k] # "none"
        /\ UNCHANGED <<worker, adrift, late>>
    BY <1>6 DEF PodBuys, history
  <2>2. WorkersHavePool' /\ NoneLeft'
    BY <1>1, <1>3, <2>1 DEF WorkersHavePool, HasWorker, NoneLeft, objects, rounds
  <2> QED
    BY <1>2, <2>2
<1>7. CASE CollectWorker(k)
  <2>1. /\ worker' = [worker EXCEPT ![k] = "deleting"] /\ worker[k] # "none"
        /\ UNCHANGED <<machine, adrift, late>>
    BY <1>7 DEF CollectWorker, history
  <2>2. WorkersHavePool' /\ NoneLeft'
    BY <1>1, <1>3, <2>1 DEF WorkersHavePool, HasWorker, NoneLeft, objects, rounds
  <2> QED
    BY <1>2, <2>2
<1>8. CASE ReturnMachine(k) \/ ReturnFails(k)
  <2>1. /\ machine[k] # "none" /\ UNCHANGED <<worker, adrift>>
        /\ \/ machine' = [machine EXCEPT ![k] = "none"] /\ late' = late \ {k}
           \/ machine' = [machine EXCEPT ![k] = "kept"] /\ late' = late
    BY <1>8 DEF ReturnMachine, ReturnFails, DeleteNode
  <2>2. WorkersHavePool' /\ NoneLeft'
    BY <1>1, <1>3, <2>1 DEF WorkersHavePool, HasWorker, NoneLeft, objects, rounds
  <2> QED
    BY <1>2, <2>2
<1>9. CASE ReleaseWorker(k) \/ OutputsFlake(k)
  <2>1. /\ worker' = [worker EXCEPT ![k] = "none"]
        /\ adrift' = adrift \ {k} /\ late' = late \ {k} /\ UNCHANGED machine
    BY <1>9 DEF ReleaseWorker, OutputsFlake, WorkerGone
  <2>2. WorkersHavePool' /\ NoneLeft'
    BY <1>1, <1>3, <2>1 DEF WorkersHavePool, HasWorker, NoneLeft, objects, rounds
  <2> QED
    BY <1>2, <2>2
<1> QED
  BY <1>4, <1>5, <1>6, <1>7, <1>8, <1>9 DEF WorkerStep, Falters

\* What the cache shows anew is what is stored; a restart drops the rounds.
LEMMA WatchesKeep ==
  ASSUME TreeInv, Watches \/ Crash
  PROVE  /\ SeenGuarded' /\ WorksOnGuarded' /\ PoolsHaveEdge'
         /\ WorkersHavePool' /\ PoolThere' /\ GuardedListed' /\ NoneLeft'
<1> USE DEF TreeInv
<1>1. /\ UNCHANGED <<objects, cloud, history>>
      /\ seenEdge' \in {edge, seenEdge} /\ seenPool' \in {pool, seenPool}
      /\ rcEdge' \in {rcEdge, Idle} /\ rcProvider' \in {rcProvider, Idle}
  BY DEF Watches, DeliverProvider, DeliverEdges, DeliverPools, DeliverWorkers,
     DeliverSecret, Watch, Crash, rounds
<1>2. \A e \in Edge : Guarded(edge[e]) => edge[e].stage # "new"
  BY DEF Guarded
<1>3. SeenGuarded' /\ GuardedListed'
  BY <1>1, <1>2 DEF SeenGuarded, GuardedListed, ListedEdges, Guarded, objects
<1>4. WorksOnGuarded' /\ PoolsHaveEdge' /\ WorkersHavePool' /\ NoneLeft'
  BY <1>1 DEF WorksOnGuarded, PoolsHaveEdge, WorkersHavePool, HasWorker, Firm, NoneLeft,
     Guarded, objects, cloud, workers, history
<1>5. PoolThere'
  BY <1>1 DEF PoolThere, Firm, objects
<1> QED
  BY <1>3, <1>4, <1>5

\* Users: an edge without its finalizers goes at once, and has no pools; one
\* that has them is only marked.
LEMMA CommandsKeep ==
  ASSUME TreeInv, Commands
  PROVE  /\ SeenGuarded' /\ WorksOnGuarded' /\ PoolsHaveEdge'
         /\ WorkersHavePool' /\ PoolThere' /\ GuardedListed' /\ NoneLeft'
<1>1. ASSUME ApplyProvider \/ \E f \in BOOLEAN : DeleteProvider(f)
      PROVE  /\ SeenGuarded' /\ WorksOnGuarded' /\ PoolsHaveEdge'
             /\ WorkersHavePool' /\ PoolThere' /\ GuardedListed' /\ NoneLeft'
  <2>1. UNCHANGED <<edge, pool, cloud, caches, rounds, history>>
    BY <1>1 DEF ApplyProvider, DeleteProvider, Users
  <2> QED
    BY <2>1, PartsKept DEF TreeInv, NoneLeft, cloud, workers, caches, rounds, history
<1>2. ASSUME NEW e \in Edge, NEW s \in Specs, ApplyEdge(e, s)
      PROVE  /\ SeenGuarded' /\ WorksOnGuarded' /\ PoolsHaveEdge'
             /\ WorkersHavePool' /\ PoolThere' /\ GuardedListed' /\ NoneLeft'
  <2>1. /\ UNCHANGED <<pool, cloud, caches, rounds, history>>
        /\ edge' = [edge EXCEPT ![e] =
                     IF edge[e] # Absent THEN [edge[e] EXCEPT !.spec = s]
                     ELSE [stage |-> "new", owned |-> FALSE, deleting |-> FALSE,
                           foreground |-> FALSE, spec |-> s]]
    BY <1>2 DEF ApplyEdge, Users
  <2>2. \A f \in Edge \ {e} : edge'[f] = edge[f]
    BY <2>1 DEF TreeInv, TreeTypeOK
  <2>3. CASE edge[e] # Absent
    <3>1. edge[e] \in EdgeObject /\ edge'[e] = [edge[e] EXCEPT !.spec = s]
      BY <2>1, <2>3 DEF TreeInv, TreeTypeOK, Maybe
    <3>2. edge'[e] \in EdgeObject /\ edge'[e].stage = edge[e].stage
      BY <3>1 DEF EdgeObject
    <3> QED
      BY <2>1, <2>2, <2>3, <3>2, MarksKeep DEF cloud, caches, rounds, history
  <2>4. CASE edge[e] = Absent
    <3>1. edge'[e] = [stage |-> "new", owned |-> FALSE, deleting |-> FALSE,
                      foreground |-> FALSE, spec |-> s]
      BY <2>1, <2>4 DEF TreeInv, TreeTypeOK
    <3>2. ~Guarded(edge[e]) /\ ~Guarded(edge'[e])
      BY <2>4, <3>1 DEF Guarded
    <3> QED
      BY <2>1, <2>2, <3>2, EdgesKept DEF cloud, caches, rounds, history
  <2> QED
    BY <2>3, <2>4
<1>3. ASSUME NEW f \in BOOLEAN, NEW e \in Edge, DeleteEdge(e, f)
      PROVE  /\ SeenGuarded' /\ WorksOnGuarded' /\ PoolsHaveEdge'
             /\ WorkersHavePool' /\ PoolThere' /\ GuardedListed' /\ NoneLeft'
  <2>1. edge[e] # Absent /\ edge[e] \in EdgeObject
    BY <1>3 DEF DeleteEdge, Users, TreeInv, TreeTypeOK, Maybe
  <2>2. UNCHANGED <<pool, cloud, caches, rounds, history>>
    BY <1>3 DEF DeleteEdge, Users
  <2>3. CASE edge[e].stage = "guarded"
    <3>1. [edge[e] EXCEPT !.deleting = TRUE, !.foreground = @ /\ f] \in EdgeObject
      BY <2>1 DEF EdgeObject
    <3>2. edge' = [edge EXCEPT ![e] = [edge[e] EXCEPT !.deleting = TRUE,
                                                      !.foreground = @ /\ f]]
      BY <1>3, <2>3 DEF DeleteEdge, Users
    <3>3. /\ edge'[e] = [edge[e] EXCEPT !.deleting = TRUE, !.foreground = @ /\ f]
          /\ \A g \in Edge \ {e} : edge'[g] = edge[g]
      BY <3>2 DEF TreeInv, TreeTypeOK
    <3>4. edge'[e] \in EdgeObject /\ edge'[e].stage = edge[e].stage
      BY <2>1, <3>1, <3>3 DEF EdgeObject
    <3> QED
      BY <2>1, <2>2, <3>3, <3>4, MarksKeep DEF cloud, caches, rounds, history
  <2>4. CASE edge[e].stage # "guarded"
    <3>1. edge' = [edge EXCEPT ![e] = Absent]
      BY <1>3, <2>4 DEF DeleteEdge, Users, Forget
    <3>2. edge'[e] = Absent /\ \A g \in Edge \ {e} : edge'[g] = edge[g]
      BY <3>1 DEF TreeInv, TreeTypeOK
    <3>3. ~Guarded(edge[e]) /\ ~Guarded(edge'[e])
      BY <2>4, <3>2 DEF Guarded
    <3> QED
      BY <2>2, <3>2, <3>3, EdgesKept DEF cloud, caches, rounds, history
  <2> QED
    BY <2>3, <2>4
<1> QED
  BY <1>1, <1>2, <1>3 DEF Commands

LEMMA TreeInvStep == TreeInv /\ [TreeNext]_tree => TreeInv'
<1> SUFFICES ASSUME TreeInv, [TreeNext]_tree PROVE TreeInv'
  OBVIOUS
<1>1. TreeTypeOK'
  BY TreeTypedStep DEF TreeInv
<1>2. CASE UNCHANGED tree
  BY <1>1, <1>2, PartsKept
     DEF tree, objects, cloud, workers, caches, rounds, history, TreeInv, NoneLeft
<1>3. CASE Controllers
  BY <1>1, <1>3, ReconcileKeeps, RoundKeeps, ProviderKeeps, EdgeCollected, PoolsKeep,
     WorkersKeep, WatchesKeep
     DEF Controllers, Edges, Grows, Shrinks, PoolStep, WorkerStep, TreeInv
<1>4. CASE Mishaps
  BY <1>1, <1>4, RoundKeeps, WatchesKeep DEF Mishaps, TreeInv
<1>5. CASE Commands
  BY <1>1, <1>5, CommandsKeep DEF TreeInv
<1> QED
  BY <1>2, <1>3, <1>4, <1>5 DEF TreeNext

-------------------------------------------------------------------------------
(***************************************************************************)
(* The composition: with an agent at work, the tree behaves as its own     *)
(* specification says.                                                     *)
(***************************************************************************)
AgentTyped ==
  /\ log \in Logs /\ position \in 0 .. Len(log)
  /\ tries \in 0 .. MaxRetries /\ waiting \in BOOLEAN
  /\ mishaps \in 0 .. MaxMishaps
  /\ waiting => position < Len(log) /\ tries < MaxRetries

LEMMA AgentTypedInit == Init => AgentTyped
<1> SUFFICES ASSUME Init PROVE AgentTyped
  OBVIOUS
<1>1. log \in Seq(Message)
  BY AgentAssumption DEF Init, AgentInit
<1>2. Len(log) \in Nat
  BY <1>1
<1>3. MaxRetries \in Nat /\ MaxMishaps \in Nat
  BY AgentAssumption, InfraAssumption
<1>4. /\ log \in Logs /\ position = 0 /\ tries = 0 /\ waiting = FALSE /\ mishaps = 0
  BY DEF Init, AgentInit
<1>5. position \in 0 .. Len(log) /\ tries \in 0 .. MaxRetries /\ mishaps \in 0 .. MaxMishaps
  BY <1>2, <1>3, <1>4
<1> QED
  BY <1>4, <1>5, Zenon DEF AgentTyped

\* The message that is executed is one of the partition's.
LEMMA CurrentMessage ==
  ASSUME AgentTyped, Processing
  PROVE  Current \in Message
<1>1. log \in Seq(Message)
  BY AgentAssumption DEF AgentTyped
<1>2. position + 1 \in 1 .. Len(log)
  BY <1>1 DEF AgentTyped, Processing
<1> QED
  BY <1>1, <1>2 DEF Current

LEMMA AgentTypedStep == AgentTyped /\ [Next]_vars => AgentTyped'
<1> SUFFICES ASSUME AgentTyped, [Next]_vars PROVE AgentTyped'
  OBVIOUS
<1>0. log \in Seq(Message) /\ MaxRetries \in Nat
  BY AgentAssumption DEF AgentTyped
<1>1. Len(log) \in Nat /\ MaxRetries \in Nat
  BY <1>0
<1>2. ASSUME Returns, Processing \/ waiting, mishaps' \in 0 .. MaxMishaps
      PROVE  AgentTyped'
  <2>1. tries \in 0 .. MaxRetries /\ tries < MaxRetries
    BY <1>2 DEF AgentTyped, Processing
  <2>2. tries' \in 0 .. MaxRetries /\ waiting' = FALSE
    BY <1>1, <1>2, <2>1 DEF Returns
  <2> QED
    BY <1>1, <1>2, <2>2 DEF AgentTyped, Returns
<1>3. ASSUME Hangs, Processing, mishaps' \in 0 .. MaxMishaps PROVE AgentTyped'
  BY <1>1, <1>3 DEF AgentTyped, Hangs, Processing
<1>4. ASSUME GivesUp \/ Commit, mishaps' \in 0 .. MaxMishaps PROVE AgentTyped'
  BY <1>1, <1>4, AgentAssumption DEF AgentTyped, GivesUp, Commit, Processing
<1>5. ASSUME Rejoin, mishaps' \in 0 .. MaxMishaps PROVE AgentTyped'
  <2>1. position \in 0 .. Len(log)
    BY DEF AgentTyped
  <2>2. position' \in 0 .. Len(log) /\ tries' \in 0 .. MaxRetries /\ waiting' = FALSE
    BY <1>1, <1>5, <2>1 DEF Rejoin
  <2> QED
    BY <1>5, <2>2 DEF AgentTyped, Rejoin
<1>6. ASSUME UNCHANGED agent, mishaps' \in 0 .. MaxMishaps PROVE AgentTyped'
  BY <1>6 DEF AgentTyped, agent
<1>7. CASE UNCHANGED vars
  BY <1>6, <1>7 DEF vars, AgentTyped
<1>8. CASE Work
  <2>1. mishaps' \in 0 .. MaxMishaps
    BY <1>8 DEF Work, AgentTyped
  <2> QED
    BY <1>2, <1>3, <1>4, <1>6, <1>8, <2>1
       DEF Work, AgentSteps, AgentApplies, AgentDeletes, AgentReturns, AgentFindsNothing
<1>9. CASE Mishap
  <2>1. mishaps' \in 0 .. MaxMishaps
    BY <1>9, InfraAssumption DEF Mishap, AgentTyped
  <2> QED
    BY <1>2, <1>5, <1>6, <1>9, <2>1
       DEF Mishap, AgentFails, AgentRejoins, Cascade
<1> QED
  BY <1>7, <1>8, <1>9 DEF Next

\* What the agent executes is what users may do.
LEMMA StepsAreUsers == AgentTyped /\ [Next]_vars => [TreeNext]_tree
<1> SUFFICES ASSUME AgentTyped, Next PROVE [TreeNext]_tree
  BY DEF vars
<1>1. CASE AgentApplies
  <2>1. Current \in Message /\ Current # Broken /\ Current.verb = "apply"
    BY <1>1, CurrentMessage DEF AgentApplies, Carries
  <2>2. \/ Current = Apply(Provider, Absent)
        \/ \E e \in Edge, s \in Specs : Current = Apply(e, s)
    BY <2>1, InfraAssumption DEF Apply, Delete
  <2>3. CASE Current.target = Provider
    BY <1>1, <2>3 DEF AgentApplies, TreeNext, Commands
  <2>4. CASE Current.target # Provider
    <3>1. Current.target \in Edge /\ Current.spec \in Specs
      BY <2>2, <2>4 DEF Apply
    <3> QED
      BY <1>1, <2>4, <3>1 DEF AgentApplies, TreeNext, Commands
  <2> QED
    BY <2>3, <2>4
<1>2. CASE AgentDeletes
  <2>1. Current \in Message /\ Current # Broken /\ Current.verb = "delete"
    BY <1>2, CurrentMessage DEF AgentDeletes, Carries
  <2>2. Current.target \in Edge \cup {Provider}
    BY <2>1, InfraAssumption DEF Apply, Delete
  <2>3. \/ DeleteProvider(FALSE)
        \/ \E e \in Edge : DeleteEdge(e, FALSE)
    BY <1>2, <2>2 DEF AgentDeletes
  <2> QED
    BY <2>3 DEF TreeNext, Commands
<1>3. CASE Cascade
  BY <1>3 DEF Cascade, TreeNext, Commands
<1>4. CASE (Controllers \/ Mishaps) /\ UNCHANGED agent
  BY <1>4 DEF TreeNext
<1>5. CASE UNCHANGED tree
  BY <1>5
<1> QED
  BY <1>1, <1>2, <1>3, <1>4, <1>5
     DEF Next, Work, Mishap, AgentSteps, AgentReturns, AgentFindsNothing,
         AgentFails, AgentRejoins

\* The composition implements the specification of the tree alone, where
\* users may do anything at any time.
THEOREM Composes == Spec => TreeSpec
<1>1. Init => TreeInit
  BY DEF Init
<1> QED
  BY <1>1, AgentTypedInit, AgentTypedStep, StepsAreUsers, PTL DEF Spec, TreeSpec

\* Every reachable state of the composition has its type.
THEOREM TypeCorrect == Spec => []TypeOK
<1>1. AgentTyped /\ TreeTypeOK => TypeOK
  BY DEF AgentTyped, TypeOK
<1> QED
  BY <1>1, Composes, TreeTypeCorrect, AgentTypedInit, AgentTypedStep, PTL DEF Spec

\* The secret outlives every machine that the listings could show.
THEOREM SecretOutlives == Spec => []NoStranded
<1>1. TreeInv => NoStranded
  BY DEF TreeInv, NoneLeft, NoStranded
<1> QED
  BY <1>1, Composes, TreeInvInit, TreeInvStep, PTL DEF TreeSpec

-------------------------------------------------------------------------------
(***************************************************************************)
(* The last word.  Nobody but the agent makes an edge or writes its spec;  *)
(* the agent may fail, be restarted and execute old messages again, but    *)
(* each pass over the partition ends with the last message about an edge.  *)
(***************************************************************************)

\* Message i has taken effect in the agent's present pass: it lies behind, or
\* it was tried more often than anything has gone wrong.
TookEffect(i) == position >= i \/ (position = i - 1 /\ tries > mishaps)

\* The edge is as the message says.
Obeys(e, message) ==
  IF message.verb = "apply" THEN edge[e] # Absent => edge[e].spec = message.spec
  ELSE edge[e] = Absent

LastWordKept ==
  mishaps < MaxRetries =>
    \A e \in Edge : \A i \in 1 .. Len(log) :
      Latest(e, i) /\ TookEffect(i) => Obeys(e, log[i])

\* When the agent has read the partition, and kubectl cannot have failed for
\* every try of a message, each edge that is there has the spec of the last
\* message about it, and an edge whose last message deletes it is not there:
\* the part of Delivered that must hold at once.
LastWord ==
  position = Len(log) /\ mishaps < MaxRetries =>
    \A e \in Edge : \A i \in 1 .. Len(log) :
      Latest(e, i) => Obeys(e, log[i])

\* The step makes no edge e and leaves the spec of the one there is.
SpecStays(e) ==
  edge'[e] # Absent => edge[e] # Absent /\ edge'[e].spec = edge[e].spec

LEMMA ReconcileLeavesSpec ==
  ASSUME TreeTypeOK, NEW f \in Edge, ReconcileEdge(f), NEW e \in Edge
  PROVE  SpecStays(e)
<1>1. edge \in [Edge -> Maybe(EdgeObject)] /\ seenEdge \in [Edge -> Maybe(EdgeObject)]
  BY DEF TreeTypeOK
<1>2. ASSUME NEW new, Update(f, new), seenEdge[f] # Absent, new.spec = seenEdge[f].spec
      PROVE  SpecStays(e)
  BY <1>1, <1>2 DEF Update, SpecStays
<1>3. ASSUME seenEdge[f] # Absent
      PROVE  /\ [seenEdge[f] EXCEPT !.stage = "labelled"].spec = seenEdge[f].spec
             /\ [seenEdge[f] EXCEPT !.stage = "guarded", !.foreground = TRUE].spec
                  = seenEdge[f].spec
             /\ [seenEdge[f] EXCEPT !.owned = TRUE].spec = seenEdge[f].spec
  <2>1. seenEdge[f] \in EdgeObject
    BY <1>1, <1>3 DEF Maybe
  <2>2. ASSUME NEW o \in EdgeObject
        PROVE  /\ [o EXCEPT !.stage = "labelled"].spec = o.spec
               /\ [o EXCEPT !.owned = TRUE].spec = o.spec
               /\ [o EXCEPT !.stage = "guarded", !.foreground = TRUE].spec = o.spec
    BY DEF EdgeObject
  <2>3. QED BY <2>1, <2>2
<1>4. CASE EnsureLabels(f)
  BY <1>2, <1>3, <1>4 DEF EnsureLabels, Takes
<1>5. CASE EnsureFinalizers(f)
  BY <1>2, <1>3, <1>5 DEF EnsureFinalizers, Takes
<1>6. CASE PatchDefaults(f)
  BY <1>2, <1>3, <1>6 DEF PatchDefaults, Takes
<1>7. CASE BeginEdge(f)
  BY <1>7 DEF BeginEdge, objects, SpecStays
<1>8. CASE FinalizeEdge(f)
  BY <1>1, <1>8 DEF FinalizeEdge, Release, Forget, SpecStays
<1>9. QED BY <1>4, <1>5, <1>6, <1>7, <1>8 DEF ReconcileEdge

\* Marking an edge changes nothing of its spec.
LEMMA MarksLeaveSpec ==
  ASSUME TreeTypeOK, NEW f \in Edge, edge[f] # Absent, NEW e \in Edge,
         \/ edge' = [edge EXCEPT ![f].deleting = TRUE]
         \/ edge' = [edge EXCEPT ![f].foreground = FALSE]
         \/ \E foreground \in BOOLEAN :
              edge' = [edge EXCEPT ![f].deleting = TRUE,
                                   ![f].foreground = @ /\ foreground]
  PROVE  SpecStays(e)
<1>1. edge \in [Edge -> Maybe(EdgeObject)] /\ edge[f] \in EdgeObject
  BY DEF TreeTypeOK, Maybe
<1>2. CASE e # f
  BY <1>1, <1>2 DEF SpecStays
<1>3. CASE e = f
  <2>1. \A o \in EdgeObject, g \in BOOLEAN :
          /\ [o EXCEPT !.deleting = TRUE].spec = o.spec
          /\ [o EXCEPT !.foreground = FALSE].spec = o.spec
          /\ [o EXCEPT !.deleting = TRUE, !.foreground = g].spec = o.spec
    BY DEF EdgeObject
  <2>2. edge'[f].spec = edge[f].spec
    BY <1>1, <2>1 DEF EdgeObject
  <2>3. QED BY <1>3, <2>2 DEF SpecStays
<1>4. QED BY <1>2, <1>3

LEMMA OthersLeaveSpec ==
  ASSUME TreeTypeOK, NEW e \in Edge,
         \/ Controllers \/ Mishaps \/ ApplyProvider
         \/ \E foreground \in BOOLEAN : DeleteProvider(foreground)
         \/ \E f \in Edge, foreground \in BOOLEAN : DeleteEdge(f, foreground)
         \/ \E f \in Edge, s \in Specs : f # e /\ ApplyEdge(f, s)
  PROVE  SpecStays(e)
<1>0. edge \in [Edge -> Maybe(EdgeObject)]
  BY DEF TreeTypeOK
<1>1. ASSUME UNCHANGED edge PROVE SpecStays(e)
  BY <1>1 DEF SpecStays
<1>2. ASSUME NEW f \in Edge, Edges(f) PROVE SpecStays(e)
  <2>1. CASE ReconcileEdge(f)
    BY <2>1, ReconcileLeavesSpec
  <2>2. CASE CollectEdge(f) \/ CollectorReleasesEdge(f)
    BY <2>2, MarksLeaveSpec DEF CollectEdge, CollectorReleasesEdge
  <2>3. QED BY <1>2, <2>1, <2>2 DEF Edges
<1>3. ASSUME NEW k \in Pool, Grows(k) \/ Shrinks(k) \/ Falters(k) PROVE SpecStays(e)
  BY <1>1, <1>3 DEF Grows, GuardPool, AddWorker, StartPod, PodBuys, Shrinks, CollectPool,
       CollectorReleasesPool, PoolGone, CollectWorker, ReturnMachine, ReleaseWorker,
       Falters, ReturnFails, OutputsFlake, DeleteNode, WorkerGone, objects
<1>4. ASSUME EdgeRound \/ ProviderRound \/ CollectorReleasesProvider \/ Watches \/ Mishaps
      PROVE  SpecStays(e)
  BY <1>1, <1>4 DEF EdgeRound, ReconRegion, PoolsMatch, UpdatePools, Applies, ProviderRound,
       GuardProvider, ListEdges, DeleteSecret, ReleaseProvider, EndEdge,
       CollectorReleasesProvider, Watches, Watch, DeliverProvider, DeliverEdges,
       DeliverPools, DeliverWorkers, DeliverSecret, Mishaps, UpdateFails, Crash, objects
<1>5. ASSUME ApplyProvider \/ (\E foreground \in BOOLEAN : DeleteProvider(foreground))
      PROVE  SpecStays(e)
  BY <1>1, <1>5 DEF ApplyProvider, DeleteProvider, Users
<1>6. ASSUME NEW f \in Edge, NEW foreground \in BOOLEAN, DeleteEdge(f, foreground)
      PROVE  SpecStays(e)
  <2>1. CASE edge[f].stage = "guarded"
    BY <1>6, <2>1, MarksLeaveSpec DEF DeleteEdge, Users
  <2>2. CASE edge[f].stage # "guarded"
    BY <1>0, <1>6, <2>2 DEF DeleteEdge, Users, Forget, SpecStays
  <2>3. QED BY <2>1, <2>2
<1>7. ASSUME NEW f \in Edge, NEW s \in Specs, f # e, ApplyEdge(f, s)
      PROVE  SpecStays(e)
  BY <1>0, <1>7 DEF ApplyEdge, Users, SpecStays
<1>8. QED BY <1>2, <1>3, <1>4, <1>5, <1>6, <1>7 DEF Controllers

\* What is obeyed stays obeyed.
LEMMA StaysObeyed ==
  ASSUME NEW e \in Edge, NEW message, Obeys(e, message), SpecStays(e)
  PROVE  Obeys(e, message)'
BY DEF Obeys, SpecStays
\* A message that the agent has not executed yet in this pass is not the last
\* one about the edge of a message behind it.
LEMMA LastWordStep ==
  ASSUME AgentTyped, TreeTypeOK, LastWordKept, Next
  PROVE  LastWordKept'
<1>0. /\ log \in Seq(Message) /\ position \in Nat /\ tries \in Nat /\ mishaps \in Nat
      /\ Len(log) \in Nat /\ MaxRetries \in Nat
  BY AgentAssumption DEF AgentTyped
<1>1. log' = log
  BY DEF Next, Work, Mishap, AgentSteps, AgentApplies, AgentDeletes, AgentReturns,
         AgentFindsNothing, AgentFails, AgentRejoins, Cascade, Returns, Hangs,
         GivesUp, Commit, Rejoin, agent
<1>. SUFFICES ASSUME mishaps' < MaxRetries, NEW e \in Edge, NEW i \in 1 .. Len(log),
                     Latest(e, i), TookEffect(i)'
              PROVE  Obeys(e, log[i])'
  BY <1>1 DEF LastWordKept, Latest, About
<1>2. /\ log[i] # Broken /\ log[i].target = e
      /\ \A j \in 1 .. Len(log) : log[j] # Broken /\ log[j].target = e => j <= i
  BY DEF Latest, About
<1>3. ASSUME mishaps < MaxRetries, TookEffect(i), SpecStays(e)
      PROVE  Obeys(e, log[i])'
  <2>1. Obeys(e, log[i])
    BY <1>3 DEF LastWordKept
  <2>2. QED BY <1>1, <1>3, <2>1 DEF Obeys, SpecStays
<1>4. ASSUME UNCHANGED tree PROVE SpecStays(e) /\ UNCHANGED edge
  BY <1>4 DEF tree, objects, SpecStays
\* The present message is about the edge, and the edge is now as it says.
<1>. DEFINE AboutIt == Current # Broken /\ Current.target = e
            Obeyed == IF Current.verb = "apply"
                      THEN edge'[e] # Absent => edge'[e].spec = Current.spec
                      ELSE edge'[e] = Absent
\* A try of the present message that was not in vain.
<1>5. ASSUME Processing \/ waiting, Returns, UNCHANGED mishaps,
             AboutIt => Obeyed, ~AboutIt => SpecStays(e)
      PROVE  Obeys(e, log[i])'
  <2>1. position < Len(log) /\ position + 1 \in 1 .. Len(log)
    BY <1>0, <1>5 DEF Processing, AgentTyped
  <2>2. CASE position = i - 1
    <3>1. Current = log[i]
      BY <2>2 DEF Current
    <3>2. Obeyed
      BY <1>2, <1>5, <3>1
    <3>3. QED BY <1>1, <3>1, <3>2 DEF Obeys
  <2>3. CASE position # i - 1
    <3>1. position >= i
      BY <1>0, <1>5, <2>3 DEF TookEffect, Returns
    <3>2. ~AboutIt
      BY <1>0, <1>2, <1>5, <2>1, <3>1 DEF Current
    <3>3. QED BY <1>3, <1>5, <3>1, <3>2 DEF TookEffect
  <2>4. QED BY <2>2, <2>3
<1>6. CASE AgentApplies /\ UNCHANGED mishaps
  <2>1. Current \in Message /\ Current # Broken /\ Current.verb = "apply"
    BY <1>6, CurrentMessage DEF AgentApplies, Carries
  <2>2. \/ Current = Apply(Provider, Absent)
        \/ \E f \in Edge, s \in Specs : Current = Apply(f, s)
    BY <2>1, InfraAssumption DEF Apply, Delete
  <2>3. Current.target # e => SpecStays(e)
    <3>1. CASE Current.target = Provider
      BY <1>6, <3>1, OthersLeaveSpec DEF AgentApplies
    <3>2. CASE Current.target \in Edge /\ Current.spec \in Specs /\ Current.target # Provider
      BY <1>6, <3>2, OthersLeaveSpec DEF AgentApplies
    <3>3. QED BY <2>2, <3>1, <3>2, InfraAssumption DEF Apply
  <2>4. ASSUME Current.target = e PROVE Obeyed
    <3>1. e # Provider /\ Current.spec \in Specs
      BY <2>2, <2>4, InfraAssumption DEF Apply
    <3>2. ApplyEdge(e, Current.spec)
      BY <1>6, <2>4, <3>1 DEF AgentApplies
    <3>3. edge'[e].spec = Current.spec
      <4>1. edge \in [Edge -> Maybe(EdgeObject)]
        BY DEF TreeTypeOK
      <4>2. \A o \in EdgeObject, s \in Specs : [o EXCEPT !.spec = s].spec = s
        BY DEF EdgeObject
      <4>3. QED BY <3>1, <3>2, <4>1, <4>2 DEF ApplyEdge, Users, Maybe
    <3>4. QED BY <2>1, <3>3
  <2>5. QED BY <1>5, <1>6, <2>1, <2>3, <2>4 DEF AgentApplies
<1>7. CASE AgentDeletes /\ UNCHANGED mishaps
  <2>1. /\ Current \in Message /\ Current # Broken /\ Current.verb = "delete"
        /\ Processing
    BY <1>7, CurrentMessage DEF AgentDeletes, Carries
  <2>2. Current.target \in Edge \cup {Provider}
    BY <2>1, InfraAssumption DEF Apply, Delete
  <2>3. Current.target # e => SpecStays(e)
    <3>1. CASE Current.target = Provider
      BY <1>7, <3>1, OthersLeaveSpec DEF AgentDeletes
    <3>2. CASE Current.target \in Edge /\ Current.target # Provider
      BY <1>7, <3>2, OthersLeaveSpec DEF AgentDeletes
    <3>3. QED BY <2>2, <3>1, <3>2
  <2>4. Current.target = e => SpecStays(e)
    <3>1. e # Provider
      BY InfraAssumption
    <3>2. QED BY <1>7, <3>1, OthersLeaveSpec DEF AgentDeletes
  <2>5. CASE Hangs
    BY <1>3, <1>7, <2>3, <2>4, <2>5 DEF Hangs, TookEffect
  <2>6. CASE Returns /\ ~Remains(Current.target)
    <3>1. Current.target = e => Obeyed
      BY <2>1, <2>6, InfraAssumption DEF Remains
    <3>2. QED BY <1>5, <1>7, <2>1, <2>3, <2>6, <3>1
  <2>7. QED BY <1>7, <2>5, <2>6 DEF AgentDeletes
\* The object is gone, or was not there.
<1>8. CASE (AgentReturns \/ AgentFindsNothing) /\ UNCHANGED mishaps
  <2>1. /\ Processing \/ waiting
        /\ Returns /\ ~Stored(Current.target) /\ UNCHANGED tree
    BY <1>8 DEF AgentReturns, AgentFindsNothing
  <2>2. Current.target = e => Obeyed
    BY <1>4, <2>1, InfraAssumption DEF Stored
  <2>3. QED BY <1>4, <1>5, <1>8, <2>1, <2>2
\* A try that fails counts as a mishap, too.
<1>9. CASE AgentFails /\ mishaps' = mishaps + 1
  <2>1. position' = position /\ tries' = tries + 1 /\ UNCHANGED tree
    BY <1>9 DEF AgentFails, Returns
  <2>2. TookEffect(i) /\ mishaps < MaxRetries
    BY <1>0, <1>9, <2>1 DEF TookEffect
  <2>3. QED BY <1>3, <1>4, <2>1, <2>2
\* A new pass.
<1>10. CASE AgentRejoins /\ mishaps' = mishaps + 1
  <2>1. position' \in 0 .. position /\ tries' = 0 /\ UNCHANGED tree
    BY <1>10 DEF AgentRejoins, Rejoin
  <2>2. TookEffect(i) /\ mishaps < MaxRetries
    BY <1>0, <1>10, <2>1 DEF TookEffect
  <2>3. QED BY <1>3, <1>4, <2>1, <2>2
<1>11. CASE GivesUp /\ UNCHANGED <<tree, mishaps>>
  <2>1. position' = position /\ Current = Broken
    BY <1>11 DEF GivesUp
  <2>2. position # i - 1
    BY <1>0, <1>2, <2>1 DEF Current
  <2>3. TookEffect(i)
    BY <2>1, <2>2 DEF TookEffect
  <2>4. QED BY <1>3, <1>4, <1>11, <2>3
<1>12. CASE Commit /\ UNCHANGED <<tree, mishaps>>
  <2>1. position' = position + 1 /\ tries' = 0 /\ tries = MaxRetries
    BY <1>12 DEF Commit
  <2>2. TookEffect(i)
    BY <1>0, <1>12, <2>1 DEF TookEffect
  <2>3. QED BY <1>3, <1>4, <1>12, <2>2
<1>13. CASE /\ Controllers \/ Mishaps \/ Cascade
            /\ UNCHANGED agent /\ mishaps' \in {mishaps, mishaps + 1}
  <2>1. SpecStays(e)
    BY <1>13, OthersLeaveSpec DEF Cascade
  <2>2. TookEffect(i) /\ mishaps < MaxRetries
    BY <1>0, <1>13 DEF TookEffect, agent
  <2>3. QED BY <1>3, <2>1, <2>2
<1>14. QED
  BY <1>6, <1>7, <1>8, <1>9, <1>10, <1>11, <1>12, <1>13
     DEF Next, Work, Mishap, AgentSteps, Cascade

\* However often the agent is restarted and executes old messages again: once
\* it has read the partition, an edge has the spec of the last message about
\* it, and is not there when that message deletes it, unless more went wrong
\* than a message has tries (readMessages, agent/internal/app/main.go:47-79).
THEOREM LastWordHolds == Spec => []LastWord
<1>1. Init => LastWordKept
  <2>. SUFFICES ASSUME Init, NEW i \in 1 .. Len(log), TookEffect(i) PROVE FALSE
    BY DEF LastWordKept
  <2>1. position = 0 /\ tries = 0 /\ mishaps = 0 /\ Len(log) \in Nat
    BY AgentAssumption DEF Init, AgentInit
  <2>2. QED BY <2>1 DEF TookEffect
<1>2. AgentTyped /\ TreeTypeOK /\ LastWordKept /\ [Next]_vars => LastWordKept'
  <2>1. LastWordKept /\ UNCHANGED vars => LastWordKept'
    BY DEF vars, tree, objects, agent, LastWordKept, Latest, About, TookEffect, Obeys
  <2>2. QED BY <2>1, LastWordStep
<1>3. AgentTyped /\ LastWordKept => LastWord
  <2>. SUFFICES ASSUME AgentTyped, position = Len(log)
                PROVE  \A i \in 1 .. Len(log) : TookEffect(i)
    BY DEF LastWordKept, LastWord
  <2>1. Len(log) \in Nat
    BY AgentAssumption DEF AgentTyped
  <2>2. QED BY <2>1 DEF TookEffect
<1>4. QED
  BY <1>1, <1>2, <1>3, AgentTypedInit, AgentTypedStep, Composes, TreeTypeCorrect,
     PTL DEF Spec
===============================================================================
