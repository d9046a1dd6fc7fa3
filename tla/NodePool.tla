------------------------------- MODULE NodePool -------------------------------
(***************************************************************************)
(* The node pools of one edge (controllers/infra/nodepool_controller.go).  *)
(*                                                                         *)
(* One worker of the manager reconciles the pools one at a time.  It lists *)
(* the worker nodes of the edge from an informer cache that lags behind    *)
(* the API server, asks rcalculate for one action, and writes it.  What it *)
(* wrote comes back as a watch event, which is what wakes the pool again.  *)
(* The worker-node controller, the garbage collector and the owner of the  *)
(* edge act on the same objects in between.                                *)
(***************************************************************************)
EXTENDS Rcalculate, NodeIndex, Sequences, Functions

CONSTANTS Pool,         \* the pools of the edge
          Name,         \* the names of worker nodes (uuids)
          MemoryOf,     \* [Pool -> Nat]: the memory of the pool's instance type
          Bounds,       \* the [min, max] a pool's spec can have
          Usages,       \* the [totalUsed, statefulUsed] of the edge's pods
          MaxLag,       \* how many events behind a listing can be
          Interference  \* what may happen besides reconciling, see below

\* "load": pods come and go; "edit": min and max are edited; "delete_worker",
\* "delete_pool": kubectl delete; "fail": kubectl or the instance-details map
\* is unavailable; "crash": the manager restarts.
Disturbances ==
  {"load", "edit", "delete_worker", "delete_pool", "fail", "crash"}

ASSUME NodePoolAssumption ==
  /\ MemoryOf \in [Pool -> Nat]
  /\ Bounds \subseteq [min : Nat, max : Nat]
  /\ MaxLag \in Nat
  /\ Interference \subseteq Disturbances

VARIABLES
  worker,   \* API server: name -> worker node
  cache,    \* the informer's copy of worker
  events,   \* the states of worker the watch has still to deliver, oldest first
  spec,     \* pool -> its Spec.Min and Spec.Max
  phase,    \* pool -> "live", "deleting" (deletionTimestamp set) or "gone"
  blocked,  \* pools that still carry the garbage collector's finalizer
  synced,   \* pools whose status has WorkerNodesReady = true, this generation
  queue,    \* pools waiting in the workqueue
  timer,    \* pools with a RequeueAfter pending
  usage,    \* what the pods of the edge request
  rc        \* the reconcile in progress

k8s  == <<spec, phase, blocked, usage>>
vars == <<worker, cache, events, spec, phase, blocked, synced, queue, timer,
          usage, rc>>

WorkerNode == [pool : Pool, index : Nat, memory : Nat,
               stateful : BOOLEAN, deleting : BOOLEAN]

\* Worker nodes by name.
IsFleet(w) == /\ DOMAIN w \subseteq Name
              /\ IsFiniteSet(DOMAIN w)
              /\ w \in [DOMAIN w -> WorkerNode]

IsBacklog(s) == s \in Seq(Range(s)) /\ \A w \in Range(s) : IsFleet(w)

Idle == [step |-> "idle"]

Present == {p \in Pool : phase[p] # "gone"}

Init ==
  /\ worker = <<>> /\ cache = <<>> /\ events = <<>>
  /\ spec \in [Pool -> Bounds]
  /\ phase \in [Pool -> {"live", "gone"}]
  /\ blocked = Present
  /\ synced = {} /\ queue = Present /\ timer = {}
  /\ usage \in Usages
  /\ rc = Idle

-------------------------------------------------------------------------------
(***************************************************************************)
(* Writes and wake-ups.                                                    *)
(***************************************************************************)

\* The API server now holds w, and the watch will say so.
Write(w) == worker' = w /\ events' = Append(events, w)

NoWrite == UNCHANGED <<worker, events>>

\* An event about the pool itself puts it in the queue.
Wake(p) == queue' = queue \cup {p}

\* Done() and CheckFailed() end a reconcile with a status write and without a
\* requeue.  The write stamps LastReconcileTime in whole seconds: in the same
\* second it can be identical to the last one, and then there is no event.
PerhapsWake(p) == Wake(p) \/ UNCHANGED queue

Finish == rc' = Idle

\* CheckFailed(WorkerNodesReady, ..): the check turns false, which is an event
\* for sure when it was true before.
CheckFailed(p) ==
  /\ synced' = synced \ {p}
  /\ IF p \in synced THEN Wake(p) ELSE PerhapsWake(p)
  /\ UNCHANGED <<cache, timer, k8s>>
  /\ NoWrite
  /\ Finish

\* Done() after a write to a worker node.
Done(p) ==
  /\ PerhapsWake(p)
  /\ UNCHANGED <<cache, synced, timer, k8s>>
  /\ Finish

\* The end of a round that found, or just made, the fleet right: the first
\* time the check is recorded, and either that write or the conflict it meets
\* when the round's copy of the pool is out of date wakes the pool; then the
\* pool comes back after the reconciliation period.
InSync(p) ==
  /\ \/ p \in synced /\ timer' = timer \cup {p} /\ UNCHANGED synced /\ PerhapsWake(p)
     \/ p \notin synced /\ synced' \in {synced, synced \cup {p}} /\ Wake(p) /\ UNCHANGED timer
  /\ UNCHANGED <<cache, k8s>>
  /\ Finish

-------------------------------------------------------------------------------
(***************************************************************************)
(* Reconcile(p): take the pool, list the edge's worker nodes, act.         *)
(***************************************************************************)
\* Mutant: the test of the deletionTimestamp is missing.
BeginScaling(p) ==
  /\ rc.step = "idle"
  /\ p \in queue
  /\ Len(events) <= MaxLag
  /\ queue' = queue \ {p}
  /\ rc' = [step |-> "act", pool |-> p, bounds |-> spec[p], view |-> cache]
  /\ UNCHANGED <<worker, cache, events, synced, timer, k8s>>

Begin(p) ==
  /\ rc.step = "idle"
  /\ p \in queue
  /\ Len(events) <= MaxLag
  /\ queue' = queue \ {p}
  /\ rc' = [step |-> IF phase[p] = "live" THEN "act" ELSE "finalize",
            pool |-> p, bounds |-> spec[p], view |-> cache]
  /\ UNCHANGED <<worker, cache, events, synced, timer, k8s>>

\* The pool the worker is busy with, for an action of step s.
At(s, p) == rc.step = s /\ rc.pool = p

Input(first) ==
  [nodes |-> rc.view, first |-> first,
   min |-> rc.bounds.min, max |-> rc.bounds.max,
   totalUsed |-> usage.totalUsed, statefulUsed |-> usage.statefulUsed]

\* Whichever listed node comes first; a listing of nothing has no first node.
Decides(action) ==
  IF rc.view = <<>> THEN Calculate(Input("none")) = action
  ELSE \E first \in DOMAIN rc.view : Calculate(Input(first)) = action

Indices(nodes) == {nodes[n].index : n \in DOMAIN nodes}

\* A uuid is new: no object, no copy of one and no event bears it.
Fresh(n) ==
  /\ n \notin DOMAIN worker \cup DOMAIN cache \cup DOMAIN rc.view
  /\ \A i \in 1 .. Len(events) : n \notin DOMAIN events[i]

NewWorker(p) ==
  [pool |-> p, index |-> FreeIndex(Indices(rc.view), Cardinality(DOMAIN rc.view)),
   memory |-> MemoryOf[p], stateful |-> FALSE, deleting |-> FALSE]

AddNode(p) ==
  /\ At("act", p)
  /\ Decides("ADD_NODE")
  /\ \E n \in Name :
       /\ Fresh(n)
       /\ Write([m \in DOMAIN worker \cup {n} |->
                   IF m = n THEN NewWorker(p) ELSE worker[m]])
  /\ Done(p)

Marked(n) == [worker EXCEPT ![n].deleting = TRUE]

\* Mutant: terminating nodes count, but are skipped when one is picked.
DeleteLastStaying(p) ==
  /\ At("act", p)
  /\ Decides("DEL_NODE")
  /\ LET staying == {n \in DOMAIN rc.view : ~rc.view[n].deleting} IN
     \E n \in staying \cap DOMAIN worker :
       /\ \A m \in staying : rc.view[m].index <= rc.view[n].index
       /\ Write(Marked(n))
       /\ Done(p)

\* Deletes one of the listed nodes with the largest index, whoever owns it.
DeleteNode(p) ==
  /\ At("act", p)
  /\ Decides("DEL_NODE")
  /\ \E n \in DOMAIN rc.view :
       /\ rc.view[n].index = LastIndex(Indices(rc.view))
       /\ \/ n \notin DOMAIN worker /\ CheckFailed(p)
          \/ /\ n \in DOMAIN worker
             /\ IF worker[n].deleting THEN NoWrite ELSE Write(Marked(n))
             /\ Done(p)

\* Tags the listed node whose index is the number of stateful nodes, if there
\* is one.  CreateOrUpdate reads it again from the cache; its update is lost
\* when the copy is out of date, and the error is dropped.
AddStateful(p) ==
  /\ At("act", p)
  /\ Decides("ADD_STATEFUL")
  /\ \/ /\ \A n \in DOMAIN rc.view :
              rc.view[n].index # StatefulCount(rc.view)
        /\ NoWrite
     \/ \E n \in DOMAIN rc.view :
          /\ rc.view[n].index = StatefulCount(rc.view)
          /\ \/ NoWrite
             \/ /\ n \in DOMAIN worker \cap DOMAIN cache
                /\ cache[n] = worker[n]
                /\ ~worker[n].stateful
                /\ Write([worker EXCEPT ![n].stateful = TRUE])
  /\ InSync(p)

Neutral(p) ==
  /\ At("act", p)
  /\ Decides("NEUTRAL")
  /\ NoWrite
  /\ InSync(p)

\* Listing, the instance-details map or one of the two kubectl calls failed.
ReconFails(p) ==
  /\ "fail" \in Interference
  /\ At("act", p)
  /\ CheckFailed(p)

Act(p) == \/ AddNode(p) \/ DeleteNode(p) \/ AddStateful(p) \/ Neutral(p)

Release(p) ==
  /\ phase' = [phase EXCEPT ![p] = "gone"]
  /\ blocked' = blocked \ {p}
  /\ queue' = queue \ {p} /\ timer' = timer \ {p}
  /\ UNCHANGED <<cache, synced, spec, usage>>
  /\ Finish

\* Mutant: the wait is forgotten.
FinalizeAtOnce(p) ==
  At("finalize", p) /\ NoWrite /\ Release(p)

\* A pool being deleted waits until the edge has no worker node left.
Finalize(p) ==
  /\ At("finalize", p)
  /\ NoWrite
  /\ IF rc.view # <<>> THEN Done(p) ELSE Release(p)

\* The listing fails, or the update that takes the finalizers off is refused
\* because the pool has changed since the round read it.
FinalizeFails(p) ==
  /\ "fail" \in Interference
  /\ At("finalize", p)
  /\ NoWrite
  /\ Done(p)

-------------------------------------------------------------------------------
(***************************************************************************)
(* The watch, the timers, and the other actors.                            *)
(***************************************************************************)

\* The owners of the worker nodes that differ between two fleets.
Owners(old, new) ==
  {old[n].pool : n \in {m \in DOMAIN old :
                          m \notin DOMAIN new \/ old[m] # new[m]}}
  \cup
  {new[n].pool : n \in {m \in DOMAIN new :
                          m \notin DOMAIN old \/ old[m] # new[m]}}

\* Owns(WorkerNode): an event about a worker node wakes the pool that owns it.
\* The events about Pods and Nodes are mapped to the name of the edge, which
\* is no pool's name: they wake nobody.
Deliver ==
  /\ events # <<>>
  /\ cache' = Head(events)
  /\ events' = Tail(events)
  /\ queue' = queue \cup (Owners(cache, cache') \cap Present)
  /\ UNCHANGED <<worker, synced, timer, k8s, rc>>

Expire(p) ==
  /\ p \in timer
  /\ Wake(p)
  /\ timer' = timer \ {p}
  /\ UNCHANGED <<worker, cache, events, synced, k8s, rc>>

\* The informer's periodic resync (ten hours) wakes everybody.
Resync ==
  /\ queue' = Present
  /\ UNCHANGED <<worker, cache, events, synced, timer, k8s, rc>>

\* The worker-node controller has released a deleted worker node.
WorkerGone(n) ==
  /\ n \in DOMAIN worker
  /\ worker[n].deleting
  /\ Write(Restrict(worker, DOMAIN worker \ {n}))
  /\ UNCHANGED <<cache, synced, queue, timer, k8s, rc>>

\* The worker-node controller writes the status of one of its objects.
WorkerStatus(n) ==
  /\ n \in DOMAIN worker
  /\ queue' = queue \cup ({worker[n].pool} \cap Present)
  /\ UNCHANGED <<worker, cache, events, synced, timer, k8s, rc>>

\* The garbage collector deletes the worker nodes of a pool that is gone, or
\* that carries its finalizer while it is being deleted...
CollectWorker(n) ==
  /\ n \in DOMAIN worker
  /\ ~worker[n].deleting
  /\ LET p == worker[n].pool IN
     phase[p] = "gone" \/ (phase[p] = "deleting" /\ p \in blocked)
  /\ Write(Marked(n))
  /\ UNCHANGED <<cache, synced, queue, timer, k8s, rc>>

\* ... and takes its finalizer off the pool when they are gone.
CollectorReleases(p) ==
  /\ phase[p] = "deleting"
  /\ p \in blocked
  /\ \A n \in DOMAIN worker : worker[n].pool # p
  /\ blocked' = blocked \ {p}
  /\ Wake(p)
  /\ UNCHANGED <<worker, cache, events, spec, phase, synced, timer, usage, rc>>

LoadChanges ==
  /\ "load" \in Interference
  /\ usage' \in Usages
  /\ UNCHANGED <<worker, cache, events, spec, phase, blocked, synced, queue,
                 timer, rc>>

EditPool(p) ==
  /\ "edit" \in Interference
  /\ phase[p] = "live"
  /\ \E b \in Bounds : spec' = [spec EXCEPT ![p] = b]
  /\ synced' = synced \ {p}
  /\ Wake(p)
  /\ UNCHANGED <<worker, cache, events, phase, blocked, timer, usage, rc>>

\* The garbage collector, on behalf of the edge, deletes a pool in the
\* foreground; kubectl delete asks for the background, and the API server
\* takes the garbage collector's finalizer off.
DeletePool(p) ==
  /\ "delete_pool" \in Interference
  /\ phase[p] = "live"
  /\ phase' = [phase EXCEPT ![p] = "deleting"]
  /\ blocked' \in {blocked, blocked \ {p}}
  /\ Wake(p)
  /\ UNCHANGED <<worker, cache, events, spec, synced, timer, usage, rc>>

DeleteWorker(n) ==
  /\ "delete_worker" \in Interference
  /\ n \in DOMAIN worker
  /\ ~worker[n].deleting
  /\ Write(Marked(n))
  /\ UNCHANGED <<cache, synced, queue, timer, k8s, rc>>

\* The manager dies and comes back with a fresh cache and every pool queued.
Crash ==
  /\ "crash" \in Interference
  /\ cache' = worker /\ events' = <<>>
  /\ queue' = Present /\ timer' = {}
  /\ Finish
  /\ UNCHANGED <<worker, synced, k8s>>

Reconcile(p) == Begin(p) \/ Act(p) \/ Finalize(p)

Outside ==
  \/ LoadChanges
  \/ \E p \in Pool : \/ EditPool(p) \/ DeletePool(p)
                     \/ ReconFails(p) \/ FinalizeFails(p)
  \/ \E n \in Name : DeleteWorker(n)
  \/ Crash

Inside ==
  \/ \E p \in Pool : Reconcile(p) \/ Expire(p) \/ CollectorReleases(p)
  \/ \E n \in Name : WorkerGone(n) \/ CollectWorker(n) \/ WorkerStatus(n)
  \/ Deliver
  \/ Resync

Next == Inside \/ Outside

Spec == Init /\ [][Next]_vars

\* Everybody keeps working: the watch delivers, timers expire, the workqueue
\* is first-in-first-out, deleted worker nodes are released in the end, the
\* garbage collector does its rounds.
Fairness ==
  /\ WF_vars(Deliver)
  /\ \A p \in Pool : /\ SF_vars(Begin(p)) /\ WF_vars(Act(p))
                     /\ WF_vars(Finalize(p)) /\ WF_vars(Expire(p))
                     /\ WF_vars(CollectorReleases(p))
  /\ \A n \in Name : WF_vars(WorkerGone(n)) /\ WF_vars(CollectWorker(n))

\* From some moment on nothing but the controllers acts.
Calm == <>[][Inside]_vars

CalmSpec == Spec /\ Fairness /\ Calm

\* The informer's resync is the last resort for wake-ups that were lost.
Resyncs == WF_vars(Resync)

-------------------------------------------------------------------------------
TypeOK ==
  /\ IsFleet(worker) /\ IsFleet(cache)
  /\ IsBacklog(events)
  /\ spec \in [Pool -> Bounds]
  /\ phase \in [Pool -> {"live", "deleting", "gone"}]
  /\ blocked \subseteq Pool /\ synced \subseteq Pool
  /\ queue \subseteq Pool /\ timer \subseteq Pool
  /\ usage \in Usages
  /\ \/ rc = Idle
     \/ /\ rc \in [step : {"act", "finalize"}, pool : Pool,
                   bounds : Bounds, view : {rc.view}]
        /\ IsFleet(rc.view)

\* A stale listing makes the pool create nodes it already has, but no more
\* than the listing was behind: the fleet exceeds the largest Spec.Max by at
\* most MaxLag nodes (nodepool_controller.go:199 lists, :299 creates).
Overshoot ==
  \/ DOMAIN worker = {}
  \/ \E b \in Bounds : Cardinality(DOMAIN worker) <= b.max + MaxLag

\* No index is given twice, but for the nodes that a listing was too old to
\* show: at most MaxLag + 1 worker nodes share one, a single one when listings
\* are up to date, whatever is deleted between listing and creation (317-332).
FewShareIndex ==
  \A n \in DOMAIN worker :
     Cardinality({m \in DOMAIN worker : worker[m].index = worker[n].index})
       <= MaxLag + 1

Orphans == {n \in DOMAIN worker : phase[worker[n].pool] = "gone"}

\* A pool is released when it sees no worker node (finalize, 105-153); those
\* it leaves behind are the few a listing was too old to show, none when
\* listings are up to date, however many pools are released one after another.
FewOrphans == Cardinality(Orphans) <= MaxLag

Staying(w) == {n \in DOMAIN w : ~w[n].deleting}

\* Downscaling never goes below the least Spec.Min a pool can have, although
\* terminating nodes still count as nodes (lines 341-371): the node that is
\* deleted again and again until it is gone is one and the same.  The round's
\* own Spec.Min is not kept when it was raised while a node terminates.
FloorKept ==
  [][\A p \in Pool : DeleteNode(p) =>
        \/ Staying(worker') = Staying(worker)
        \/ \E b \in Bounds : Cardinality(Staying(worker')) >= b.min
    ]_vars

Least(a, b) == IF a < b THEN a ELSE b

\* Once the edge is left alone every live pool sees at least Spec.Min nodes
\* (or Spec.Max, if that is less), for good.
ReachesMin ==
  Resyncs =>
    \A p \in Pool :
      <>[](phase[p] = "live" =>
             Cardinality(Staying(worker)) >= Least(spec[p].min, spec[p].max))

\* Once the edge is left alone the fleet stops changing.
Settles == <>[][UNCHANGED worker]_vars

\* A worker node that nobody deletes any more: its pool is being deleted, but
\* the garbage collector is not, or no longer, at work on it.
Overtaken(n) ==
  /\ n \in DOMAIN worker /\ ~worker[n].deleting
  /\ phase[worker[n].pool] = "deleting" /\ worker[n].pool \notin blocked

\* When all pools of the edge are deleted in the foreground they all go away
\* in the end, although each waits for the worker nodes of the others (125),
\* unless a round under way created a worker node after the garbage collector
\* had looked for the last one.
PoolsGo ==
  Resyncs =>
    ((\A p \in Pool : \/ phase[p] = "gone"
                      \/ phase[p] = "deleting" /\ p \in blocked)
       ~> \/ \A p \in Pool : phase[p] = "gone"
          \/ \E n \in Name : Overtaken(n))
===============================================================================
