------------------------------ MODULE WorkerNode ------------------------------
(***************************************************************************)
(* One worker node (controllers/infra/workernode_controller.go): a machine *)
(* that a create Job buys with terraform, that an ssh command joins to the *)
(* cluster, and that a delete Job gives back.                              *)
(*                                                                         *)
(* A reconcile is a sequence of reads and writes, and between any two of   *)
(* them the Jobs' pods, the garbage collector, the pool that owns the      *)
(* worker node and the cluster go on.  Jobs and Nodes are read from        *)
(* informer caches, the terraform outputs from the bucket itself.          *)
(***************************************************************************)
EXTENDS Naturals

CONSTANTS MaxPods,      \* how many create pods the cluster runs at a time
          Interference  \* what may happen besides reconciling, see below

\* "tag": the pool makes the node stateful; "delete": the worker node is
\* deleted; "terraform": reading the outputs fails although there are some;
\* "kubectl": applying or deleting a Job fails; "ssh": joining fails;
\* "pod_fail": a Job fails for good; "crash": the manager restarts.
Disturbances ==
  {"tag", "delete", "terraform", "kubectl", "ssh", "pod_fail", "crash"}

ASSUME WorkerNodeAssumption ==
  MaxPods \in Nat \ {0} /\ Interference \subseteq Disturbances

VARIABLES
  phase,      \* the object: "live", "deleting" (deletionTimestamp) or "gone"
  stateful,   \* Spec.Stateful
  prologue,   \* what has still to be written before the first real round
  foreground, \* the garbage collector's finalizer is on the object
  ready,      \* the checks recorded true for this generation
  queued,     \* the worker node waits in the workqueue
  timer,      \* a RequeueAfter is pending
  rc,         \* the reconcile in progress
  job,        \* the Job create-node-<name>
  orphans,    \* running create pods whose Job has been deleted
  delJob,     \* the Job delete-node-<name>
  machine,    \* the machine exists and terraform has outputs for it
  agent,      \* the k3s agent on it: "none", "installing" or "joined"
  node,       \* the cluster's Node, by its label kloudlite.io/stateful-node
  seenJob,    \* the informer's copy of job
  seenNode,   \* the informer's copy of node
  excuse      \* history: what the read that led to the release overlooked

object == <<phase, stateful, prologue, foreground>>
cloud  == <<job, orphans, delJob, machine, agent, node>>
caches == <<seenJob, seenNode>>
vars   == <<object, ready, queued, timer, rc, cloud, caches, excuse>>

Checks == {"created", "attached"}
Idle   == [step |-> "idle"]

Init ==
  /\ phase = "live" /\ stateful = FALSE /\ prologue = "checks" /\ foreground = FALSE
  /\ ready = {} /\ queued = TRUE /\ timer = FALSE /\ rc = Idle
  /\ job = "none" /\ orphans = 0 /\ delJob = "none"
  /\ machine = FALSE /\ agent = "none" /\ node = "absent"
  /\ seenJob = "none" /\ seenNode = "absent"
  /\ excuse = {}

\* What a write of the object or of its status compares with the copy that
\* the round works on.
Version == <<phase, stateful, foreground>>

\* Mutant: a node without state gets no value.
WantedBlank(s) == IF s THEN "stateful" ELSE ""

Wanted(s) == IF s THEN "stateful" ELSE "stateless"

-------------------------------------------------------------------------------
(***************************************************************************)
(* How a step goes on or ends the round.                                   *)
(***************************************************************************)
At(step) == rc.step = step

Finish == rc' = Idle

Goto(step) ==
  /\ rc' = [rc EXCEPT !.step = step]
  /\ UNCHANGED <<ready, queued, timer>>

\* FailWithStatusError(): the error puts the object back in the queue.
Requeue == queued' = TRUE /\ Finish /\ UNCHANGED <<ready, timer>>

Stale == Version # rc.copy

\* CheckFailed(): no requeue.  The status write is an event when it changes
\* the check; else it differs from the last one by LastReconcileTime at most,
\* in whole seconds.  When it meets a conflict the error requeues.
CheckFailed(check) ==
  /\ ready' = IF Stale THEN ready ELSE ready \ {check}
  /\ IF Stale \/ check \in ready THEN queued' = TRUE
     ELSE queued' \in {queued, TRUE}
  /\ Finish
  /\ UNCHANGED timer

\* The check holds.  The first time that is recorded, which ends the round;
\* then the round goes on with what follows.
Record(check) ==
  /\ check \notin rc.ready
  /\ ready' = IF Stale THEN ready ELSE ready \cup {check}
  /\ queued' = TRUE
  /\ Finish
  /\ UNCHANGED timer

Holds(check, follows) == Record(check) \/ (check \in rc.ready /\ follows)

\* The end of Reconcile: again after the reconciliation period.
Complete ==
  /\ IF Stale THEN queued' = TRUE /\ UNCHANGED timer
     ELSE queued' \in {queued, TRUE} /\ timer' = TRUE
  /\ Finish
  /\ UNCHANGED ready

\* The process dies; the new one lists everything and queues every object.
Restart ==
  /\ Finish
  /\ queued' = (phase' # "gone") /\ timer' = FALSE
  /\ seenJob' = job' /\ seenNode' = node'
  /\ UNCHANGED ready

-------------------------------------------------------------------------------
(***************************************************************************)
(* Reconcile: the beginning.                                               *)
(***************************************************************************)

\* EnsureChecks, EnsureLabelsAndAnnotations and EnsureFinalizers: each write
\* ends the round and its event starts the next.
Prologue ==
  /\ At("idle") /\ queued /\ phase = "live"
  /\ \/ prologue = "checks" /\ prologue' = "labels"
     \/ prologue = "labels" /\ prologue' = "finalizers"
     \/ prologue = "finalizers" /\ prologue' = "done"
  /\ foreground' = (prologue = "finalizers")
  /\ UNCHANGED <<phase, stateful, ready, queued, timer, rc, cloud, caches,
                 excuse>>

Begin ==
  /\ At("idle") /\ queued /\ prologue = "done"
  /\ queued' = FALSE
  /\ rc' = [step |-> IF phase = "live" THEN "outputs" ELSE "detach",
            copy |-> Version, stateful |-> stateful, ready |-> ready,
            overlooked |-> {}]
  /\ UNCHANGED <<object, ready, timer, cloud, caches, excuse>>

-------------------------------------------------------------------------------
(***************************************************************************)
(* ensureNodeCreated.                                                      *)
(***************************************************************************)
HasOutputs ==
  /\ At("outputs") /\ machine
  /\ Goto("job")
  /\ UNCHANGED <<object, cloud, caches, excuse>>

NoOutputs ==
  /\ At("outputs") /\ ~machine
  /\ Goto("apply")
  /\ UNCHANGED <<object, cloud, caches, excuse>>

\* createNode: no second Job while the cache shows one, whatever its state.
ApplyCreate ==
  /\ At("apply")
  /\ \/ seenJob # "none" /\ CheckFailed("created") /\ UNCHANGED job
     \/ /\ seenJob = "none"
        /\ job' = IF job = "none" THEN "new" ELSE job
        /\ Goto("job")
  /\ UNCHANGED <<object, orphans, delJob, machine, agent, node, caches, excuse>>

\* The Job the cache shows is deleted: it is supposed to be the finished one,
\* but right after createNode it is the one just applied if the watch was
\* quick.  Deleting a Job of batch/v1 without a policy orphans its pods.
ClearJob ==
  /\ At("job")
  /\ \/ seenJob # "none" /\ job = "none" /\ CheckFailed("created")
     \/ (seenJob # "none" => job # "none") /\ Holds("created", Goto("attach"))
  /\ job' = IF seenJob # "none" THEN "none" ELSE job
  /\ orphans' = IF seenJob # "none" /\ job = "running" THEN orphans + 1
                ELSE orphans
  /\ UNCHANGED <<object, delJob, machine, agent, node, caches, excuse>>

-------------------------------------------------------------------------------
(***************************************************************************)
(* ensureNodeAttached.                                                     *)
(***************************************************************************)

\* attachNode, and what follows it: the Node looked up before is nil, and the
\* access to its labels kills the manager.
Attach ==
  /\ At("attach") /\ seenNode = "absent" /\ machine
  /\ agent' = "installing"
  /\ UNCHANGED <<object, job, orphans, delJob, machine, node, excuse>>
  /\ Restart

\* There is nothing to join: the outputs are gone again.
AttachFails ==
  /\ At("attach") /\ seenNode = "absent" /\ ~machine
  /\ CheckFailed("attached")
  /\ UNCHANGED <<object, cloud, caches, excuse>>

\* Mutant: a label that is there is not compared.
LabelOnce ==
  /\ At("attach") /\ seenNode # "absent"
  /\ IF seenNode # "unlabelled"
     THEN Holds("attached", Complete) /\ UNCHANGED node
     ELSE IF node # seenNode THEN CheckFailed("attached") /\ UNCHANGED node
     ELSE node' = Wanted(rc.stateful) /\ Holds("attached", Complete)
  /\ UNCHANGED <<object, job, orphans, delJob, machine, agent, caches, excuse>>

\* The label kloudlite.io/stateful-node follows Spec.Stateful.
Label ==
  /\ At("attach") /\ seenNode # "absent"
  /\ IF seenNode = Wanted(rc.stateful)
     THEN Holds("attached", Complete) /\ UNCHANGED node
     ELSE IF node # seenNode THEN CheckFailed("attached") /\ UNCHANGED node
     ELSE node' = Wanted(rc.stateful) /\ Holds("attached", Complete)
  /\ UNCHANGED <<object, job, orphans, delJob, machine, agent, caches, excuse>>

-------------------------------------------------------------------------------
(***************************************************************************)
(* finalize: out of the cluster, then out of the cloud, then released.     *)
(***************************************************************************)
\* Mutant: a Node that is not found counts as an error.
DetachOrFail ==
  /\ At("detach")
  /\ node' = "absent"
  /\ Requeue
  /\ UNCHANGED <<object, job, orphans, delJob, machine, agent, caches, excuse>>

Detach ==
  /\ At("detach")
  /\ IF seenNode # "absent" THEN node' = "absent" /\ Requeue
     ELSE Goto("destroy") /\ UNCHANGED node
  /\ UNCHANGED <<object, job, orphans, delJob, machine, agent, caches, excuse>>

\* A create pod that will still run, or that runs.
InFlight == job \in {"new", "running"} \/ orphans > 0

ReleaseNext(overlooked) ==
  /\ rc' = [rc EXCEPT !.step = "release", !.overlooked = overlooked]
  /\ UNCHANGED <<object, ready, queued, timer, cloud, caches, excuse>>

MustDestroy ==
  /\ At("destroy") /\ machine
  /\ Goto("delete")
  /\ UNCHANGED <<object, cloud, caches, excuse>>

NothingToDestroy ==
  /\ At("destroy") /\ ~machine
  /\ ReleaseNext(IF InFlight THEN {"in_flight"} ELSE {})

\* Mutant: a scheduled deletion counts as done.
ApplyDeleteAndRelease ==
  /\ At("delete")
  /\ delJob' = IF delJob = "none" THEN "active" ELSE delJob
  /\ Goto("release")
  /\ UNCHANGED <<object, job, orphans, machine, agent, node, caches, excuse>>

\* deleteNode reports an error on success too, so that finalize comes back
\* until the outputs are gone.  A Job that exists is not run again.
ApplyDelete ==
  /\ At("delete")
  /\ delJob' = IF delJob = "none" THEN "active" ELSE delJob
  /\ Requeue
  /\ UNCHANGED <<object, job, orphans, machine, agent, node, caches, excuse>>

Release ==
  /\ At("release")
  /\ IF Stale THEN Requeue /\ UNCHANGED <<phase, excuse>>
     ELSE /\ phase' = "gone"
          /\ excuse' = rc.overlooked
          /\ queued' = FALSE /\ timer' = FALSE /\ Finish /\ UNCHANGED ready
  /\ UNCHANGED <<stateful, prologue, foreground, cloud, caches>>

Round ==
  \/ Prologue \/ Begin
  \/ HasOutputs \/ NoOutputs \/ ApplyCreate \/ ClearJob
  \/ Attach \/ AttachFails \/ Label
  \/ Detach \/ MustDestroy \/ NothingToDestroy \/ ApplyDelete \/ Release

-------------------------------------------------------------------------------
(***************************************************************************)
(* The Jobs, the cluster and the watches.                                  *)
(***************************************************************************)
internal == <<object, ready, queued, timer, rc, excuse>>

StartPod ==
  /\ job = "new" /\ orphans < MaxPods
  /\ job' = "running"
  /\ UNCHANGED <<internal, orphans, delJob, machine, agent, node, caches>>

\* terraform apply: a machine, unless the state says there is one.
PodSucceeds ==
  /\ \/ job = "running" /\ job' = "done" /\ UNCHANGED orphans
     \/ orphans > 0 /\ orphans' = orphans - 1 /\ UNCHANGED job
  /\ machine' = TRUE
  /\ UNCHANGED <<internal, delJob, agent, node, caches>>

DestroySucceeds ==
  /\ delJob = "active"
  /\ delJob' = "done"
  /\ machine' = FALSE /\ agent' = "none"
  /\ UNCHANGED <<internal, job, orphans, node, caches>>

\* The agent registers its Node some time after it was installed.
Join ==
  /\ agent = "installing"
  /\ agent' = "joined"
  /\ node' = IF node = "absent" THEN "unlabelled" ELSE node
  /\ UNCHANGED <<internal, job, orphans, delJob, machine, caches>>

\* The garbage collector deletes the Jobs of an owner that goes away...
Collecting == phase = "gone" \/ (phase = "deleting" /\ foreground)

CollectCreateJob ==
  /\ Collecting
  /\ job # "none" /\ job' = "none"
  /\ UNCHANGED <<internal, orphans, delJob, machine, agent, node, caches>>

CollectDeleteJob ==
  /\ Collecting
  /\ delJob # "none" /\ delJob' = "none"
  /\ UNCHANGED <<internal, job, orphans, machine, agent, node, caches>>

\* ... and takes its finalizer off when they are gone.
CollectorReleases ==
  /\ phase = "deleting" /\ foreground /\ job = "none" /\ delJob = "none"
  /\ foreground' = FALSE
  /\ queued' = TRUE
  /\ UNCHANGED <<phase, stateful, prologue, ready, timer, rc, cloud, caches,
                 excuse>>

\* Owns(Job): an event about the Job wakes the worker node.  Nobody is woken
\* by an event about the Node.
DeliverJob ==
  /\ seenJob # job
  /\ seenJob' = job
  /\ queued' = (phase # "gone")
  /\ UNCHANGED <<object, ready, timer, rc, cloud, seenNode, excuse>>

DeliverNode ==
  /\ seenNode # node
  /\ seenNode' = node
  /\ UNCHANGED <<internal, cloud, seenJob>>

Wake ==
  /\ queued' = TRUE
  /\ UNCHANGED <<object, ready, rc, cloud, caches, excuse>>

Expire == timer /\ timer' = FALSE /\ Wake
Resync == phase # "gone" /\ UNCHANGED timer /\ Wake

World ==
  \/ StartPod \/ PodSucceeds \/ DestroySucceeds \/ Join
  \/ CollectCreateJob \/ CollectDeleteJob \/ CollectorReleases
  \/ DeliverJob \/ DeliverNode \/ Expire \/ Resync

-------------------------------------------------------------------------------
(***************************************************************************)
(* What may go wrong, and what others do to the worker node.               *)
(***************************************************************************)
TagStateful ==
  /\ "tag" \in Interference
  /\ phase # "gone" /\ ~stateful
  /\ stateful' = TRUE
  /\ ready' = {} /\ queued' = TRUE
  /\ UNCHANGED <<phase, prologue, foreground, timer, rc, cloud, caches, excuse>>

\* The pool's controller or the garbage collector deletes it; or kubectl, in
\* the background, and the API server takes the collector's finalizer off.
DeleteWorker ==
  /\ "delete" \in Interference
  /\ phase = "live"
  /\ phase' = IF prologue = "done" THEN "deleting" ELSE "gone"
  /\ foreground' \in {foreground, FALSE}
  /\ queued' = (prologue = "done")
  /\ UNCHANGED <<stateful, prologue, ready, timer, rc, cloud, caches, excuse>>

OutputsFlake ==
  /\ "terraform" \in Interference
  /\ machine
  /\ \/ /\ At("outputs") /\ Goto("apply")
        /\ UNCHANGED <<object, cloud, caches, excuse>>
     \/ At("destroy") /\ ReleaseNext({"flake"})

KubectlFails ==
  /\ "kubectl" \in Interference
  /\ \/ At("apply") /\ seenJob = "none" /\ CheckFailed("created")
     \/ At("job") /\ seenJob # "none" /\ CheckFailed("created")
     \/ At("delete") /\ Requeue
  /\ UNCHANGED <<object, cloud, caches, excuse>>

SshFails ==
  /\ "ssh" \in Interference
  /\ At("attach") /\ seenNode = "absent" /\ machine
  /\ CheckFailed("attached")
  /\ UNCHANGED <<object, cloud, caches, excuse>>

PodFails ==
  /\ "pod_fail" \in Interference
  /\ \/ job = "running" /\ job' = "failed" /\ UNCHANGED <<orphans, delJob>>
     \/ orphans > 0 /\ orphans' = orphans - 1 /\ UNCHANGED <<job, delJob>>
     \/ delJob = "active" /\ delJob' = "failed" /\ UNCHANGED <<job, orphans>>
  /\ UNCHANGED <<internal, machine, agent, node, caches>>

Crash ==
  /\ "crash" \in Interference
  /\ UNCHANGED <<object, cloud, excuse>>
  /\ Restart

Outside ==
  \/ TagStateful \/ DeleteWorker \/ OutputsFlake \/ KubectlFails \/ SshFails
  \/ PodFails \/ Crash

Next == Round \/ World \/ Outside

Spec == Init /\ [][Next]_vars

\* The manager works, Jobs run, the watches deliver, timers and the resync of
\* the informers expire, the garbage collector does its rounds.  The reconcile
\* may delete every Job it applies before the pod is started, and the garbage
\* collector every delete Job before it looks for remaining Jobs, for ever:
\* strong fairness says that nobody loses every race.
Fairness ==
  /\ WF_vars(Round)
  /\ SF_vars(StartPod) /\ WF_vars(PodSucceeds) /\ WF_vars(DestroySucceeds)
  /\ WF_vars(Join)
  /\ WF_vars(CollectCreateJob) /\ WF_vars(CollectDeleteJob)
  /\ SF_vars(CollectorReleases)
  /\ WF_vars(DeliverJob) /\ WF_vars(DeliverNode)
  /\ WF_vars(Expire) /\ WF_vars(Resync)

\* From some moment on nothing goes wrong and nobody touches the worker node.
CalmSpec == Spec /\ Fairness /\ <>[][Round \/ World]_vars

-------------------------------------------------------------------------------
Overlooked == {"flake", "in_flight"}

Rounds == [step : {"outputs", "apply", "job", "attach",
                   "detach", "destroy", "delete", "release"},
           copy : {"live", "deleting"} \X BOOLEAN \X BOOLEAN,
           stateful : BOOLEAN, ready : SUBSET Checks,
           overlooked : SUBSET Overlooked]

TypeOK ==
  /\ phase \in {"live", "deleting", "gone"} /\ stateful \in BOOLEAN
  /\ prologue \in {"checks", "labels", "finalizers", "done"}
  /\ foreground \in BOOLEAN
  /\ ready \subseteq Checks /\ queued \in BOOLEAN /\ timer \in BOOLEAN
  /\ rc = Idle \/ rc \in Rounds
  /\ job \in {"none", "new", "running", "done", "failed"}
  /\ seenJob \in {"none", "new", "running", "done", "failed"}
  /\ orphans \in 0 .. MaxPods
  /\ delJob \in {"none", "active", "done", "failed"}
  /\ machine \in BOOLEAN /\ agent \in {"none", "installing", "joined"}
  /\ node \in {"absent", "unlabelled", "stateless", "stateful"}
  /\ seenNode \in {"absent", "unlabelled", "stateless", "stateful"}
  /\ excuse \subseteq Overlooked

\* No machine is left behind that nobody knows of: when the worker node is
\* gone its machine is gone, or a create pod was still in flight when finalize
\* saw no outputs, or terraform failed to show the outputs there were
\* (finalize, 496-524; deleteNode, 481-494).
NoLeak == phase = "gone" /\ machine => excuse # {}

\* "creation of node is in progress" (createNode, 299): one create pod is
\* enough, so a second one never runs beside it.
OneCreate == orphans + (IF job = "running" THEN 1 ELSE 0) <= 1

\* Left alone, a live worker node whose create Job has not failed for good is
\* a Node of the cluster, labelled as its spec says, for good.
Attaches ==
  <>[](phase = "live" /\ job # "failed" => node = Wanted(stateful))

\* Left alone, a deleted worker node is released, unless its delete Job has
\* run already: failed, or done before a late create pod made the machine.
Deletes ==
  phase = "deleting" ~> \/ phase = "gone"
                        \/ machine /\ delJob \in {"failed", "done"}
===============================================================================
