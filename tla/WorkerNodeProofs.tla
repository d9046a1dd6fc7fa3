--------------------------- MODULE WorkerNodeProofs ---------------------------
(***************************************************************************)
(* Proofs about WorkerNode: its type invariant, and that no machine is     *)
(* left behind unnoticed, whatever the number of create pods and whatever  *)
(* goes wrong.                                                             *)
(*                                                                         *)
(* NoLeak speaks of a worker node that is gone, but what makes it true is  *)
(* what the last round knew: when finalize sees no outputs and no create   *)
(* pod is in flight, none can come any more, since a create Job is applied *)
(* by rounds only and this round is past that.                             *)
(***************************************************************************)
EXTENDS WorkerNode, TLAPS

\* The parts of the type invariant, one per kind of data.
Flags == /\ stateful \in BOOLEAN /\ foreground \in BOOLEAN
         /\ queued \in BOOLEAN /\ timer \in BOOLEAN /\ machine \in BOOLEAN
Names ==
  /\ phase \in {"live", "deleting", "gone"}
  /\ prologue \in {"checks", "labels", "finalizers", "done"}
  /\ ready \subseteq Checks
  /\ job \in {"none", "new", "running", "done", "failed"}
  /\ seenJob \in {"none", "new", "running", "done", "failed"}
  /\ delJob \in {"none", "active", "done", "failed"}
  /\ agent \in {"none", "installing", "joined"}
  /\ node \in {"absent", "unlabelled", "stateless", "stateful"}
  /\ seenNode \in {"absent", "unlabelled", "stateless", "stateful"}
  /\ excuse \subseteq Overlooked
RoundOK == rc = Idle \/ rc \in Rounds
PodsBounded == orphans \in 0 .. MaxPods

LEMMA TypeParts == TypeOK <=> Flags /\ Names /\ RoundOK /\ PodsBounded
  BY Zenon DEF TypeOK, Flags, Names, RoundOK, PodsBounded

\* There is no machine, and nothing that would make one.
Nothing == ~machine /\ ~InFlight

Sure(overlooked) == overlooked = {} => Nothing

\* Before the finalizers are written no round gets as far as the machine.
Untouched ==
  prologue # "done" => rc = Idle /\ ~timer /\ job = "none" /\ Nothing

\* An object that is gone is not reconciled.
AtRest == phase = "gone" => rc = Idle /\ ~queued /\ ~timer

KnowsAtRelease == rc.step = "release" => Sure(rc.overlooked)

KnowsAfterwards == phase = "gone" => Sure(excuse)

\* A running create pod leaves room for being orphaned.
Room == job = "running" => orphans < MaxPods

IInv == TypeOK /\ Room /\ Untouched /\ AtRest /\ KnowsAtRelease /\ KnowsAfterwards

-------------------------------------------------------------------------------
(***************************************************************************)
(* How a round goes on.                                                    *)
(***************************************************************************)
LEMMA IdleStep == Idle.step = "idle"
  BY SMT DEF Idle

\* A round that is under way is a record, and its object is still there.
LEMMA Busy == ASSUME IInv, rc.step # "idle"
              PROVE rc \in Rounds /\ phase # "gone" /\ prologue = "done"
  BY Zenon, IdleStep, TypeParts DEF IInv, RoundOK, AtRest, Untouched

LEMMA NextStep ==
  ASSUME NEW r \in Rounds,
         NEW s \in {"outputs", "apply", "job", "attach", "detach", "destroy",
                    "delete", "release"}
  PROVE  [r EXCEPT !.step = s] \in Rounds /\ [r EXCEPT !.step = s].step = s
  BY SMT DEF Rounds

LEMMA LastStep ==
  ASSUME NEW r \in Rounds, NEW o \in SUBSET Overlooked
  PROVE  /\ [r EXCEPT !.step = "release", !.overlooked = o] \in Rounds
         /\ [r EXCEPT !.step = "release", !.overlooked = o].overlooked = o
<1>1. [r EXCEPT !.step = "release"] \in Rounds
  BY NextStep
<1>2. ASSUME NEW q \in Rounds
      PROVE  /\ [q EXCEPT !.overlooked = o] \in Rounds
             /\ [q EXCEPT !.overlooked = o].overlooked = o
  BY SMT DEF Rounds
<1>3. QED BY <1>1, <1>2

LEMMA FirstStep ==
  ASSUME NEW s \in {"outputs", "detach"}, NEW a \in {"live", "deleting"},
         NEW b \in BOOLEAN, NEW c \in BOOLEAN, NEW k \in SUBSET Checks
  PROVE  [step |-> s, copy |-> <<a, b, c>>, stateful |-> b, ready |-> k,
          overlooked |-> {}] \in Rounds
  BY SMT DEF Rounds

\* What the ends of a round have in common.
Stops == rc' = Idle

LEMMA Checked == ASSUME NEW c \in Checks, ready \subseteq Checks, CheckFailed(c)
                 PROVE  ready' \subseteq Checks /\ Stops
  BY Zenon DEF CheckFailed, Finish, Stops

LEMMA Held == ASSUME NEW c \in Checks, ready \subseteq Checks,
                     NEW follows, Holds(c, follows)
              PROVE  (ready' \subseteq Checks /\ Stops) \/ follows
  BY Zenon DEF Holds, Record, Finish, Stops

-------------------------------------------------------------------------------
(***************************************************************************)
(* The parts of the type invariant, one after the other.                   *)
(***************************************************************************)
LEMMA FlagsStep == IInv /\ Next => Flags'
<1>. SUFFICES ASSUME IInv, Next PROVE Flags'
  OBVIOUS
<1>. USE TypeParts DEF IInv, Flags, object, cloud, caches, internal
<1>1. CASE Prologue
  BY <1>1, Zenon DEF Prologue
<1>2. CASE Begin
  BY <1>2, Zenon DEF Begin, Version
<1>3. CASE HasOutputs
  BY <1>3, Zenon DEF HasOutputs, Goto
<1>4. CASE NoOutputs
  BY <1>4, Zenon DEF NoOutputs, Goto
<1>5. CASE ApplyCreate
  BY <1>5, Zenon DEF ApplyCreate, Goto, CheckFailed, Finish, Stale, Version
<1>6. CASE ClearJob
  BY <1>6, Zenon DEF ClearJob, CheckFailed, Holds, Record, Goto, Finish, Stale, Version
<1>7. CASE Attach
  BY <1>7, Zenon DEF Attach, Restart, Finish
<1>8. CASE AttachFails
  BY <1>8, Zenon DEF AttachFails, CheckFailed, Finish, Stale, Version
<1>9. CASE Label
  BY <1>9, Zenon DEF Label, Holds, Record, Complete, CheckFailed, Finish, Stale, Version, Wanted
<1>10. CASE Detach
  BY <1>10, Zenon DEF Detach, Requeue, Goto, Finish
<1>11. CASE MustDestroy
  BY <1>11, Zenon DEF MustDestroy, Goto
<1>12. CASE NothingToDestroy
  BY <1>12, Zenon DEF NothingToDestroy, ReleaseNext
<1>13. CASE ApplyDelete
  BY <1>13, Zenon DEF ApplyDelete, Requeue, Finish
<1>14. CASE Release
  BY <1>14, Zenon DEF Release, Requeue, Finish, Stale, Version
<1>15. CASE StartPod
  BY <1>15, Zenon DEF StartPod
<1>16. CASE PodSucceeds
  BY <1>16, Zenon DEF PodSucceeds
<1>17. CASE DestroySucceeds
  BY <1>17, Zenon DEF DestroySucceeds
<1>18. CASE Join
  BY <1>18, Zenon DEF Join
<1>19. CASE CollectCreateJob
  BY <1>19, Zenon DEF CollectCreateJob, Collecting
<1>20. CASE CollectDeleteJob
  BY <1>20, Zenon DEF CollectDeleteJob, Collecting
<1>21. CASE CollectorReleases
  BY <1>21, Zenon DEF CollectorReleases
<1>22. CASE DeliverJob
  BY <1>22, Zenon DEF DeliverJob
<1>23. CASE DeliverNode
  BY <1>23, Zenon DEF DeliverNode
<1>24. CASE Expire
  BY <1>24, Zenon DEF Expire, Wake
<1>25. CASE Resync
  BY <1>25, Zenon DEF Resync, Wake
<1>26. CASE TagStateful
  BY <1>26, Zenon DEF TagStateful
<1>27. CASE DeleteWorker
  BY <1>27, Zenon DEF DeleteWorker
<1>28. CASE OutputsFlake
  BY <1>28, Zenon DEF OutputsFlake, Goto, ReleaseNext
<1>29. CASE KubectlFails
  BY <1>29, Zenon DEF KubectlFails, CheckFailed, Requeue, Finish, Stale, Version
<1>30. CASE SshFails
  BY <1>30, Zenon DEF SshFails, CheckFailed, Finish, Stale, Version
<1>31. CASE PodFails
  BY <1>31, Zenon DEF PodFails
<1>32. CASE Crash
  BY <1>32, Zenon DEF Crash, Restart, Finish
<1>33. QED
  BY <1>1, <1>2, <1>3, <1>4, <1>5, <1>6, <1>7, <1>8,
     <1>9, <1>10, <1>11, <1>12, <1>13, <1>14, <1>15, <1>16,
     <1>17, <1>18, <1>19, <1>20, <1>21, <1>22, <1>23, <1>24,
     <1>25, <1>26, <1>27, <1>28, <1>29, <1>30, <1>31, <1>32
     DEF Next, Round, World, Outside

LEMMA NamesStep == IInv /\ Next => Names'
<1>. SUFFICES ASSUME IInv, Next PROVE Names'
  OBVIOUS
<1>. USE TypeParts DEF IInv, Names, Checks, Overlooked, RoundOK, Rounds, At, Idle, object, cloud, caches, internal
<1>1. CASE Prologue
  BY <1>1, SMT DEF Prologue
<1>2. CASE Begin
  BY <1>2, SMT DEF Begin, Version
<1>3. CASE HasOutputs
  BY <1>3, SMT DEF HasOutputs, Goto
<1>4. CASE NoOutputs
  BY <1>4, SMT DEF NoOutputs, Goto
<1>5. CASE ApplyCreate
  <2>1. ready' \subseteq Checks
    BY <1>5, Zenon, Checked DEF ApplyCreate, Goto
  <2>2. QED BY <1>5, <2>1, SMT DEF ApplyCreate
<1>6. CASE ClearJob
  <2>1. ready' \subseteq Checks
    BY <1>6, Zenon, Checked, Held DEF ClearJob, Goto
  <2>2. QED BY <1>6, <2>1, SMT DEF ClearJob
<1>7. CASE Attach
  BY <1>7, SMT DEF Attach, Restart, Finish
<1>8. CASE AttachFails
  BY <1>8, SMT DEF AttachFails, CheckFailed, Finish, Stale, Version
<1>9. CASE Label
  <2>1. ready' \subseteq Checks
    BY <1>9, Zenon, Checked, Held DEF Label, Complete
  <2>2. QED BY <1>9, <2>1, SMT DEF Label, Wanted
<1>10. CASE Detach
  BY <1>10, SMT DEF Detach, Requeue, Goto, Finish
<1>11. CASE MustDestroy
  BY <1>11, SMT DEF MustDestroy, Goto
<1>12. CASE NothingToDestroy
  BY <1>12, SMT DEF NothingToDestroy, ReleaseNext
<1>13. CASE ApplyDelete
  BY <1>13, SMT DEF ApplyDelete, Requeue, Finish
<1>14. CASE Release
  BY <1>14, SMT DEF Release, Requeue, Finish, Stale, Version
<1>15. CASE StartPod
  BY <1>15, SMT DEF StartPod
<1>16. CASE PodSucceeds
  BY <1>16, SMT DEF PodSucceeds
<1>17. CASE DestroySucceeds
  BY <1>17, SMT DEF DestroySucceeds
<1>18. CASE Join
  BY <1>18, SMT DEF Join
<1>19. CASE CollectCreateJob
  BY <1>19, SMT DEF CollectCreateJob, Collecting
<1>20. CASE CollectDeleteJob
  BY <1>20, SMT DEF CollectDeleteJob, Collecting
<1>21. CASE CollectorReleases
  BY <1>21, SMT DEF CollectorReleases
<1>22. CASE DeliverJob
  BY <1>22, SMT DEF DeliverJob
<1>23. CASE DeliverNode
  BY <1>23, SMT DEF DeliverNode
<1>24. CASE Expire
  BY <1>24, SMT DEF Expire, Wake
<1>25. CASE Resync
  BY <1>25, SMT DEF Resync, Wake
<1>26. CASE TagStateful
  BY <1>26, SMT DEF TagStateful
<1>27. CASE DeleteWorker
  BY <1>27, SMT DEF DeleteWorker
<1>28. CASE OutputsFlake
  <2>1. UNCHANGED <<phase, prologue, ready, job, seenJob, delJob, agent, node,
                    seenNode, excuse>>
    BY <1>28, Zenon DEF OutputsFlake, Goto, ReleaseNext
  <2>2. QED BY <2>1, SMT
<1>29. CASE KubectlFails
  <2>1. ready' \subseteq Checks
    BY <1>29, Zenon, Checked DEF KubectlFails, Requeue
  <2>2. QED BY <1>29, <2>1, SMT DEF KubectlFails
<1>30. CASE SshFails
  BY <1>30, SMT DEF SshFails, CheckFailed, Finish, Stale, Version
<1>31. CASE PodFails
  BY <1>31, SMT DEF PodFails
<1>32. CASE Crash
  BY <1>32, SMT DEF Crash, Restart, Finish
<1>33. QED
  BY <1>1, <1>2, <1>3, <1>4, <1>5, <1>6, <1>7, <1>8,
     <1>9, <1>10, <1>11, <1>12, <1>13, <1>14, <1>15, <1>16,
     <1>17, <1>18, <1>19, <1>20, <1>21, <1>22, <1>23, <1>24,
     <1>25, <1>26, <1>27, <1>28, <1>29, <1>30, <1>31, <1>32
     DEF Next, Round, World, Outside

LEMMA RoundStep == IInv /\ Next => RoundOK'
<1>. SUFFICES ASSUME IInv, Next PROVE RoundOK'
  OBVIOUS
<1>. USE TypeParts, Busy, NextStep, LastStep, Checked DEF IInv, RoundOK, Names, At, object, cloud, caches, internal
<1>1. CASE Prologue
  BY <1>1, Zenon DEF Prologue
<1>2. CASE Begin
  <2>1. phase \in {"live", "deleting"}
    BY <1>2, Zenon DEF Begin, AtRest
  <2>2. rc' = [step |-> IF phase = "live" THEN "outputs" ELSE "detach",
               copy |-> <<phase, stateful, foreground>>,
               stateful |-> stateful, ready |-> ready, overlooked |-> {}]
    BY <1>2, Zenon DEF Begin, Version
  <2>3. stateful \in BOOLEAN /\ foreground \in BOOLEAN /\ ready \in SUBSET Checks
    BY Zenon DEF Flags
  <2>4. (IF phase = "live" THEN "outputs" ELSE "detach") \in {"outputs", "detach"}
    BY Zenon
  <2>5. QED BY <2>1, <2>2, <2>3, <2>4, FirstStep, Zenon
<1>3. CASE HasOutputs
  BY <1>3, Zenon DEF HasOutputs, Goto
<1>4. CASE NoOutputs
  BY <1>4, Zenon DEF NoOutputs, Goto
<1>5. CASE ApplyCreate
  BY <1>5, Zenon DEF ApplyCreate, Goto, CheckFailed, Finish, Stale, Version
<1>6. CASE ClearJob
  BY <1>6, Zenon DEF ClearJob, CheckFailed, Holds, Record, Goto, Finish, Stale, Version
<1>7. CASE Attach
  BY <1>7, Zenon DEF Attach, Restart, Finish
<1>8. CASE AttachFails
  BY <1>8, Zenon DEF AttachFails, CheckFailed, Finish, Stale, Version
<1>9. CASE Label
  BY <1>9, Zenon DEF Label, Holds, Record, Complete, CheckFailed, Finish, Stale, Version, Wanted
<1>10. CASE Detach
  BY <1>10, Zenon DEF Detach, Requeue, Goto, Finish
<1>11. CASE MustDestroy
  BY <1>11, Zenon DEF MustDestroy, Goto
<1>12. CASE NothingToDestroy
  <2>. DEFINE o == IF InFlight THEN {"in_flight"} ELSE {}
  <2>1. o \in SUBSET Overlooked
    BY Zenon DEF Overlooked
  <2>2. rc' = [rc EXCEPT !.step = "release", !.overlooked = o] /\ rc.step # "idle"
    BY <1>12, Zenon DEF NothingToDestroy, ReleaseNext
  <2>. HIDE DEF o
  <2>3. QED BY <2>1, <2>2, Zenon, Busy, LastStep
<1>13. CASE ApplyDelete
  BY <1>13, Zenon DEF ApplyDelete, Requeue, Finish
<1>14. CASE Release
  BY <1>14, Zenon DEF Release, Requeue, Finish, Stale, Version
<1>15. CASE StartPod
  BY <1>15, Zenon DEF StartPod
<1>16. CASE PodSucceeds
  BY <1>16, Zenon DEF PodSucceeds
<1>17. CASE DestroySucceeds
  BY <1>17, Zenon DEF DestroySucceeds
<1>18. CASE Join
  BY <1>18, Zenon DEF Join
<1>19. CASE CollectCreateJob
  BY <1>19, Zenon DEF CollectCreateJob, Collecting
<1>20. CASE CollectDeleteJob
  BY <1>20, Zenon DEF CollectDeleteJob, Collecting
<1>21. CASE CollectorReleases
  BY <1>21, Zenon DEF CollectorReleases
<1>22. CASE DeliverJob
  BY <1>22, Zenon DEF DeliverJob
<1>23. CASE DeliverNode
  BY <1>23, Zenon DEF DeliverNode
<1>24. CASE Expire
  BY <1>24, Zenon DEF Expire, Wake
<1>25. CASE Resync
  BY <1>25, Zenon DEF Resync, Wake
<1>26. CASE TagStateful
  BY <1>26, Zenon DEF TagStateful
<1>27. CASE DeleteWorker
  BY <1>27, Zenon DEF DeleteWorker
<1>28. CASE OutputsFlake
  <2>1. {"flake"} \in SUBSET Overlooked
    BY Zenon DEF Overlooked
  <2>2. CASE At("outputs") /\ Goto("apply")
    BY <2>2, Zenon DEF Goto
  <2>3. CASE At("destroy") /\ ReleaseNext({"flake"})
    BY <2>1, <2>3, Zenon DEF ReleaseNext
  <2>4. QED BY <1>28, <2>2, <2>3, Zenon DEF OutputsFlake
<1>29. CASE KubectlFails
  BY <1>29, Zenon DEF KubectlFails, CheckFailed, Requeue, Finish, Stale, Version
<1>30. CASE SshFails
  BY <1>30, Zenon DEF SshFails, CheckFailed, Finish, Stale, Version
<1>31. CASE PodFails
  BY <1>31, Zenon DEF PodFails
<1>32. CASE Crash
  BY <1>32, Zenon DEF Crash, Restart, Finish
<1>33. QED
  BY <1>1, <1>2, <1>3, <1>4, <1>5, <1>6, <1>7, <1>8,
     <1>9, <1>10, <1>11, <1>12, <1>13, <1>14, <1>15, <1>16,
     <1>17, <1>18, <1>19, <1>20, <1>21, <1>22, <1>23, <1>24,
     <1>25, <1>26, <1>27, <1>28, <1>29, <1>30, <1>31, <1>32
     DEF Next, Round, World, Outside

LEMMA PodsStep == IInv /\ Next => PodsBounded' /\ Room'
<1>. SUFFICES ASSUME IInv, Next PROVE PodsBounded' /\ Room'
  OBVIOUS
<1>. USE TypeParts, WorkerNodeAssumption DEF IInv, PodsBounded, Room, object, cloud, caches, internal
<1>1. CASE Prologue
  BY <1>1, SMT DEF Prologue
<1>2. CASE Begin
  BY <1>2, SMT DEF Begin, Version
<1>3. CASE HasOutputs
  BY <1>3, SMT DEF HasOutputs, Goto
<1>4. CASE NoOutputs
  BY <1>4, SMT DEF NoOutputs, Goto
<1>5. CASE ApplyCreate
  <2>1. UNCHANGED orphans /\ (job' = job \/ job' = "new")
    BY <1>5, Zenon DEF ApplyCreate
  <2>2. QED BY <2>1, SMT
<1>6. CASE ClearJob
  <2>1. \/ UNCHANGED <<orphans, job>>
        \/ job' = "none" /\ UNCHANGED orphans
        \/ job' = "none" /\ job = "running" /\ orphans' = orphans + 1
    BY <1>6, Zenon DEF ClearJob
  <2>2. QED BY <2>1, SMT
<1>7. CASE Attach
  BY <1>7, SMT DEF Attach, Restart, Finish
<1>8. CASE AttachFails
  BY <1>8, SMT DEF AttachFails, CheckFailed, Finish, Stale, Version
<1>9. CASE Label
  BY <1>9, SMT DEF Label, Holds, Record, Complete, CheckFailed, Finish, Stale, Version, Wanted
<1>10. CASE Detach
  BY <1>10, SMT DEF Detach, Requeue, Goto, Finish
<1>11. CASE MustDestroy
  BY <1>11, SMT DEF MustDestroy, Goto
<1>12. CASE NothingToDestroy
  BY <1>12, SMT DEF NothingToDestroy, ReleaseNext
<1>13. CASE ApplyDelete
  BY <1>13, SMT DEF ApplyDelete, Requeue, Finish
<1>14. CASE Release
  BY <1>14, SMT DEF Release, Requeue, Finish, Stale, Version
<1>15. CASE StartPod
  BY <1>15, SMT DEF StartPod
<1>16. CASE PodSucceeds
  BY <1>16, SMT DEF PodSucceeds
<1>17. CASE DestroySucceeds
  BY <1>17, SMT DEF DestroySucceeds
<1>18. CASE Join
  BY <1>18, SMT DEF Join
<1>19. CASE CollectCreateJob
  BY <1>19, SMT DEF CollectCreateJob, Collecting
<1>20. CASE CollectDeleteJob
  BY <1>20, SMT DEF CollectDeleteJob, Collecting
<1>21. CASE CollectorReleases
  BY <1>21, SMT DEF CollectorReleases
<1>22. CASE DeliverJob
  BY <1>22, SMT DEF DeliverJob
<1>23. CASE DeliverNode
  BY <1>23, SMT DEF DeliverNode
<1>24. CASE Expire
  BY <1>24, SMT DEF Expire, Wake
<1>25. CASE Resync
  BY <1>25, SMT DEF Resync, Wake
<1>26. CASE TagStateful
  BY <1>26, SMT DEF TagStateful
<1>27. CASE DeleteWorker
  BY <1>27, SMT DEF DeleteWorker
<1>28. CASE OutputsFlake
  <2>1. UNCHANGED <<orphans, job>>
    BY <1>28, Zenon DEF OutputsFlake, ReleaseNext
  <2>2. QED BY <2>1, SMT
<1>29. CASE KubectlFails
  BY <1>29, SMT DEF KubectlFails, CheckFailed, Requeue, Finish, Stale, Version
<1>30. CASE SshFails
  BY <1>30, SMT DEF SshFails, CheckFailed, Finish, Stale, Version
<1>31. CASE PodFails
  BY <1>31, SMT DEF PodFails
<1>32. CASE Crash
  BY <1>32, SMT DEF Crash, Restart, Finish
<1>33. QED
  BY <1>1, <1>2, <1>3, <1>4, <1>5, <1>6, <1>7, <1>8,
     <1>9, <1>10, <1>11, <1>12, <1>13, <1>14, <1>15, <1>16,
     <1>17, <1>18, <1>19, <1>20, <1>21, <1>22, <1>23, <1>24,
     <1>25, <1>26, <1>27, <1>28, <1>29, <1>30, <1>31, <1>32
     DEF Next, Round, World, Outside

-------------------------------------------------------------------------------
(***************************************************************************)
(* The other parts.  A step in the middle of a round leaves the object     *)
(* alone; only the last ones release it, or get to the point of releasing. *)
(***************************************************************************)
Working ==
  \/ HasOutputs \/ NoOutputs \/ ApplyCreate \/ ClearJob
  \/ Attach \/ AttachFails \/ Label \/ Detach \/ MustDestroy \/ ApplyDelete
  \/ KubectlFails \/ SshFails

LEMMA WorkingStep ==
  IInv /\ Working => /\ UNCHANGED <<phase, prologue, excuse>>
                     /\ phase # "gone" /\ prologue = "done"
                     /\ rc'.step # "release"
<1>. SUFFICES ASSUME IInv, Working
     PROVE  /\ UNCHANGED <<phase, prologue, excuse>> /\ rc.step # "idle"
            /\ rc'.step # "release"
  BY Busy
<1>. USE IdleStep, Busy, NextStep DEF At, object
<1>1. CASE HasOutputs
  BY <1>1, Zenon DEF HasOutputs, Goto
<1>2. CASE NoOutputs
  BY <1>2, Zenon DEF NoOutputs, Goto
<1>3. CASE ApplyCreate
  BY <1>3, Zenon DEF ApplyCreate, CheckFailed, Finish, Goto
<1>4. CASE ClearJob
  BY <1>4, Zenon DEF ClearJob, CheckFailed, Finish, Holds, Record, Goto
<1>5. CASE Attach
  BY <1>5, Zenon DEF Attach, Restart, Finish
<1>6. CASE AttachFails
  BY <1>6, Zenon DEF AttachFails, CheckFailed, Finish
<1>7. CASE Label
  BY <1>7, Zenon DEF Label, CheckFailed, Holds, Record, Complete, Finish
<1>8. CASE Detach
  BY <1>8, Zenon DEF Detach, Requeue, Finish, Goto
<1>9. CASE MustDestroy
  BY <1>9, Zenon DEF MustDestroy, Goto
<1>10. CASE ApplyDelete
  BY <1>10, Zenon DEF ApplyDelete, Requeue, Finish
<1>11. CASE KubectlFails
  BY <1>11, Zenon DEF KubectlFails, CheckFailed, Requeue, Finish
<1>12. CASE SshFails
  BY <1>12, Zenon DEF SshFails, CheckFailed, Finish
<1>13. QED
  BY <1>1, <1>2, <1>3, <1>4, <1>5, <1>6, <1>7, <1>8,
     <1>9, <1>10, <1>11, <1>12 DEF Working

LEMMA UntouchedStep == IInv /\ Next => Untouched'
<1>. SUFFICES ASSUME IInv, Next PROVE Untouched'
  OBVIOUS
<1>. USE IdleStep, Busy DEF IInv, At, Untouched, Nothing, InFlight, object, cloud, caches, internal
<1>1. CASE Working
  BY <1>1, Zenon, WorkingStep
<1>2. CASE Prologue
  BY <1>2, Zenon DEF Prologue
<1>3. CASE Begin
  BY <1>3, Zenon DEF Begin, Version
<1>4. CASE NothingToDestroy
  BY <1>4, Zenon DEF NothingToDestroy, ReleaseNext
<1>5. CASE Release
  BY <1>5, Zenon DEF Release, Requeue, Finish
<1>6. CASE StartPod
  BY <1>6, Zenon DEF StartPod
<1>7. CASE PodSucceeds
  BY <1>7, Zenon DEF PodSucceeds
<1>8. CASE DestroySucceeds
  BY <1>8, Zenon DEF DestroySucceeds
<1>9. CASE Join
  BY <1>9, Zenon DEF Join
<1>10. CASE CollectCreateJob
  BY <1>10, Zenon DEF CollectCreateJob, Collecting
<1>11. CASE CollectDeleteJob
  BY <1>11, Zenon DEF CollectDeleteJob, Collecting
<1>12. CASE CollectorReleases
  BY <1>12, Zenon DEF CollectorReleases
<1>13. CASE DeliverJob
  BY <1>13, Zenon DEF DeliverJob
<1>14. CASE DeliverNode
  BY <1>14, Zenon DEF DeliverNode
<1>15. CASE Expire
  BY <1>15, Zenon DEF Expire, Wake
<1>16. CASE Resync
  BY <1>16, Zenon DEF Resync, Wake
<1>17. CASE TagStateful
  BY <1>17, Zenon DEF TagStateful
<1>18. CASE DeleteWorker
  BY <1>18, Zenon DEF DeleteWorker
<1>19. CASE OutputsFlake
  BY <1>19, Zenon DEF OutputsFlake, Goto, ReleaseNext
<1>20. CASE PodFails
  BY <1>20, Zenon DEF PodFails
<1>21. CASE Crash
  BY <1>21, Zenon DEF Crash, Restart, Finish
<1>22. QED
  BY <1>1, <1>2, <1>3, <1>4, <1>5, <1>6, <1>7, <1>8,
     <1>9, <1>10, <1>11, <1>12, <1>13, <1>14, <1>15, <1>16,
     <1>17, <1>18, <1>19, <1>20, <1>21
     DEF Next, Round, World, Outside, Working

LEMMA AtRestStep == IInv /\ Next => AtRest'
<1>. SUFFICES ASSUME IInv, Next PROVE AtRest'
  OBVIOUS
<1>. USE IdleStep, Busy DEF IInv, At, AtRest, Untouched, object, cloud, caches, internal
<1>1. CASE Working
  BY <1>1, Zenon, WorkingStep
<1>2. CASE Prologue
  BY <1>2, Zenon DEF Prologue
<1>3. CASE Begin
  BY <1>3, Zenon DEF Begin, Version
<1>4. CASE NothingToDestroy
  BY <1>4, Zenon DEF NothingToDestroy, ReleaseNext
<1>5. CASE Release
  BY <1>5, Zenon DEF Release, Requeue, Finish
<1>6. CASE StartPod
  BY <1>6, Zenon DEF StartPod
<1>7. CASE PodSucceeds
  BY <1>7, Zenon DEF PodSucceeds
<1>8. CASE DestroySucceeds
  BY <1>8, Zenon DEF DestroySucceeds
<1>9. CASE Join
  BY <1>9, Zenon DEF Join
<1>10. CASE CollectCreateJob
  BY <1>10, Zenon DEF CollectCreateJob, Collecting
<1>11. CASE CollectDeleteJob
  BY <1>11, Zenon DEF CollectDeleteJob, Collecting
<1>12. CASE CollectorReleases
  BY <1>12, Zenon DEF CollectorReleases
<1>13. CASE DeliverJob
  BY <1>13, Zenon DEF DeliverJob
<1>14. CASE DeliverNode
  BY <1>14, Zenon DEF DeliverNode
<1>15. CASE Expire
  BY <1>15, Zenon DEF Expire, Wake
<1>16. CASE Resync
  BY <1>16, Zenon DEF Resync, Wake
<1>17. CASE TagStateful
  BY <1>17, Zenon DEF TagStateful
<1>18. CASE DeleteWorker
  BY <1>18, Zenon DEF DeleteWorker
<1>19. CASE OutputsFlake
  BY <1>19, Zenon DEF OutputsFlake, Goto, ReleaseNext
<1>20. CASE PodFails
  BY <1>20, Zenon DEF PodFails
<1>21. CASE Crash
  BY <1>21, Zenon DEF Crash, Restart, Finish
<1>22. QED
  BY <1>1, <1>2, <1>3, <1>4, <1>5, <1>6, <1>7, <1>8,
     <1>9, <1>10, <1>11, <1>12, <1>13, <1>14, <1>15, <1>16,
     <1>17, <1>18, <1>19, <1>20, <1>21
     DEF Next, Round, World, Outside, Working

LEMMA KnowsAtReleaseStep == IInv /\ Next => KnowsAtRelease'
<1>. SUFFICES ASSUME IInv, Next PROVE KnowsAtRelease'
  OBVIOUS
<1>. USE IdleStep, Busy DEF IInv, At, KnowsAtRelease, Sure, Nothing, InFlight, object, cloud, caches, internal
<1>1. CASE Working
  BY <1>1, Zenon, WorkingStep
<1>2. CASE Prologue
  BY <1>2, Zenon DEF Prologue
<1>3. CASE Begin
  BY <1>3, Zenon DEF Begin, Version
<1>4. CASE NothingToDestroy
  <2>. DEFINE o == IF InFlight THEN {"in_flight"} ELSE {}
  <2>1. o \in SUBSET Overlooked /\ (o = {} => ~InFlight)
    BY Zenon DEF Overlooked
  <2>2. /\ rc' = [rc EXCEPT !.step = "release", !.overlooked = o]
        /\ rc.step # "idle" /\ ~machine /\ UNCHANGED <<machine, job, orphans>>
    BY <1>4, Zenon DEF NothingToDestroy, ReleaseNext
  <2>. HIDE DEF o
  <2>3. rc'.overlooked = o
    BY <2>1, <2>2, Zenon, LastStep
  <2>4. QED BY <2>1, <2>2, <2>3, Zenon
<1>5. CASE Release
  BY <1>5, Zenon DEF Release, Requeue, Finish
<1>6. CASE StartPod
  BY <1>6, Zenon DEF StartPod
<1>7. CASE PodSucceeds
  BY <1>7, Zenon DEF PodSucceeds
<1>8. CASE DestroySucceeds
  BY <1>8, Zenon DEF DestroySucceeds
<1>9. CASE Join
  BY <1>9, Zenon DEF Join
<1>10. CASE CollectCreateJob
  BY <1>10, Zenon DEF CollectCreateJob, Collecting
<1>11. CASE CollectDeleteJob
  BY <1>11, Zenon DEF CollectDeleteJob, Collecting
<1>12. CASE CollectorReleases
  BY <1>12, Zenon DEF CollectorReleases
<1>13. CASE DeliverJob
  BY <1>13, Zenon DEF DeliverJob
<1>14. CASE DeliverNode
  BY <1>14, Zenon DEF DeliverNode
<1>15. CASE Expire
  BY <1>15, Zenon DEF Expire, Wake
<1>16. CASE Resync
  BY <1>16, Zenon DEF Resync, Wake
<1>17. CASE TagStateful
  BY <1>17, Zenon DEF TagStateful
<1>18. CASE DeleteWorker
  BY <1>18, Zenon DEF DeleteWorker
<1>19. CASE OutputsFlake
  <2>1. CASE At("outputs") /\ Goto("apply")
    BY <2>1, Zenon, NextStep DEF Goto
  <2>2. CASE At("destroy") /\ ReleaseNext({"flake"})
    <3>1. {"flake"} \in SUBSET Overlooked /\ {"flake"} # {}
      BY Zenon DEF Overlooked
    <3>2. rc'.overlooked = {"flake"}
      BY <2>2, <3>1, Zenon, LastStep DEF ReleaseNext
    <3>3. QED BY <3>1, <3>2, Zenon
  <2>3. QED BY <1>19, <2>1, <2>2, Zenon DEF OutputsFlake
<1>20. CASE PodFails
  BY <1>20, Zenon DEF PodFails
<1>21. CASE Crash
  BY <1>21, Zenon DEF Crash, Restart, Finish
<1>22. QED
  BY <1>1, <1>2, <1>3, <1>4, <1>5, <1>6, <1>7, <1>8,
     <1>9, <1>10, <1>11, <1>12, <1>13, <1>14, <1>15, <1>16,
     <1>17, <1>18, <1>19, <1>20, <1>21
     DEF Next, Round, World, Outside, Working

LEMMA KnowsAfterwardsStep == IInv /\ Next => KnowsAfterwards'
<1>. SUFFICES ASSUME IInv, Next PROVE KnowsAfterwards'
  OBVIOUS
<1>. USE IdleStep, Busy DEF IInv, At, KnowsAfterwards, KnowsAtRelease, Untouched, Sure, Nothing, InFlight, object, cloud, caches, internal
<1>1. CASE Working
  BY <1>1, Zenon, WorkingStep
<1>2. CASE Prologue
  BY <1>2, Zenon DEF Prologue
<1>3. CASE Begin
  BY <1>3, Zenon DEF Begin, Version
<1>4. CASE NothingToDestroy
  BY <1>4, Zenon DEF NothingToDestroy, ReleaseNext
<1>5. CASE Release
  BY <1>5, Zenon DEF Release, Requeue, Finish
<1>6. CASE StartPod
  BY <1>6, Zenon DEF StartPod
<1>7. CASE PodSucceeds
  BY <1>7, Zenon DEF PodSucceeds
<1>8. CASE DestroySucceeds
  BY <1>8, Zenon DEF DestroySucceeds
<1>9. CASE Join
  BY <1>9, Zenon DEF Join
<1>10. CASE CollectCreateJob
  BY <1>10, Zenon DEF CollectCreateJob, Collecting
<1>11. CASE CollectDeleteJob
  BY <1>11, Zenon DEF CollectDeleteJob, Collecting
<1>12. CASE CollectorReleases
  BY <1>12, Zenon DEF CollectorReleases
<1>13. CASE DeliverJob
  BY <1>13, Zenon DEF DeliverJob
<1>14. CASE DeliverNode
  BY <1>14, Zenon DEF DeliverNode
<1>15. CASE Expire
  BY <1>15, Zenon DEF Expire, Wake
<1>16. CASE Resync
  BY <1>16, Zenon DEF Resync, Wake
<1>17. CASE TagStateful
  BY <1>17, Zenon DEF TagStateful
<1>18. CASE DeleteWorker
  BY <1>18, Zenon DEF DeleteWorker
<1>19. CASE OutputsFlake
  BY <1>19, Zenon DEF OutputsFlake, Goto, ReleaseNext
<1>20. CASE PodFails
  BY <1>20, Zenon DEF PodFails
<1>21. CASE Crash
  BY <1>21, Zenon DEF Crash, Restart, Finish
<1>22. QED
  BY <1>1, <1>2, <1>3, <1>4, <1>5, <1>6, <1>7, <1>8,
     <1>9, <1>10, <1>11, <1>12, <1>13, <1>14, <1>15, <1>16,
     <1>17, <1>18, <1>19, <1>20, <1>21
     DEF Next, Round, World, Outside, Working

-------------------------------------------------------------------------------
(***************************************************************************)
(* The invariant, and what follows from it.                                *)
(***************************************************************************)
LEMMA IInvInit == Init => IInv
<1>. SUFFICES ASSUME Init PROVE IInv
  OBVIOUS
<1>. USE DEF Init
<1>1. Flags BY Zenon DEF Flags
<1>2. Names BY SMT DEF Names, Idle
<1>3. RoundOK BY Zenon DEF RoundOK
<1>4. PodsBounded /\ Room BY SMT, WorkerNodeAssumption DEF PodsBounded, Room
<1>5. ~(orphans > 0) BY SMT
<1>6. Untouched BY <1>5, Zenon DEF Untouched, Nothing, InFlight
<1>7. AtRest /\ KnowsAtRelease /\ KnowsAfterwards
  BY Zenon, IdleStep DEF AtRest, KnowsAtRelease, KnowsAfterwards
<1>8. QED
  BY <1>1, <1>2, <1>3, <1>4, <1>6, <1>7, TypeParts, Zenon DEF IInv

LEMMA IInvStep == IInv /\ [Next]_vars => IInv'
<1>. SUFFICES ASSUME IInv, [Next]_vars PROVE IInv'
  OBVIOUS
<1>1. CASE Next
  BY <1>1, Zenon, TypeParts, FlagsStep, NamesStep, RoundStep, PodsStep,
     UntouchedStep, AtRestStep, KnowsAtReleaseStep, KnowsAfterwardsStep
     DEF IInv, TypeOK, Flags, Names, RoundOK, PodsBounded
<1>2. CASE UNCHANGED vars
  <2>. USE <1>2 DEF vars, object, cloud, caches, IInv
  <2>0. Flags' /\ RoundOK' /\ PodsBounded'
    BY Zenon, TypeParts DEF Flags, RoundOK, PodsBounded
  <2>5. Names' BY SMT, TypeParts DEF Names
  <2>1. TypeOK'
    BY <2>0, <2>5, Zenon DEF TypeOK, Flags, Names, RoundOK, PodsBounded
  <2>2. Room' /\ Untouched' BY Zenon DEF Room, Untouched, Nothing, InFlight
  <2>3. AtRest' /\ KnowsAtRelease' /\ KnowsAfterwards'
    BY Zenon DEF AtRest, KnowsAtRelease, KnowsAfterwards, Sure, Nothing, InFlight
  <2>4. QED BY <2>1, <2>2, <2>3
<1>3. QED BY <1>1, <1>2

LEMMA Invariant == Spec => []IInv
  BY IInvInit, IInvStep, PTL DEF Spec

\* Every variable keeps its type, and no reconcile works on an object that is
\* gone: the copy a round works on is of a live or a deleting object.
THEOREM TypeCorrect == Spec => []TypeOK
<1>1. IInv => TypeOK BY DEF IInv
<1>2. QED BY <1>1, Invariant, PTL

\* A machine outlives its worker node only if finalize overlooked a create pod
\* in flight, or outputs that terraform failed to show.
THEOREM NoMachineLeft == Spec => []NoLeak
<1>1. IInv => NoLeak
  BY Zenon DEF IInv, KnowsAfterwards, Sure, Nothing, NoLeak
<1>2. QED BY <1>1, Invariant, PTL

-------------------------------------------------------------------------------
(***************************************************************************)
(* A deletion is never dropped.                                            *)
(***************************************************************************)
Finalizing == rc.step \in {"detach", "destroy", "delete", "release"}

\* Whatever a live round does when it ends, it takes nothing out of the queue:
\* once the deletion has put the worker node there it stays until a round of
\* finalize takes it, and that round comes to its end or puts it back.
Pursued == phase = "deleting" => queued \/ Finalizing

\* A round of finalize that is not over goes on with finalize.
LEMMA GoesOn ==
  ASSUME NEW s \in {"detach", "destroy", "delete", "release"},
         rc \in Rounds, rc' = [rc EXCEPT !.step = s]
  PROVE  Finalizing'
BY NextStep DEF Finalizing

LEMMA PursuedStep == IInv /\ Pursued /\ Next => Pursued'
<1>. SUFFICES ASSUME IInv, Pursued, Next, phase' = "deleting"
              PROVE  queued' \/ Finalizing'
  BY DEF Pursued
<1>. USE DEF object, cloud, caches, internal
\* The steps of a live round.
<1>1. CASE HasOutputs \/ NoOutputs \/ ApplyCreate \/ ClearJob \/ AttachFails \/ Label
  <2>1. phase = "deleting" /\ ~Finalizing
    BY <1>1 DEF HasOutputs, NoOutputs, ApplyCreate, ClearJob, AttachFails,
                Label, At, Finalizing
  <2>2. queued
    BY <2>1 DEF Pursued
  <2>3. QED
    BY <1>1, <2>2 DEF HasOutputs, NoOutputs, ApplyCreate, ClearJob, AttachFails,
                      Label, Goto, CheckFailed, Holds, Record, Complete
\* The steps of finalize.
<1>2. CASE Detach \/ MustDestroy \/ NothingToDestroy \/ ApplyDelete \/ Release
  <2>1. rc.step # "idle"
    BY <1>2 DEF Detach, MustDestroy, NothingToDestroy, ApplyDelete, Release, At
  <2>2. rc \in Rounds
    BY <2>1, Busy
  <2>3. ASSUME NEW o \in SUBSET Overlooked, ReleaseNext(o)
        PROVE  Finalizing'
    <3>1. rc' = [rc EXCEPT !.step = "release", !.overlooked = o]
      BY <2>3 DEF ReleaseNext
    <3>2. rc'.step = "release"
      BY <2>2, <3>1 DEF Rounds
    <3>3. QED BY <3>2 DEF Finalizing
  <2>4. CASE NothingToDestroy
    BY <2>3, <2>4 DEF NothingToDestroy, Overlooked
  <2>5. CASE Detach \/ MustDestroy \/ ApplyDelete \/ Release
    BY <1>2, <2>2, <2>5, GoesOn DEF Detach, MustDestroy, ApplyDelete, Release, Goto, Requeue
  <2>6. QED BY <1>2, <2>4, <2>5
<1>3. CASE Begin
  <2>1. phase = "deleting"
    BY <1>3 DEF Begin
  <2>2. rc'.step = "detach"
    BY <1>3, <2>1 DEF Begin
  <2>3. QED BY <2>2 DEF Finalizing
<1>4. CASE Prologue \/ DeleteWorker \/ TagStateful \/ Expire \/ Resync \/ CollectorReleases
  BY <1>4 DEF Prologue, DeleteWorker, TagStateful, Expire, Resync, Wake,
              CollectorReleases
\* A new process lists every object and queues it.
<1>5. CASE Attach \/ Crash
  BY <1>5 DEF Attach, Crash, Restart
<1>6. CASE DeliverJob
  BY <1>6 DEF DeliverJob
<1>7. CASE OutputsFlake
  <2>1. CASE At("outputs")
    <3>1. phase = "deleting" /\ queued
      BY <1>7, <2>1 DEF OutputsFlake, At, Goto, ReleaseNext, Pursued, Finalizing
    <3>2. QED BY <1>7, <2>1, <3>1 DEF OutputsFlake, At, Goto, ReleaseNext
  <2>2. CASE ~At("outputs")
    <3>1. At("destroy") /\ rc' = [rc EXCEPT !.step = "release", !.overlooked = {"flake"}]
      BY <1>7, <2>2 DEF OutputsFlake, ReleaseNext
    <3>2. rc \in Rounds
      BY <3>1, Busy DEF At
    <3>3. rc'.step = "release"
      BY <3>1, <3>2 DEF Rounds
    <3>4. QED BY <3>3 DEF Finalizing
  <2>3. QED BY <2>1, <2>2
<1>8. CASE KubectlFails
  <2>1. CASE At("delete")
    BY <1>8, <2>1 DEF KubectlFails, At, Requeue
  <2>2. CASE ~At("delete")
    <3>1. phase = "deleting" /\ ~Finalizing /\ CheckFailed("created")
      BY <1>8, <2>2 DEF KubectlFails, At, Finalizing
    <3>2. QED BY <3>1 DEF Pursued, CheckFailed
  <2>3. QED BY <2>1, <2>2
<1>9. CASE SshFails
  <2>1. phase = "deleting" /\ ~Finalizing /\ CheckFailed("attached")
    BY <1>9 DEF SshFails, At, Finalizing
  <2>2. QED BY <2>1 DEF Pursued, CheckFailed
<1>10. CASE \/ StartPod \/ PodSucceeds \/ DestroySucceeds \/ Join
            \/ CollectCreateJob \/ CollectDeleteJob \/ DeliverNode \/ PodFails
  BY <1>10 DEF StartPod, PodSucceeds, DestroySucceeds, Join, CollectCreateJob,
               CollectDeleteJob, DeliverNode, PodFails, Pursued, Finalizing
<1>11. QED
  BY <1>1, <1>2, <1>3, <1>4, <1>5, <1>6, <1>7, <1>8, <1>9, <1>10
     DEF Next, Round, World, Outside

\* A deleted worker node is queued, or a round of finalize works on it, until
\* it is released: no failure, conflict, quick event or restart makes the
\* manager forget a machine that it has to give back (finalize, 496-524;
\* deleteNode, which reports an error on success too, 481-494).
THEOREM NeverDropped == Spec => []Pursued
<1>1. Init => Pursued
  BY DEF Init, Pursued
<1>2. IInv /\ Pursued /\ [Next]_vars => Pursued'
  <2>1. Pursued /\ UNCHANGED vars => Pursued'
    BY DEF vars, object, Pursued, Finalizing
  <2>2. QED BY <2>1, PursuedStep
<1>3. QED BY <1>1, <1>2, Invariant, PTL DEF Spec
===============================================================================
