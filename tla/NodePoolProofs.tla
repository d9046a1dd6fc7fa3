---------------------------- MODULE NodePoolProofs ----------------------------
(***************************************************************************)
(* Invariants of NodePool for every set of pools, bounds, loads and lag.   *)
(***************************************************************************)
EXTENDS NodePool, DecisionProofs, SequenceTheorems

-------------------------------------------------------------------------------
(***************************************************************************)
(* Fleets: adding, removing and changing one worker node.                  *)
(***************************************************************************)

LEMMA EmptyFleet == IsFleet(<<>>)
BY FS_EmptySet DEF IsFleet

LEMMA OnlyOneEmptyFleet ==
  ASSUME NEW w, IsFleet(w), DOMAIN w = {}
  PROVE  w = <<>>
<1>1. w \in [{} -> WorkerNode]
  BY DEF IsFleet
<1>2. <<>> \in Seq(WorkerNode) /\ Len(<<>>) = 0
  OBVIOUS
<1>3. <<>> \in [1 .. 0 -> WorkerNode] /\ 1 .. 0 = {}
  BY <1>2
<1>4. \A f, g \in [{} -> WorkerNode] : f = g
  OBVIOUS
<1>5. QED BY <1>1, <1>3, <1>4

LEMMA OneMoreOrLess ==
  ASSUME NEW S, IsFiniteSet(S), NEW x
  PROVE  /\ Cardinality(S) \in Nat
         /\ IsFiniteSet(S \cup {x}) /\ IsFiniteSet(S \ {x})
         /\ Cardinality(S \cup {x}) <= Cardinality(S) + 1
         /\ Cardinality(S \ {x}) <= Cardinality(S)
<1>1. Cardinality(S) \in Nat
  BY FS_CardinalityType
<1>2. IsFiniteSet(S \cup {x}) /\ Cardinality(S \cup {x}) <= Cardinality(S) + 1
  BY <1>1, FS_AddElement
<1>3. S \ {x} \in SUBSET S
  OBVIOUS
<1>4. IsFiniteSet(S \ {x}) /\ Cardinality(S \ {x}) <= Cardinality(S)
  BY <1>1, <1>3, FS_Subset
<1>5. QED BY <1>1, <1>2, <1>4

LEMMA AddToFleet ==
  ASSUME NEW w, IsFleet(w), NEW n \in Name, NEW r \in WorkerNode
  PROVE  LET v == [m \in DOMAIN w \cup {n} |-> IF m = n THEN r ELSE w[m]]
         IN  /\ IsFleet(v)
             /\ DOMAIN v = DOMAIN w \cup {n}
             /\ Cardinality(DOMAIN v) <= Cardinality(DOMAIN w) + 1
<1> DEFINE v == [m \in DOMAIN w \cup {n} |-> IF m = n THEN r ELSE w[m]]
<1>1. /\ IsFiniteSet(DOMAIN w \cup {n})
      /\ Cardinality(DOMAIN w \cup {n}) <= Cardinality(DOMAIN w) + 1
  BY OneMoreOrLess DEF IsFleet
<1>2. v \in [DOMAIN v -> WorkerNode]
  BY DEF IsFleet
<1>3. QED BY <1>1, <1>2 DEF IsFleet

LEMMA RemoveFromFleet ==
  ASSUME NEW w, IsFleet(w), NEW n
  PROVE  LET v == Restrict(w, DOMAIN w \ {n})
         IN  /\ IsFleet(v)
             /\ DOMAIN v = DOMAIN w \ {n}
             /\ \A m \in DOMAIN v : v[m] = w[m]
             /\ Cardinality(DOMAIN v) <= Cardinality(DOMAIN w)
<1>1. /\ IsFiniteSet(DOMAIN w \ {n})
      /\ Cardinality(DOMAIN w \ {n}) <= Cardinality(DOMAIN w)
  BY OneMoreOrLess DEF IsFleet
<1>2. QED BY <1>1 DEF IsFleet, Restrict

LEMMA ChangeInFleet ==
  ASSUME NEW w, IsFleet(w), NEW n \in DOMAIN w, NEW r \in WorkerNode
  PROVE  LET v == [w EXCEPT ![n] = r]
         IN  IsFleet(v) /\ DOMAIN v = DOMAIN w
BY DEF IsFleet

LEMMA MarkInFleet ==
  ASSUME IsFleet(worker), NEW n \in DOMAIN worker
  PROVE  IsFleet(Marked(n)) /\ DOMAIN Marked(n) = DOMAIN worker
<1>1. worker[n] \in WorkerNode
  BY DEF IsFleet
<1>2. [worker[n] EXCEPT !.deleting = TRUE] \in WorkerNode
  BY <1>1 DEF WorkerNode
<1>3. QED BY <1>2 DEF IsFleet, Marked

LEMMA TagInFleet ==
  ASSUME IsFleet(worker), NEW n \in DOMAIN worker
  PROVE  LET v == [worker EXCEPT ![n].stateful = TRUE]
         IN  IsFleet(v) /\ DOMAIN v = DOMAIN worker
<1>1. worker[n] \in WorkerNode
  BY DEF IsFleet
<1>2. [worker[n] EXCEPT !.stateful = TRUE] \in WorkerNode
  BY <1>1 DEF WorkerNode
<1>3. QED BY <1>2 DEF IsFleet

\* The indices of a fleet are naturals and there are at most as many as nodes.
LEMMA IndicesOfFleet ==
  ASSUME NEW w, IsFleet(w)
  PROVE  /\ Indices(w) \in SUBSET Nat
         /\ IsFiniteSet(Indices(w))
         /\ Cardinality(Indices(w)) <= Cardinality(DOMAIN w)
         /\ Cardinality(DOMAIN w) \in Nat
<1> DEFINE f == [n \in DOMAIN w |-> w[n].index]
<1>1. f \in Surjection(DOMAIN w, Indices(w))
  BY DEF Surjection, Indices
<1>2. Indices(w) \in SUBSET Nat
  BY DEF IsFleet, Indices, WorkerNode
<1>3. IsFiniteSet(DOMAIN w)
  BY DEF IsFleet
<1>4. QED BY <1>1, <1>2, <1>3, FS_Surjection, FS_CardinalityType

\* The record a pool creates is a worker node, with an index that none of the
\* nodes it listed has.
LEMMA NewWorkerType ==
  ASSUME NEW p \in Pool, IsFleet(rc.view)
  PROVE  /\ NewWorker(p) \in WorkerNode
         /\ \A n \in DOMAIN rc.view : rc.view[n].index # NewWorker(p).index
<1> DEFINE i == FreeIndex(Indices(rc.view), Cardinality(DOMAIN rc.view))
<1>1. i \in Nat \ Indices(rc.view)
  BY IndicesOfFleet, FreeIndexFresh
<1>2. MemoryOf[p] \in Nat
  BY NodePoolAssumption
<1> HIDE DEF i
<1>3. NewWorker(p) = [pool |-> p, index |-> i, memory |-> MemoryOf[p],
                      stateful |-> FALSE, deleting |-> FALSE]
  BY DEF NewWorker, i
<1>4. NewWorker(p) \in WorkerNode
  BY <1>1, <1>2, <1>3 DEF WorkerNode
<1>5. \A n \in DOMAIN rc.view : rc.view[n].index # i
  BY <1>1 DEF Indices
<1>6. QED BY <1>3, <1>4, <1>5

-------------------------------------------------------------------------------
(***************************************************************************)
(* The undelivered events stay a sequence of fleets.                       *)
(***************************************************************************)
LEMMA AppendToBacklog ==
  ASSUME NEW s, IsBacklog(s), NEW w, IsFleet(w)
  PROVE  /\ IsBacklog(Append(s, w))
         /\ Len(s) \in Nat
         /\ Len(Append(s, w)) = Len(s) + 1
         /\ \A i \in 1 .. Len(s) : Append(s, w)[i] = s[i]
         /\ Append(s, w)[Len(s) + 1] = w
<1> DEFINE T == Range(s) \cup {w}
<1>1. s \in Seq(T)
  BY SeqMonotonic DEF IsBacklog
<1>2. \A v \in T : IsFleet(v)
  BY DEF IsBacklog
<1> HIDE DEF T
<1>3. w \in T
  BY DEF T
<1>4. Append(s, w) \in Seq(T)
  BY <1>1, <1>3, AppendProperties
<1>5. Append(s, w) \in Seq(Range(Append(s, w)))
  BY <1>4, SeqOfRange
<1>6. Range(Append(s, w)) \in SUBSET T
  BY <1>4, RangeOfSeq
<1>7. IsBacklog(Append(s, w))
  BY <1>2, <1>5, <1>6 DEF IsBacklog
<1>8. Len(s) \in Nat
  BY <1>1, LenProperties
<1>9. QED BY <1>1, <1>3, <1>7, <1>8, AppendProperties

LEMMA TailOfBacklog ==
  ASSUME NEW s, IsBacklog(s), s # <<>>
  PROVE  /\ IsBacklog(Tail(s))
         /\ IsFleet(Head(s)) /\ Head(s) = s[1]
         /\ Len(s) \in Nat \ {0}
         /\ Len(Tail(s)) = Len(s) - 1
         /\ \A i \in 1 .. Len(Tail(s)) : Tail(s)[i] = s[i + 1]
<1> DEFINE T == Range(s)
<1>1. s \in Seq(T) /\ \A v \in T : IsFleet(v)
  BY DEF IsBacklog
<1> HIDE DEF T
<1>2. Head(s) \in T /\ Tail(s) \in Seq(T)
  BY <1>1, HeadTailProperties
<1>3. Tail(s) \in Seq(Range(Tail(s)))
  BY <1>2, SeqOfRange
<1>4. Range(Tail(s)) \in SUBSET T
  BY <1>2, RangeOfSeq
<1>5. IsBacklog(Tail(s)) /\ IsFleet(Head(s))
  BY <1>1, <1>2, <1>3, <1>4 DEF IsBacklog
<1>6. Len(s) \in Nat \ {0}
  BY <1>1, EmptySeq
<1>7. Head(s) = s[1]
  BY <1>1
<1>8. QED BY <1>1, <1>5, <1>6, <1>7, HeadTailProperties

LEMMA EmptyBacklog == IsBacklog(<<>>)
<1>1. <<>> \in Seq({})
  BY EmptySeq
<1>2. <<>> \in Seq(Range(<<>>)) /\ Range(<<>>) \in SUBSET {}
  BY <1>1, SeqOfRange, RangeOfSeq
<1>3. QED BY <1>2 DEF IsBacklog

LEMMA BacklogMember ==
  ASSUME NEW s, IsBacklog(s), NEW i \in 1 .. Len(s)
  PROVE  IsFleet(s[i])
<1>1. s[i] \in Range(s)
  BY ElementOfSeq DEF IsBacklog
<1>2. QED BY <1>1 DEF IsBacklog

-------------------------------------------------------------------------------
(***************************************************************************)
(* Type correctness.                                                       *)
(***************************************************************************)

\* What a write of a fleet does to the two variables of the API server.
LEMMA WriteType ==
  ASSUME TypeOK, NEW w, IsFleet(w), Write(w)
  PROVE  IsFleet(worker') /\ IsBacklog(events')
BY AppendToBacklog DEF Write, TypeOK

LEMMA NoWriteType ==
  ASSUME TypeOK, NoWrite
  PROVE  IsFleet(worker') /\ IsBacklog(events')
BY DEF NoWrite, TypeOK, IsFleet, IsBacklog

\* The variables besides the three copies of the fleet.
RestOK ==
  /\ spec \in [Pool -> Bounds]
  /\ phase \in [Pool -> {"live", "deleting", "gone"}]
  /\ blocked \subseteq Pool /\ synced \subseteq Pool
  /\ queue \subseteq Pool /\ timer \subseteq Pool
  /\ usage \in Usages

FleetsOK == IsFleet(worker) /\ IsFleet(cache) /\ IsBacklog(events)

RoundOK ==
  \/ rc = Idle
  \/ /\ rc \in [step : {"act", "finalize"}, pool : Pool,
                bounds : Bounds, view : {rc.view}]
     /\ IsFleet(rc.view)

LEMMA TypeParts == TypeOK <=> FleetsOK /\ RestOK /\ RoundOK
BY DEF TypeOK, FleetsOK, RestOK, RoundOK

\* The view a pool acts on is a fleet.
LEMMA ViewType ==
  ASSUME TypeOK, NEW p, At("act", p) \/ At("finalize", p)
  PROVE  IsFleet(rc.view) /\ rc.bounds \in Bounds /\ rc.pool \in Pool
BY DEF TypeOK, At, Idle

LEMMA RestStep == TypeOK /\ [Next]_vars => RestOK'
<1> SUFFICES ASSUME TypeOK, [Next]_vars PROVE RestOK'
  OBVIOUS
<1> USE DEF RestOK
<1>0. RestOK
  BY TypeParts
<1>1. ASSUME NEW p \in Pool, Begin(p) PROVE RestOK'
  BY <1>0, <1>1 DEF Begin, k8s
<1>2. ASSUME NEW p \in Pool, Act(p) PROVE RestOK'
  <2>1. CASE AddNode(p)
    BY <1>0, <2>1 DEF AddNode, Done, PerhapsWake, Wake, k8s
  <2>2. CASE DeleteNode(p)
    BY <1>0, <2>2 DEF DeleteNode, Done, CheckFailed, PerhapsWake, Wake, k8s
  <2>3. CASE AddStateful(p)
    BY <1>0, <2>3 DEF AddStateful, InSync, PerhapsWake, Wake, k8s
  <2>4. CASE Neutral(p)
    BY <1>0, <2>4 DEF Neutral, InSync, PerhapsWake, Wake, k8s
  <2>5. QED BY <1>2, <2>1, <2>2, <2>3, <2>4 DEF Act
<1>3. ASSUME NEW p \in Pool, Finalize(p) PROVE RestOK'
  BY <1>0, <1>3 DEF Finalize, Release, Done, PerhapsWake, Wake, k8s
<1>4. ASSUME NEW p \in Pool, Expire(p) \/ CollectorReleases(p) PROVE RestOK'
  BY <1>0, <1>4 DEF Expire, CollectorReleases, Wake, k8s
<1>5. ASSUME NEW n \in Name,
             WorkerGone(n) \/ CollectWorker(n) \/ DeleteWorker(n)
      PROVE  RestOK'
  BY <1>0, <1>5 DEF WorkerGone, CollectWorker, DeleteWorker, k8s
<1>6. ASSUME NEW n \in Name, WorkerStatus(n) PROVE RestOK'
  BY <1>0, <1>6 DEF WorkerStatus, Present, k8s
<1>7. CASE Deliver
  BY <1>0, <1>7 DEF Deliver, Present, k8s
<1>8. CASE Resync \/ Crash
  BY <1>0, <1>8 DEF Resync, Crash, Present, k8s
<1>9. CASE LoadChanges
  BY <1>0, <1>9 DEF LoadChanges
<1>10. ASSUME NEW p \in Pool,
              EditPool(p) \/ DeletePool(p) \/ ReconFails(p) \/ FinalizeFails(p)
       PROVE  RestOK'
  BY <1>0, <1>10 DEF EditPool, DeletePool, ReconFails, FinalizeFails, CheckFailed,
                     Done, PerhapsWake, Wake, k8s
<1>11. CASE UNCHANGED vars
  BY <1>0, <1>11 DEF vars
<1>12. QED
  BY <1>1, <1>2, <1>3, <1>4, <1>5, <1>6, <1>7, <1>8, <1>9, <1>10, <1>11
     DEF Next, Inside, Reconcile, Outside

(***************************************************************************)
(* The five things a step can do to the fleet.  Everything but a creation  *)
(* only takes nodes away or changes marks of theirs.                       *)
(***************************************************************************)
Shrinks(w) ==
  /\ IsFleet(w)
  /\ DOMAIN w \subseteq DOMAIN worker
  /\ \A m \in DOMAIN w : /\ w[m].index = worker[m].index
                        /\ w[m].pool = worker[m].pool

Quiet   == NoWrite /\ UNCHANGED cache
Shrink  == \E w : Shrinks(w) /\ Write(w) /\ UNCHANGED cache
Creates == \E p \in Pool : AddNode(p)

LEMMA MarkShrinks ==
  ASSUME TypeOK, NEW n \in DOMAIN worker
  PROVE  Shrinks(Marked(n))
BY MarkInFleet DEF Shrinks, Marked, TypeOK, IsFleet, WorkerNode

LEMMA TagShrinks ==
  ASSUME TypeOK, NEW n \in DOMAIN worker
  PROVE  Shrinks([worker EXCEPT ![n].stateful = TRUE])
BY TagInFleet DEF Shrinks, TypeOK, IsFleet, WorkerNode

LEMMA StepKind ==
  TypeOK /\ [Next]_vars => Quiet \/ Shrink \/ Creates \/ Deliver \/ Crash
<1> SUFFICES ASSUME TypeOK, [Next]_vars
             PROVE  Quiet \/ Shrink \/ Creates \/ Deliver \/ Crash
  OBVIOUS
<1>1. ASSUME NEW p \in Pool, Begin(p) PROVE Quiet
  BY <1>1 DEF Begin, Quiet, NoWrite
<1>2. ASSUME NEW p \in Pool, DeleteNode(p) PROVE Quiet \/ Shrink
  <2>1. PICK n \in DOMAIN rc.view :
           \/ n \notin DOMAIN worker /\ CheckFailed(p)
           \/ /\ n \in DOMAIN worker
              /\ IF worker[n].deleting THEN NoWrite ELSE Write(Marked(n))
              /\ Done(p)
    BY <1>2 DEF DeleteNode
  <2>2. CASE CheckFailed(p)
    BY <2>2 DEF CheckFailed, Quiet
  <2>3. CASE Done(p) /\ NoWrite
    BY <2>3 DEF Done, Quiet
  <2>4. CASE n \in DOMAIN worker /\ Write(Marked(n)) /\ Done(p)
    BY <2>4, MarkShrinks DEF Done, Shrink
  <2>5. QED BY <2>1, <2>2, <2>3, <2>4
<1>3. ASSUME NEW p \in Pool, AddStateful(p) PROVE Quiet \/ Shrink
  <2>1. UNCHANGED cache
    BY <1>3 DEF AddStateful, InSync
  <2>2. CASE NoWrite
    BY <2>1, <2>2 DEF Quiet
  <2>3. ASSUME NEW n \in DOMAIN worker,
               Write([worker EXCEPT ![n].stateful = TRUE])
        PROVE  Shrink
    BY <2>1, <2>3, TagShrinks DEF Shrink
  <2>4. QED BY <1>3, <2>2, <2>3 DEF AddStateful
<1>4. ASSUME NEW p \in Pool, Neutral(p) PROVE Quiet
  BY <1>4 DEF Neutral, InSync, Quiet
<1>5. ASSUME NEW p \in Pool, Finalize(p) PROVE Quiet
  BY <1>5 DEF Finalize, Release, Done, Quiet
<1>6. ASSUME NEW p \in Pool, Expire(p) \/ CollectorReleases(p) PROVE Quiet
  BY <1>6 DEF Expire, CollectorReleases, Quiet, NoWrite
<1>7. ASSUME NEW n \in Name, WorkerGone(n) PROVE Shrink
  <2>1. Shrinks(Restrict(worker, DOMAIN worker \ {n}))
    <3> DEFINE v == Restrict(worker, DOMAIN worker \ {n})
    <3>1. /\ IsFleet(v) /\ DOMAIN v = DOMAIN worker \ {n}
          /\ \A m \in DOMAIN v : v[m] = worker[m]
      BY RemoveFromFleet DEF TypeOK
    <3> HIDE DEF v
    <3>2. Shrinks(v)
      BY <3>1 DEF Shrinks
    <3>3. QED BY <3>2 DEF v
  <2>2. QED BY <1>7, <2>1 DEF WorkerGone, Shrink
<1>8. ASSUME NEW n \in Name, CollectWorker(n) \/ DeleteWorker(n) PROVE Shrink
  BY <1>8, MarkShrinks DEF CollectWorker, DeleteWorker, Shrink
<1>9. ASSUME NEW n \in Name, WorkerStatus(n) PROVE Quiet
  BY <1>9 DEF WorkerStatus, Quiet, NoWrite
<1>10. CASE Resync \/ LoadChanges
  BY <1>10 DEF Resync, LoadChanges, Quiet, NoWrite
<1>11. ASSUME NEW p \in Pool,
              EditPool(p) \/ DeletePool(p) \/ ReconFails(p) \/ FinalizeFails(p)
       PROVE  Quiet
  BY <1>11 DEF EditPool, DeletePool, ReconFails, FinalizeFails, CheckFailed, Done,
               Quiet, NoWrite
<1>12. CASE UNCHANGED vars
  BY <1>12 DEF vars, Quiet, NoWrite
<1>13. QED
  BY <1>1, <1>2, <1>3, <1>4, <1>5, <1>6, <1>7, <1>8, <1>9, <1>10, <1>11, <1>12
     DEF Next, Inside, Reconcile, Act, Outside, Creates

\* The reconcile in progress goes on, ends, or a new one begins.
LEMMA RoundKind ==
  [Next]_vars => \/ rc' = rc
                 \/ rc' = Idle
                 \/ \E p \in Pool : Begin(p)
<1> SUFFICES ASSUME [Next]_vars, ~(\E p \in Pool : Begin(p))
             PROVE  rc' = rc \/ rc' = Idle
  OBVIOUS
<1>1. ASSUME NEW p \in Pool, Act(p) \/ Finalize(p) \/ ReconFails(p) \/ FinalizeFails(p)
      PROVE  rc' = Idle
  BY <1>1 DEF Act, AddNode, DeleteNode, AddStateful, Neutral, Finalize,
              Release, ReconFails, FinalizeFails, CheckFailed, Done, InSync, Finish
<1>2. ASSUME NEW p \in Pool,
             Expire(p) \/ CollectorReleases(p) \/ EditPool(p) \/ DeletePool(p)
      PROVE  rc' = rc
  BY <1>2 DEF Expire, CollectorReleases, EditPool, DeletePool
<1>3. ASSUME NEW n \in Name, \/ WorkerGone(n) \/ CollectWorker(n)
                             \/ DeleteWorker(n) \/ WorkerStatus(n)
      PROVE  rc' = rc
  BY <1>3 DEF WorkerGone, CollectWorker, DeleteWorker, WorkerStatus
<1>4. CASE Deliver \/ Resync \/ LoadChanges \/ UNCHANGED vars
  BY <1>4 DEF Deliver, Resync, LoadChanges, vars
<1>5. CASE Crash
  BY <1>5 DEF Crash, Finish
<1>6. QED BY <1>1, <1>2, <1>3, <1>4, <1>5 DEF Next, Inside, Reconcile, Outside

LEMMA CreateType ==
  ASSUME TypeOK, NEW p \in Pool, AddNode(p)
  PROVE  \E n \in Name :
           LET w == [m \in DOMAIN worker \cup {n} |->
                       IF m = n THEN NewWorker(p) ELSE worker[m]]
           IN  /\ IsFleet(w) /\ Write(w)
               /\ DOMAIN w = DOMAIN worker \cup {n}
               /\ Cardinality(DOMAIN w) <= Cardinality(DOMAIN worker) + 1
               /\ n \notin DOMAIN worker
               /\ UNCHANGED cache
               /\ rc' = Idle
<1>1. PICK n \in Name :
        /\ Fresh(n)
        /\ Write([m \in DOMAIN worker \cup {n} |->
                    IF m = n THEN NewWorker(p) ELSE worker[m]])
  BY DEF AddNode
<1>2. NewWorker(p) \in WorkerNode
  BY NewWorkerType, ViewType DEF AddNode
<1>3. IsFleet(worker)
  BY DEF TypeOK
<1>4. UNCHANGED cache /\ rc' = Idle
  BY DEF AddNode, Done, Finish
<1>5. n \notin DOMAIN worker
  BY <1>1 DEF Fresh
<1> DEFINE w == [m \in DOMAIN worker \cup {n} |->
                   IF m = n THEN NewWorker(p) ELSE worker[m]]
<1>6. /\ IsFleet(w)
      /\ DOMAIN w = DOMAIN worker \cup {n}
      /\ Cardinality(DOMAIN w) <= Cardinality(DOMAIN worker) + 1
  BY <1>2, <1>3, AddToFleet
<1>7. Write(w)
  BY <1>1
<1>8. WITNESS n \in Name
<1>9. QED BY <1>4, <1>5, <1>6, <1>7

LEMMA FleetsStep == TypeOK /\ [Next]_vars => FleetsOK'
<1> SUFFICES ASSUME TypeOK, [Next]_vars PROVE FleetsOK'
  OBVIOUS
<1>0. IsFleet(worker) /\ IsFleet(cache) /\ IsBacklog(events)
  BY DEF TypeOK
<1>1. CASE Quiet
  BY <1>0, <1>1 DEF Quiet, NoWrite, FleetsOK, IsFleet, IsBacklog
<1>2. CASE Shrink
  <2>1. PICK w : Shrinks(w) /\ Write(w) /\ UNCHANGED cache
    BY <1>2 DEF Shrink
  <2>2. IsFleet(worker') /\ IsBacklog(events')
    BY <2>1, WriteType DEF Shrinks
  <2>3. QED BY <1>0, <2>1, <2>2 DEF FleetsOK, IsFleet
<1>3. CASE Creates
  <2>1. PICK w : IsFleet(w) /\ Write(w) /\ UNCHANGED cache
    BY <1>3, CreateType DEF Creates
  <2>2. IsFleet(worker') /\ IsBacklog(events')
    BY <2>1, WriteType
  <2>3. QED BY <1>0, <2>1, <2>2 DEF FleetsOK, IsFleet
<1>4. CASE Deliver
  BY <1>0, <1>4, TailOfBacklog DEF Deliver, FleetsOK, IsFleet
<1>5. CASE Crash
  BY <1>0, <1>5, EmptyBacklog DEF Crash, FleetsOK, IsFleet
<1>6. QED BY <1>1, <1>2, <1>3, <1>4, <1>5, StepKind

LEMMA RoundStep == TypeOK /\ [Next]_vars => RoundOK'
<1> SUFFICES ASSUME TypeOK, [Next]_vars PROVE RoundOK'
  OBVIOUS
<1>1. CASE rc' = rc
  BY <1>1 DEF TypeOK, RoundOK, Idle, IsFleet
<1>2. CASE rc' = Idle
  BY <1>2 DEF RoundOK, Idle
<1>3. ASSUME NEW p \in Pool, Begin(p) PROVE RoundOK'
  <2>1. rc'.view = cache /\ IsFleet(cache)
    BY <1>3 DEF Begin, TypeOK
  <2>2. spec[p] \in Bounds
    BY DEF TypeOK
  <2>3. rc' \in [step : {"act", "finalize"}, pool : Pool,
                 bounds : Bounds, view : {rc'.view}]
    BY <1>3, <2>1, <2>2 DEF Begin
  <2>4. QED BY <2>1, <2>3 DEF RoundOK, IsFleet
<1>4. QED BY <1>1, <1>2, <1>3, RoundKind

LEMMA TypeInit == Init => TypeOK
<1> SUFFICES ASSUME Init PROVE TypeOK
  OBVIOUS
<1>1. IsFleet(worker) /\ IsFleet(cache) /\ IsBacklog(events)
  BY EmptyFleet, EmptyBacklog DEF Init
<1>2. phase \in [Pool -> {"live", "deleting", "gone"}]
  BY DEF Init
<1>3. /\ blocked \subseteq Pool /\ queue \subseteq Pool
      /\ synced \subseteq Pool /\ timer \subseteq Pool
  BY DEF Init, Present
<1>4. spec \in [Pool -> Bounds] /\ usage \in Usages /\ rc = Idle
  BY DEF Init
<1>5. QED BY <1>1, <1>2, <1>3, <1>4 DEF TypeOK

\* The variables keep their types: worker, cache and every undelivered event
\* are finite fleets of well-formed worker nodes.
THEOREM TypeCorrect == Spec => []TypeOK
<1>1. TypeOK /\ [Next]_vars => TypeOK'
  <2>1. TypeOK' <=> FleetsOK' /\ RestOK' /\ RoundOK'
    BY DEF TypeOK, FleetsOK, RestOK, RoundOK
  <2>2. QED BY <2>1, FleetsStep, RestStep, RoundStep
<1>2. QED BY <1>1, TypeInit, PTL DEF Spec

-------------------------------------------------------------------------------
(***************************************************************************)
(* The inductive invariant.  None of the three safety properties is        *)
(* inductive: they depend on how far a listing can be behind.              *)
(***************************************************************************)
Size(w) == Cardinality(DOMAIN w)

\* The copy v of the fleet w lacks at most k of its nodes, and gives the others
\* their indices.
Close(v, w, k) ==
  /\ Cardinality(DOMAIN w \ DOMAIN v) <= k
  /\ \A n \in DOMAIN w \cap DOMAIN v : v[n].index = w[n].index

\* Each undelivered event is a creation at most, so a copy that k events
\* separate from the API server lacks at most k nodes.
Behind ==
  /\ Close(cache, worker, Len(events))
  /\ \A i \in 1 .. Len(events) : Close(events[i], worker, Len(events) - i)

\* Only the reconcile in progress creates, and creating ends it.
ViewBehind == rc # Idle => Close(rc.view, worker, MaxLag)

\* The pool that acts has not been released.
ActorPresent == rc.step = "act" => phase[rc.pool] # "gone"

IInv == /\ Behind /\ ViewBehind /\ ActorPresent
        /\ Overshoot /\ FewShareIndex /\ FewOrphans

LEMMA SizeType ==
  ASSUME NEW w, IsFleet(w)
  PROVE  Size(w) \in Nat
BY FS_CardinalityType DEF IsFleet, Size

LEMMA SubsetSize ==
  ASSUME NEW S, IsFiniteSet(S), NEW T, T \subseteq S
  PROVE  /\ IsFiniteSet(T)
         /\ Cardinality(T) \in Nat /\ Cardinality(S) \in Nat
         /\ Cardinality(T) <= Cardinality(S)
<1>1. T \in SUBSET S
  OBVIOUS
<1>2. QED BY <1>1, FS_Subset, FS_CardinalityType

LEMMA CloseToSelf ==
  ASSUME NEW w
  PROVE  Close(w, w, 0)
<1>1. DOMAIN w \ DOMAIN w = {}
  OBVIOUS
<1>2. Cardinality(DOMAIN w \ DOMAIN w) = 0
  BY <1>1, FS_EmptySet
<1>3. QED BY <1>2 DEF Close

\* Taking nodes away from a fleet brings it no further from its copies.
LEMMA CloseSmaller ==
  ASSUME NEW v, NEW w, IsFleet(w), NEW k \in Nat, Close(v, w, k),
         NEW u, DOMAIN u \subseteq DOMAIN w,
         \A m \in DOMAIN u : u[m].index = w[m].index
  PROVE  Close(v, u, k)
<1>1. IsFiniteSet(DOMAIN w \ DOMAIN v)
  BY SubsetSize DEF IsFleet
<1>2. /\ Cardinality(DOMAIN u \ DOMAIN v) <= Cardinality(DOMAIN w \ DOMAIN v)
      /\ Cardinality(DOMAIN u \ DOMAIN v) \in Nat
      /\ Cardinality(DOMAIN w \ DOMAIN v) \in Nat
  <2>1. DOMAIN u \ DOMAIN v \subseteq DOMAIN w \ DOMAIN v
    OBVIOUS
  <2>2. QED BY <1>1, <2>1, SubsetSize
<1>3. QED BY <1>2 DEF Close

\* A new node that the copy does not have brings the fleet one step from it.
LEMMA CloseLarger ==
  ASSUME NEW v, NEW w, IsFleet(w), NEW k \in Nat, Close(v, w, k),
         NEW n, n \notin DOMAIN v,
         NEW u, DOMAIN u = DOMAIN w \cup {n},
         \A m \in DOMAIN w : u[m].index = w[m].index
  PROVE  Close(v, u, k + 1)
<1> DEFINE S == DOMAIN w \ DOMAIN v
<1>1. IsFiniteSet(S)
  BY SubsetSize DEF IsFleet
<1>2. DOMAIN u \ DOMAIN v = S \cup {n}
  OBVIOUS
<1>3. Cardinality(S \cup {n}) <= Cardinality(S) + 1 /\ Cardinality(S) \in Nat
  BY <1>1, OneMoreOrLess
<1>4. Cardinality(S \cup {n}) \in Nat
  BY <1>1, FS_AddElement, FS_CardinalityType
<1>5. Cardinality(S) <= k
  BY DEF Close
<1> HIDE DEF S
<1>6. Cardinality(DOMAIN u \ DOMAIN v) <= k + 1
  BY <1>2, <1>3, <1>4, <1>5
<1>7. QED BY <1>6 DEF Close

\* What is close to a fleet is not much smaller.
LEMMA CloseSize ==
  ASSUME NEW v, IsFleet(v), NEW w, IsFleet(w), NEW k \in Nat, Close(v, w, k)
  PROVE  Size(w) <= Size(v) + k
<1> DEFINE S == DOMAIN w \ DOMAIN v
<1>1. IsFiniteSet(S) /\ IsFiniteSet(DOMAIN v)
  BY SubsetSize DEF IsFleet
<1>2. /\ IsFiniteSet(S \cup DOMAIN v)
      /\ Cardinality(S \cup DOMAIN v) =
           Cardinality(S) + Cardinality(DOMAIN v) - Cardinality(S \cap DOMAIN v)
  BY <1>1, FS_Union
<1>3. DOMAIN w \subseteq S \cup DOMAIN v
  OBVIOUS
<1>4. Size(w) <= Cardinality(S \cup DOMAIN v) /\ Size(w) \in Nat
  BY <1>2, <1>3, SubsetSize DEF Size
<1>5. S \cap DOMAIN v = {}
  OBVIOUS
<1>6. Cardinality(S \cap DOMAIN v) = 0
  BY <1>5, FS_EmptySet
<1>7. Cardinality(S) \in Nat /\ Size(v) \in Nat /\ Cardinality(S) <= k
  BY <1>1, FS_CardinalityType DEF Close, Size
<1> HIDE DEF S
<1>8. QED BY <1>2, <1>4, <1>6, <1>7 DEF Size

\* The copies of the fleet that are still to be listed.
Copies == {cache} \cup {events[i] : i \in 1 .. Len(events)}

\* Appending the present to the backlog keeps every copy close enough when the
\* write takes it at most one node away from each.
LEMMA BehindWrite ==
  ASSUME TypeOK, Behind, NEW w, IsFleet(w), Write(w), UNCHANGED cache,
         \A v \in Copies, k \in Nat : Close(v, worker, k) => Close(v, w, k + 1)
  PROVE  Behind'
<1>1. /\ IsBacklog(events)
      /\ worker' = w /\ events' = Append(events, w) /\ cache' = cache
  BY DEF TypeOK, Write
<1>2. /\ Len(events) \in Nat
      /\ Len(events') = Len(events) + 1
      /\ \A i \in 1 .. Len(events) : events'[i] = events[i]
      /\ events'[Len(events) + 1] = w
  BY <1>1, AppendToBacklog
<1>3. Close(cache', worker', Len(events'))
  BY <1>1, <1>2 DEF Behind, Copies
<1>4. ASSUME NEW i \in 1 .. Len(events')
      PROVE  Close(events'[i], worker', Len(events') - i)
  <2>1. CASE i = Len(events) + 1
    BY <1>1, <1>2, <2>1, CloseToSelf
  <2>2. CASE i \in 1 .. Len(events)
    <3>1. Close(events[i], worker, Len(events) - i) /\ events[i] \in Copies
      BY <2>2 DEF Behind, Copies
    <3>2. Len(events) - i \in Nat /\ (Len(events) - i) + 1 = Len(events') - i
      BY <1>2, <2>2
    <3>3. Close(events[i], w, (Len(events) - i) + 1)
      BY <3>1, <3>2
    <3>4. QED BY <1>1, <1>2, <2>2, <3>2, <3>3
  <2>3. QED BY <1>2, <2>1, <2>2
<1>5. QED BY <1>3, <1>4 DEF Behind

\* A step that is no creation only takes nodes away.
LEMMA OnlyCreatesGrow ==
  ASSUME TypeOK, [Next]_vars, ~Creates
  PROVE  Shrinks(worker')
<1>0. Shrinks(worker)
  BY DEF Shrinks, TypeOK
<1>1. CASE Quiet \/ Deliver \/ Crash
  BY <1>0, <1>1 DEF Quiet, NoWrite, Deliver, Crash, Shrinks, IsFleet
<1>2. CASE Shrink
  BY <1>2 DEF Shrink, Write, Shrinks, IsFleet
<1>3. QED BY <1>1, <1>2, StepKind

\* Beginning a reconcile copies the cache and touches nothing else that counts.
LEMMA BeginFacts ==
  ASSUME NEW p \in Pool, Begin(p)
  PROVE  /\ rc'.view = cache /\ rc'.pool = p
         /\ rc'.step = "act" => phase[p] = "live"
         /\ Len(events) <= MaxLag
         /\ worker' = worker /\ phase' = phase
BY DEF Begin, k8s

\* An action of an ongoing reconcile is no Idle one.
LEMMA CreatesBusy == Creates => rc # Idle /\ rc' = Idle
BY DEF Creates, AddNode, At, Idle, Done, Finish

\* What a creation does: a name that no copy has, an index that the listing
\* does not have, an owner that is still there.
LEMMA CreateFacts ==
  ASSUME TypeOK, NEW p \in Pool, AddNode(p)
  PROVE  \E n \in Name :
           /\ n \notin DOMAIN worker
           /\ \A v \in Copies : n \notin DOMAIN v
           /\ DOMAIN worker' = DOMAIN worker \cup {n}
           /\ \A m \in DOMAIN worker : worker'[m] = worker[m]
           /\ \A m \in DOMAIN rc.view : rc.view[m].index # worker'[n].index
           /\ worker'[n].pool = p
           /\ IsFleet(worker') /\ Write(worker')
           /\ UNCHANGED <<cache, phase>>
           /\ rc.step = "act" /\ rc.pool = p /\ rc # Idle
           /\ IsFleet(rc.view)
<1>1. PICK n \in Name :
        /\ Fresh(n)
        /\ Write([m \in DOMAIN worker \cup {n} |->
                    IF m = n THEN NewWorker(p) ELSE worker[m]])
  BY DEF AddNode
<1>2. /\ n \notin DOMAIN worker
      /\ \A v \in Copies : n \notin DOMAIN v
  BY <1>1 DEF Fresh, Copies
<1>3. worker' = [m \in DOMAIN worker \cup {n} |->
                   IF m = n THEN NewWorker(p) ELSE worker[m]]
  BY <1>1 DEF Write
<1>4. IsFleet(rc.view) /\ rc # Idle /\ rc.pool = p /\ rc.step = "act"
  BY ViewType DEF AddNode, At, Idle
<1>5. \A m \in DOMAIN rc.view : rc.view[m].index # NewWorker(p).index
  BY <1>4, NewWorkerType
<1>6. NewWorker(p) \in WorkerNode /\ NewWorker(p).pool = p
  BY <1>4, NewWorkerType DEF NewWorker
<1>7. /\ DOMAIN worker' = DOMAIN worker \cup {n}
      /\ \A m \in DOMAIN worker : worker'[m] = worker[m]
      /\ worker'[n] = NewWorker(p)
  BY <1>2, <1>3
<1>8. IsFleet(worker')
  BY <1>3, <1>6, AddToFleet DEF TypeOK
<1>9. Write(worker')
  BY <1>1, <1>3
<1>10. UNCHANGED <<cache, phase>>
  BY DEF AddNode, Done, k8s
<1>11. QED BY <1>2, <1>4, <1>5, <1>6, <1>7, <1>8, <1>9, <1>10

LEMMA BehindStep == TypeOK /\ Behind /\ [Next]_vars => Behind'
<1> SUFFICES ASSUME TypeOK, Behind, [Next]_vars PROVE Behind'
  OBVIOUS
<1>0. IsFleet(worker) /\ IsBacklog(events)
  BY DEF TypeOK
<1>1. CASE Quiet
  BY <1>1 DEF Quiet, NoWrite, Behind, Close
<1>2. CASE Shrink
  <2>1. PICK w : Shrinks(w) /\ Write(w) /\ UNCHANGED cache
    BY <1>2 DEF Shrink
  <2>2. ASSUME NEW v \in Copies, NEW k \in Nat, Close(v, worker, k)
        PROVE  Close(v, w, k + 1)
    <3>1. Close(v, w, k)
      BY <1>0, <2>1, <2>2, CloseSmaller DEF Shrinks
    <3>2. Cardinality(DOMAIN w \ DOMAIN v) \in Nat
      BY <2>1, SubsetSize DEF Shrinks, IsFleet
    <3>3. QED BY <3>1, <3>2 DEF Close
  <2>3. QED BY <2>1, <2>2, BehindWrite DEF Shrinks
<1>3. CASE Creates
  <2>1. PICK n \in Name :
           /\ \A v \in Copies : n \notin DOMAIN v
           /\ DOMAIN worker' = DOMAIN worker \cup {n}
           /\ \A m \in DOMAIN worker : worker'[m] = worker[m]
           /\ IsFleet(worker') /\ Write(worker') /\ UNCHANGED cache
    BY <1>3, CreateFacts DEF Creates
  <2> DEFINE w == worker'
  <2>2. \A v \in Copies, k \in Nat : Close(v, worker, k) => Close(v, w, k + 1)
    BY <1>0, <2>1, CloseLarger
  <2>3. IsFleet(w) /\ Write(w) /\ UNCHANGED cache
    BY <2>1
  <2> HIDE DEF w
  <2>4. QED BY <2>2, <2>3, BehindWrite
<1>4. CASE Deliver
  <2>1. /\ events # <<>> /\ worker' = worker
        /\ cache' = Head(events) /\ events' = Tail(events)
    BY <1>4 DEF Deliver
  <2>2. /\ cache' = events[1]
        /\ Len(events) \in Nat \ {0}
        /\ Len(events') = Len(events) - 1
        /\ \A i \in 1 .. Len(events') : events'[i] = events[i + 1]
    BY <1>0, <2>1, TailOfBacklog
  <2>3. Close(cache', worker', Len(events'))
    BY <2>1, <2>2 DEF Behind
  <2>4. ASSUME NEW i \in 1 .. Len(events')
        PROVE  Close(events'[i], worker', Len(events') - i)
    <3>1. i + 1 \in 1 .. Len(events) /\ Len(events) - (i + 1) = Len(events') - i
      BY <2>2
    <3>2. Close(events[i + 1], worker, Len(events) - (i + 1))
      BY <3>1 DEF Behind
    <3>3. QED BY <2>1, <2>2, <3>1, <3>2
  <2>5. QED BY <2>3, <2>4 DEF Behind
<1>5. CASE Crash
  <2>1. worker' = worker /\ cache' = worker /\ events' = <<>> /\ Len(events') = 0
    BY <1>5, EmptySeq DEF Crash
  <2>2. QED BY <2>1, CloseToSelf DEF Behind
<1>6. QED BY <1>1, <1>2, <1>3, <1>4, <1>5, StepKind

LEMMA ViewBehindStep ==
  TypeOK /\ Behind /\ ViewBehind /\ [Next]_vars => ViewBehind'
<1> SUFFICES ASSUME TypeOK, Behind, ViewBehind, [Next]_vars, (rc # Idle)'
             PROVE  Close(rc'.view, worker', MaxLag)
  BY DEF ViewBehind, Close
<1>0. IsFleet(worker) /\ MaxLag \in Nat /\ Len(events) \in Nat
  BY LenProperties, NodePoolAssumption DEF TypeOK, IsBacklog
<1>1. ASSUME NEW p \in Pool, Begin(p)
      PROVE  Close(rc'.view, worker', MaxLag)
  <2>1. rc'.view = cache /\ Len(events) <= MaxLag /\ worker' = worker
    BY <1>1, BeginFacts
  <2>2. Close(cache, worker, Len(events))
    BY DEF Behind
  <2>3. Cardinality(DOMAIN worker \ DOMAIN cache) \in Nat
    BY <1>0, SubsetSize DEF IsFleet
  <2>4. Close(cache, worker, MaxLag)
    BY <1>0, <2>1, <2>2, <2>3 DEF Close
  <2>5. QED BY <2>1, <2>4
<1>2. CASE rc' = rc
  <2>1. ~Creates
    BY <1>2, CreatesBusy DEF Idle
  <2>2. Shrinks(worker')
    BY <2>1, OnlyCreatesGrow
  <2>3. Close(rc.view, worker, MaxLag)
    BY <1>2 DEF ViewBehind, Idle
  <2>4. Close(rc.view, worker', MaxLag)
    BY <1>0, <2>2, <2>3, CloseSmaller DEF Shrinks
  <2>5. QED BY <1>2, <2>4
<1>3. QED BY <1>1, <1>2, RoundKind DEF Idle

\* A creation is decided on a listing that is below the pool's Spec.Max.
LEMMA CreateBelowMax ==
  ASSUME NEW p, AddNode(p)
  PROVE  Size(rc.view) < rc.bounds.max
<1>1. PICK first : Calculate(Input(first)) = "ADD_NODE"
  BY DEF AddNode, Decides
<1>2. FleetSize(Input(first)) < Input(first).max
  BY <1>1, AddDecision
<1>3. Input(first).nodes = rc.view /\ Input(first).max = rc.bounds.max
  BY DEF Input
<1>4. QED BY <1>2, <1>3 DEF FleetSize, Size

LEMMA OvershootStep ==
  TypeOK /\ ViewBehind /\ Overshoot /\ [Next]_vars => Overshoot'
<1> SUFFICES ASSUME TypeOK, ViewBehind, Overshoot, [Next]_vars PROVE Overshoot'
  OBVIOUS
<1>0. /\ IsFleet(worker) /\ Size(worker) \in Nat /\ MaxLag \in Nat
      /\ \A b \in Bounds : b.max \in Nat
  BY SizeType, NodePoolAssumption DEF TypeOK
<1>1. CASE Creates
  <2>1. PICK p \in Pool : AddNode(p)
    BY <1>1 DEF Creates
  <2>2. Size(worker') <= Size(worker) + 1 /\ Size(worker') \in Nat
    BY <1>0, <2>1, CreateType, SizeType DEF Size, Write
  <2>3. /\ IsFleet(rc.view) /\ rc.bounds \in Bounds
        /\ Close(rc.view, worker, MaxLag)
        /\ Size(rc.view) < rc.bounds.max
    BY <1>1, <2>1, CreatesBusy, CreateBelowMax, ViewType DEF AddNode, ViewBehind
  <2>4. Size(worker) <= Size(rc.view) + MaxLag
    BY <1>0, <2>3, CloseSize
  <2>5. Size(rc.view) \in Nat /\ rc.bounds.max \in Nat
    BY <1>0, <2>3, SizeType
  <2>6. Size(worker') <= rc.bounds.max + MaxLag
    BY <1>0, <2>2, <2>3, <2>4, <2>5
  <2>7. QED BY <2>3, <2>6 DEF Overshoot, Size
<1>2. CASE ~Creates
  <2>1. Shrinks(worker')
    BY <1>2, OnlyCreatesGrow
  <2>2. CASE DOMAIN worker = {}
    BY <2>1, <2>2 DEF Shrinks, Overshoot
  <2>3. CASE \E b \in Bounds : Size(worker) <= b.max + MaxLag
    <3>1. PICK b \in Bounds : Size(worker) <= b.max + MaxLag
      BY <2>3
    <3>2. Size(worker') <= Size(worker) /\ Size(worker') \in Nat
      BY <1>0, <2>1, SubsetSize DEF Shrinks, Size, IsFleet
    <3>3. Size(worker') <= b.max + MaxLag
      BY <1>0, <3>1, <3>2
    <3>4. QED BY <3>3 DEF Overshoot, Size
  <2>4. QED BY <2>2, <2>3 DEF Overshoot, Size
<1>3. QED BY <1>1, <1>2

-------------------------------------------------------------------------------
(***************************************************************************)
(* Shared indices.                                                         *)
(***************************************************************************)
Holders(w, i) == {m \in DOMAIN w : w[m].index = i}

LEMMA HoldersAreFew ==
  FewShareIndex <=>
    \A n \in DOMAIN worker :
       Cardinality(Holders(worker, worker[n].index)) <= MaxLag + 1
BY DEF FewShareIndex, Holders

LEMMA ShareStep ==
  TypeOK /\ ViewBehind /\ FewShareIndex /\ [Next]_vars => FewShareIndex'
<1> SUFFICES ASSUME TypeOK, ViewBehind, FewShareIndex, [Next]_vars,
                    NEW a \in DOMAIN worker'
             PROVE  Cardinality(Holders(worker', worker'[a].index)) <= MaxLag + 1
  BY DEF FewShareIndex, Holders
<1> DEFINE i == worker'[a].index
<1>0. IsFiniteSet(DOMAIN worker) /\ MaxLag \in Nat
  BY NodePoolAssumption DEF TypeOK, IsFleet
<1>1. CASE Creates
  <2>1. PICK n \in Name :
           /\ n \notin DOMAIN worker
           /\ DOMAIN worker' = DOMAIN worker \cup {n}
           /\ \A m \in DOMAIN worker : worker'[m] = worker[m]
           /\ \A m \in DOMAIN rc.view : rc.view[m].index # worker'[n].index
           /\ rc # Idle
    BY <1>1, CreateFacts DEF Creates
  <2>2. CASE i = worker'[n].index
    <3>1. Close(rc.view, worker, MaxLag)
      BY <2>1 DEF ViewBehind
    <3>2. Holders(worker, i) \subseteq DOMAIN worker \ DOMAIN rc.view
      BY <2>1, <2>2, <3>1 DEF Holders, Close
    <3>3. IsFiniteSet(DOMAIN worker \ DOMAIN rc.view)
      BY <1>0, SubsetSize
    <3>4. /\ IsFiniteSet(Holders(worker, i))
          /\ Cardinality(Holders(worker, i)) \in Nat
          /\ Cardinality(Holders(worker, i))
               <= Cardinality(DOMAIN worker \ DOMAIN rc.view)
          /\ Cardinality(DOMAIN worker \ DOMAIN rc.view) \in Nat
      BY <3>2, <3>3, SubsetSize
    <3>5. Cardinality(Holders(worker, i)) <= MaxLag
      BY <1>0, <3>1, <3>4 DEF Close
    <3>6. Holders(worker', i) = Holders(worker, i) \cup {n}
      BY <2>1, <2>2 DEF Holders
    <3>7. Cardinality(Holders(worker', i)) <= Cardinality(Holders(worker, i)) + 1
      BY <3>4, <3>6, OneMoreOrLess
    <3>8. Cardinality(Holders(worker', i)) \in Nat
      BY <3>4, <3>6, FS_AddElement, FS_CardinalityType
    <3>9. QED BY <1>0, <3>4, <3>5, <3>7, <3>8
  <2>3. CASE i # worker'[n].index
    <3>1. Holders(worker', i) = Holders(worker, i)
      BY <2>1, <2>3 DEF Holders
    <3>2. a \in DOMAIN worker /\ worker[a].index = i
      BY <2>1, <2>3
    <3>3. QED BY <3>1, <3>2, HoldersAreFew
  <2>4. QED BY <2>2, <2>3
<1>2. CASE ~Creates
  <2>1. Shrinks(worker')
    BY <1>2, OnlyCreatesGrow
  <2>2. Holders(worker', i) \subseteq Holders(worker, i)
    BY <2>1 DEF Shrinks, Holders
  <2>3. a \in DOMAIN worker /\ worker[a].index = i
    BY <2>1 DEF Shrinks
  <2>4. Cardinality(Holders(worker, i)) <= MaxLag + 1
    BY <2>3, HoldersAreFew
  <2>5. IsFiniteSet(Holders(worker, i))
    BY <1>0, SubsetSize DEF Holders
  <2>6. /\ Cardinality(Holders(worker', i)) <= Cardinality(Holders(worker, i))
        /\ Cardinality(Holders(worker', i)) \in Nat
        /\ Cardinality(Holders(worker, i)) \in Nat
    BY <2>2, <2>5, SubsetSize
  <2>7. QED BY <1>0, <2>4, <2>6
<1>3. QED BY <1>1, <1>2

-------------------------------------------------------------------------------
(***************************************************************************)
(* Orphans.                                                                *)
(***************************************************************************)

\* A pool is released by Finalize alone, which saw an edge without nodes.
LEMMA PhaseKind ==
  TypeOK /\ [Next]_vars =>
    \/ phase' = phase
    \/ /\ \A q \in Pool : phase'[q] = "gone" => phase[q] = "gone"
       /\ UNCHANGED <<worker, rc>>
    \/ rc.step = "finalize" /\ rc' = Idle /\ DOMAIN rc.view = {} /\ worker' = worker
<1> SUFFICES ASSUME TypeOK, [Next]_vars, phase' # phase
             PROVE  \/ /\ \A q \in Pool : phase'[q] = "gone" => phase[q] = "gone"
                       /\ UNCHANGED <<worker, rc>>
                    \/ /\ rc.step = "finalize" /\ rc' = Idle
                       /\ DOMAIN rc.view = {} /\ worker' = worker
  OBVIOUS
<1>1. ASSUME NEW p \in Pool, DeletePool(p)
      PROVE  /\ \A q \in Pool : phase'[q] = "gone" => phase[q] = "gone"
             /\ UNCHANGED <<worker, rc>>
  BY <1>1 DEF DeletePool, TypeOK
<1>2. ASSUME NEW p \in Pool, Finalize(p)
      PROVE  /\ rc.step = "finalize" /\ rc' = Idle
             /\ DOMAIN rc.view = {} /\ worker' = worker
  BY <1>2 DEF Finalize, Release, At, Done, Finish, NoWrite, k8s
<1>3. ASSUME NEW p \in Pool, Begin(p) PROVE FALSE
  BY <1>3 DEF Begin, k8s
<1>4. ASSUME NEW p \in Pool, Act(p) \/ ReconFails(p) \/ FinalizeFails(p) PROVE FALSE
  BY <1>4 DEF Act, AddNode, DeleteNode, AddStateful, Neutral,
              ReconFails, FinalizeFails, CheckFailed, Done, InSync, k8s
<1>5. ASSUME NEW p \in Pool, Expire(p) \/ CollectorReleases(p) \/ EditPool(p)
      PROVE  FALSE
  BY <1>5 DEF Expire, CollectorReleases, EditPool, k8s
<1>6. ASSUME NEW n \in Name, \/ WorkerGone(n) \/ CollectWorker(n)
                             \/ DeleteWorker(n) \/ WorkerStatus(n)
      PROVE  FALSE
  BY <1>6 DEF WorkerGone, CollectWorker, DeleteWorker, WorkerStatus, k8s
<1>7. CASE Deliver \/ Resync \/ LoadChanges \/ Crash \/ UNCHANGED vars
  BY <1>7 DEF Deliver, Resync, LoadChanges, Crash, vars, k8s
<1>8. QED BY <1>1, <1>2, <1>3, <1>4, <1>5, <1>6, <1>7 DEF Next, Inside, Reconcile, Outside

LEMMA ActorPresentStep ==
  TypeOK /\ ActorPresent /\ [Next]_vars => ActorPresent'
<1> SUFFICES ASSUME TypeOK, ActorPresent, [Next]_vars, (rc.step = "act")'
             PROVE  phase'[rc'.pool] # "gone"
  BY DEF ActorPresent
<1>1. ASSUME NEW p \in Pool, Begin(p) PROVE phase'[rc'.pool] # "gone"
  BY <1>1, BeginFacts
<1>2. CASE rc' = rc
  <2>1. rc.pool \in Pool /\ rc.step = "act"
    BY <1>2 DEF TypeOK, Idle
  <2>2. phase[rc.pool] # "gone"
    BY <2>1 DEF ActorPresent
  <2>3. QED BY <1>2, <2>1, <2>2, PhaseKind DEF Idle
<1>3. QED BY <1>1, <1>2, RoundKind DEF Idle

LEMMA OrphansStep ==
  TypeOK /\ ViewBehind /\ ActorPresent /\ FewOrphans /\ [Next]_vars => FewOrphans'
<1> SUFFICES ASSUME TypeOK, ViewBehind, ActorPresent, FewOrphans, [Next]_vars
             PROVE  Cardinality(Orphans') <= MaxLag
  BY DEF FewOrphans
<1>0. /\ IsFiniteSet(DOMAIN worker) /\ MaxLag \in Nat
      /\ \A n \in DOMAIN worker : worker[n].pool \in Pool
  BY NodePoolAssumption DEF TypeOK, IsFleet, WorkerNode
<1>1. CASE Orphans' \subseteq Orphans
  <2>1. IsFiniteSet(Orphans)
    BY <1>0, SubsetSize DEF Orphans
  <2>2. /\ Cardinality(Orphans') <= Cardinality(Orphans)
        /\ Cardinality(Orphans') \in Nat /\ Cardinality(Orphans) \in Nat
    BY <1>1, <2>1, SubsetSize
  <2>3. QED BY <1>0, <2>2 DEF FewOrphans
<1>2. CASE Creates
  <2>1. PICK p \in Pool : AddNode(p)
    BY <1>2 DEF Creates
  <2>2. PICK n \in Name :
           /\ DOMAIN worker' = DOMAIN worker \cup {n}
           /\ \A m \in DOMAIN worker : worker'[m] = worker[m]
           /\ worker'[n].pool = p
           /\ UNCHANGED phase
           /\ rc.step = "act" /\ rc.pool = p
    BY <2>1, CreateFacts
  <2>3. Orphans' \subseteq Orphans
    BY <2>2 DEF Orphans, ActorPresent
  <2>4. QED BY <1>1, <2>3
<1>3. CASE ~Creates
  <2>1. Shrinks(worker')
    BY <1>3, OnlyCreatesGrow
  <2>2. CASE phase' = phase
    BY <1>1, <2>1, <2>2 DEF Orphans, Shrinks
  <2>3. CASE \A q \in Pool : phase'[q] = "gone" => phase[q] = "gone"
    BY <1>0, <1>1, <2>1, <2>3 DEF Orphans, Shrinks
  <2>4. CASE rc.step = "finalize" /\ DOMAIN rc.view = {}
    <3>1. rc # Idle
      BY <2>4 DEF Idle
    <3>2. Close(rc.view, worker, MaxLag)
      BY <3>1 DEF ViewBehind
    <3>3. DOMAIN worker \ DOMAIN rc.view = DOMAIN worker
      BY <2>4
    <3>4. Cardinality(DOMAIN worker) <= MaxLag
      BY <3>2, <3>3 DEF Close
    <3>5. Orphans' \subseteq DOMAIN worker
      BY <2>1 DEF Orphans, Shrinks
    <3>6. /\ Cardinality(Orphans') <= Cardinality(DOMAIN worker)
          /\ Cardinality(Orphans') \in Nat /\ Cardinality(DOMAIN worker) \in Nat
      BY <1>0, <3>5, SubsetSize
    <3>7. QED BY <1>0, <3>4, <3>6
  <2>5. QED BY <2>2, <2>3, <2>4, PhaseKind
<1>4. QED BY <1>2, <1>3

-------------------------------------------------------------------------------
LEMMA IInvInit == Init => IInv
<1> SUFFICES ASSUME Init PROVE IInv
  OBVIOUS
<1>1. /\ DOMAIN worker = {} /\ cache = worker /\ rc = Idle
      /\ events = <<>> /\ Len(events) = 0
  BY EmptySeq DEF Init
<1>2. Behind
  BY <1>1, CloseToSelf DEF Behind
<1>3. Orphans = {}
  BY <1>1 DEF Orphans
<1>4. Cardinality(Orphans) <= MaxLag
  BY <1>3, FS_EmptySet, NodePoolAssumption
<1>5. QED BY <1>1, <1>2, <1>4 DEF IInv, ViewBehind, ActorPresent, Overshoot,
                                  FewShareIndex, FewOrphans, Idle

LEMMA IInvStep == TypeOK /\ IInv /\ [Next]_vars => IInv'
BY BehindStep, ViewBehindStep, ActorPresentStep, OvershootStep, ShareStep,
   OrphansStep DEF IInv

LEMMA Invariant == Spec => []IInv
BY IInvInit, IInvStep, TypeCorrect, PTL DEF Spec

\* However the watch, the crashes and the owner interleave, the worker nodes of
\* the edge never outnumber the largest Spec.Max by more than the lag of the
\* cache: the decision of nodepool_controller.go:288-339, taken on a listing
\* that is stale when it is used.
THEOREM OvershootBounded == Spec => []Overshoot
<1>1. IInv => Overshoot
  BY DEF IInv
<1>2. QED BY <1>1, Invariant, PTL

\* For any number of pools and nodes an index (nodepool_controller.go:317-332)
\* is shared by at most MaxLag + 1 worker nodes, although nodes are released
\* and deleted between the listing and the creation; by one when the listings
\* are up to date.
THEOREM IndicesShared == Spec => []FewShareIndex
<1>1. IInv => FewShareIndex
  BY DEF IInv
<1>2. QED BY <1>1, Invariant, PTL

\* Released pools leave at most MaxLag worker nodes behind, all of them
\* together; none when the listings are up to date (finalize,
\* nodepool_controller.go:105-153).
THEOREM OrphansBounded == Spec => []FewOrphans
<1>1. IInv => FewOrphans
  BY DEF IInv
<1>2. QED BY <1>1, Invariant, PTL
-------------------------------------------------------------------------------
(***************************************************************************)
(* The floor: downscaling, when listings are up to date and nobody but the *)
(* pools deletes worker nodes.  Whatever the pools delete is, at that      *)
(* moment, the node with the largest index; so below a terminating node    *)
(* there are always as many staying ones as the least Spec.Min, and while  *)
(* it is there no other node is in danger.                                 *)
(***************************************************************************)

\* Listings are up to date, and only the pools delete.
LeftAlone ==
  /\ MaxLag = 0
  /\ "delete_worker" \notin Interference
  /\ "delete_pool" \notin Interference

\* No pool can be told to have fewer than m nodes.
IsFloor(m) == m \in Nat /\ \A b \in Bounds : m <= b.min

LeastMin == CHOOSE m \in {b.min : b \in Bounds} : IsFloor(m)

Below(w, i) == {s \in Staying(w) : w[s].index < i}

\* Below a terminating node at least m nodes stay, and indices are unique.
Safe(w, m) ==
  /\ \A d \in DOMAIN w : w[d].deleting => Cardinality(Below(w, w[d].index)) >= m
  /\ \A a, b \in DOMAIN w : w[a].index = w[b].index => a = b

UniqueIndex ==
  \A a, b \in DOMAIN worker : worker[a].index = worker[b].index => a = b

NoneDeleting == \A p \in Pool : phase[p] # "deleting"

\* The cache, or the last undelivered event, is the truth.
Latest ==
  IF events = <<>> THEN cache = worker ELSE events[Len(events)] = worker

\* Since a round began nodes may have gone for good, but nothing else changed.
Exact(v) ==
  /\ \A n \in DOMAIN worker : n \in DOMAIN v /\ worker[n] = v[n]
  /\ Staying(v) \subseteq DOMAIN worker

ViewExact(m) == rc # Idle => Exact(rc.view) /\ Safe(rc.view, m)

FloorInv(m) ==
  NoneDeleting /\ Latest /\ Safe(worker, m) /\ ViewExact(m)

\* With up-to-date listings nobody shares an index and nobody is an orphan.
LEMMA NothingBehind ==
  ASSUME LeftAlone, TypeOK, FewShareIndex, FewOrphans
  PROVE  /\ \A a, b \in DOMAIN worker : worker[a].index = worker[b].index => a = b
         /\ Orphans = {}
<1>0. IsFiniteSet(DOMAIN worker) /\ MaxLag = 0
  BY DEF TypeOK, IsFleet, LeftAlone
<1>1. ASSUME NEW a \in DOMAIN worker, NEW b \in DOMAIN worker,
             worker[a].index = worker[b].index, a # b
      PROVE  FALSE
  <2> DEFINE H == Holders(worker, worker[a].index)
  <2>1. Cardinality(H) <= 1
    BY <1>0, HoldersAreFew
  <2>2. IsFiniteSet(H) /\ {a, b} \subseteq H
    BY <1>0, <1>1, SubsetSize DEF Holders
  <2>3. Cardinality({a, b}) <= Cardinality(H) /\ Cardinality(H) \in Nat
    BY <2>2, SubsetSize
  <2>4. Cardinality({a, b}) = 2
    <3>1. IsFiniteSet({a}) /\ Cardinality({a}) = 1
      BY FS_Singleton
    <3>2. {a, b} = {a} \cup {b} /\ b \notin {a}
      BY <1>1
    <3>3. QED BY <3>1, <3>2, FS_AddElement
  <2> HIDE DEF H
  <2>5. QED BY <2>1, <2>3, <2>4
<1>2. Orphans = {}
  <2>1. IsFiniteSet(Orphans)
    BY <1>0, SubsetSize DEF Orphans
  <2>2. Cardinality(Orphans) \in Nat /\ Cardinality(Orphans) <= 0
    BY <1>0, <2>1, FS_CardinalityType DEF FewOrphans
  <2>3. Cardinality(Orphans) = 0
    BY <2>2
  <2>4. QED BY <2>1, <2>3, FS_EmptySet
<1>3. QED BY <1>1, <1>2

\* What can happen to the fleet of an edge that is left alone.
LEMMA FleetChange ==
  ASSUME LeftAlone, TypeOK, FewShareIndex, FewOrphans, NoneDeleting, [Next]_vars
  PROVE  \/ worker' = worker
         \/ \E n \in Name : WorkerGone(n)
         \/ \E p \in Pool : AddNode(p) \/ DeleteNode(p) \/ AddStateful(p)
<1>1. ASSUME NEW p \in Pool,
             \/ Begin(p) \/ Neutral(p) \/ Finalize(p) \/ Expire(p)
             \/ CollectorReleases(p) \/ EditPool(p) \/ ReconFails(p) \/ FinalizeFails(p)
             \/ DeletePool(p)
      PROVE  worker' = worker
  BY <1>1 DEF Begin, Neutral, Finalize, Expire, CollectorReleases, EditPool,
              ReconFails, FinalizeFails, DeletePool, CheckFailed, NoWrite
<1>2. ASSUME NEW n \in Name, CollectWorker(n) PROVE FALSE
  <2>1. worker[n].pool \in Pool /\ n \in DOMAIN worker
    BY <1>2 DEF CollectWorker, TypeOK, IsFleet, WorkerNode
  <2>2. phase[worker[n].pool] = "gone"
    BY <1>2, <2>1 DEF CollectWorker, NoneDeleting
  <2>3. n \in Orphans
    BY <2>1, <2>2 DEF Orphans
  <2>4. QED BY <2>3, NothingBehind
<1>3. ASSUME NEW n \in Name, DeleteWorker(n) PROVE FALSE
  BY <1>3 DEF DeleteWorker, LeftAlone
<1>4. ASSUME NEW n \in Name, WorkerStatus(n) PROVE worker' = worker
  BY <1>4 DEF WorkerStatus
<1>5. CASE Deliver \/ Resync \/ LoadChanges \/ Crash \/ UNCHANGED vars
  BY <1>5 DEF Deliver, Resync, LoadChanges, Crash, vars
<1>6. QED BY <1>1, <1>2, <1>3, <1>4, <1>5
          DEF Next, Inside, Reconcile, Act, Outside

LEMMA GoneFacts ==
  ASSUME TypeOK, NEW n \in Name, WorkerGone(n)
  PROVE  /\ n \in DOMAIN worker /\ worker[n].deleting
         /\ DOMAIN worker' = DOMAIN worker \ {n}
         /\ \A s \in DOMAIN worker' : worker'[s] = worker[s]
         /\ rc' = rc
<1> DEFINE v == Restrict(worker, DOMAIN worker \ {n})
<1>1. worker' = v
  BY DEF WorkerGone, Write
<1>2. n \in DOMAIN worker /\ worker[n].deleting /\ rc' = rc
  BY DEF WorkerGone
<1>3. DOMAIN v = DOMAIN worker \ {n} /\ \A s \in DOMAIN v : v[s] = worker[s]
  BY RemoveFromFleet DEF TypeOK
<1> HIDE DEF v
<1>4. QED BY <1>1, <1>2, <1>3

\* A tag changes no index and no deletion mark.
LEMMA TagFacts ==
  ASSUME TypeOK, NEW p \in Pool, AddStateful(p)
  PROVE  /\ DOMAIN worker' = DOMAIN worker
         /\ \A s \in DOMAIN worker : /\ worker'[s].index = worker[s].index
                                     /\ worker'[s].deleting = worker[s].deleting
         /\ rc' = Idle
<1>1. rc' = Idle
  BY DEF AddStateful, InSync, Finish
<1>2. CASE NoWrite
  BY <1>1, <1>2 DEF NoWrite
<1>3. ASSUME NEW n \in DOMAIN worker,
             Write([worker EXCEPT ![n].stateful = TRUE])
      PROVE  /\ DOMAIN worker' = DOMAIN worker
             /\ \A s \in DOMAIN worker : /\ worker'[s].index = worker[s].index
                                         /\ worker'[s].deleting = worker[s].deleting
  <2>1. worker' = [worker EXCEPT ![n].stateful = TRUE]
    BY <1>3 DEF Write
  <2>2. worker[n] \in WorkerNode
    BY DEF TypeOK, IsFleet
  <2>3. QED BY <2>1, <2>2 DEF WorkerNode
<1>4. QED BY <1>1, <1>2, <1>3 DEF AddStateful

LEMMA BelowSize ==
  ASSUME NEW w, IsFleet(w), NEW i
  PROVE  /\ IsFiniteSet(Below(w, i)) /\ IsFiniteSet(Staying(w))
         /\ Cardinality(Below(w, i)) \in Nat /\ Cardinality(Staying(w)) \in Nat
         /\ Cardinality(Below(w, i)) <= Cardinality(Staying(w))
<1>1. IsFiniteSet(Staying(w))
  BY SubsetSize DEF IsFleet, Staying
<1>2. Below(w, i) \subseteq Staying(w)
  BY DEF Below
<1>3. QED BY <1>1, <1>2, SubsetSize

\* A deletion finds the truth in the listing; either it changes nothing, or it
\* marks the node with the largest index, and at least m staying nodes are
\* below it.
LEMMA DeleteFacts ==
  ASSUME TypeOK, NEW m, IsFloor(m), ViewExact(m), NEW p \in Pool, DeleteNode(p)
  PROVE  \/ worker' = worker
         \/ \E n \in DOMAIN worker :
              /\ worker' = Marked(n)
              /\ ~worker[n].deleting
              /\ \A a \in DOMAIN worker : worker[a].index <= worker[n].index
              /\ Cardinality(Below(worker, worker[n].index)) >= m
<1> SUFFICES ASSUME worker' # worker
             PROVE  \E n \in DOMAIN worker :
                      /\ worker' = Marked(n)
                      /\ ~worker[n].deleting
                      /\ \A a \in DOMAIN worker : worker[a].index <= worker[n].index
                      /\ Cardinality(Below(worker, worker[n].index)) >= m
  OBVIOUS
<1> DEFINE v == rc.view
<1>1. /\ IsFleet(v) /\ rc.bounds \in Bounds /\ rc # Idle
      /\ Exact(v) /\ Safe(v, m)
  BY ViewType DEF DeleteNode, ViewExact, At, Idle
<1>2. PICK n \in DOMAIN v :
        /\ v[n].index = LastIndex(Indices(v))
        /\ n \in DOMAIN worker /\ ~worker[n].deleting /\ worker' = Marked(n)
  <2>1. PICK n \in DOMAIN v :
           /\ v[n].index = LastIndex(Indices(v))
           /\ \/ n \notin DOMAIN worker /\ CheckFailed(p)
              \/ /\ n \in DOMAIN worker
                 /\ IF worker[n].deleting THEN NoWrite ELSE Write(Marked(n))
                 /\ Done(p)
    BY DEF DeleteNode
  <2>2. ~CheckFailed(p) /\ ~NoWrite
    BY DEF CheckFailed, NoWrite
  <2>3. QED BY <2>1, <2>2 DEF Write
<1> DEFINE i == v[n].index
           B == Below(v, i)
<1>3. \A a \in DOMAIN v : v[a].index <= i /\ v[a].index \in Nat
  <2>1. IsFiniteSet(Indices(v)) /\ Indices(v) \in SUBSET Nat
    BY <1>1, IndicesOfFleet
  <2>2. i \in Indices(v) /\ i = LastIndex(Indices(v))
    BY <1>2 DEF Indices
  <2>3. \A j \in Indices(v) : j <= i
    <3> HIDE DEF i, v
    <3>1. QED BY <2>1, <2>2, LastIndexIsLargest
  <2>4. QED BY <2>1, <2>3 DEF Indices
<1>4. worker[n] = v[n] /\ n \in Staying(v)
  BY <1>1, <1>2 DEF Exact, Staying
<1>5. Below(worker, i) = B
  BY <1>1 DEF Exact, Below, Staying
<1>6. \A a \in DOMAIN v : a # n => v[a].index < i
  <2>1. \A a \in DOMAIN v : v[a].index = i => a = n
    BY <1>1 DEF Safe
  <2> HIDE DEF v, i
  <2>2. i \in Nat
    BY <1>2, <1>3 DEF i
  <2>3. QED BY <1>3, <2>1, <2>2
<1>7. m \in Nat /\ IsFiniteSet(B) /\ Cardinality(B) \in Nat
  BY <1>1, BelowSize DEF IsFloor
<1>8. Cardinality(B) >= m
  <2>1. CASE \E d \in DOMAIN v : v[d].deleting
    <3>1. PICK d \in DOMAIN v : v[d].deleting
      BY <2>1
    <3>2. d # n
      BY <3>1, <1>4 DEF Staying
    <3>3. v[d].index < i
      BY <3>2, <1>6
    <3>4. Below(v, v[d].index) \subseteq B
      <4> SUFFICES ASSUME NEW s \in Staying(v), v[s].index < v[d].index
                   PROVE  v[s].index < i
        BY DEF Below
      <4>1. s \in DOMAIN v
        BY DEF Staying
      <4>2. v[s].index \in Nat /\ v[d].index \in Nat /\ i \in Nat
        BY <1>2, <1>3, <4>1
      <4> HIDE DEF v, i
      <4>3. QED BY <3>3, <4>2
    <3>5. Cardinality(Below(v, v[d].index)) >= m
      BY <1>1, <3>1 DEF Safe
    <3>6. /\ Cardinality(Below(v, v[d].index)) <= Cardinality(B)
          /\ Cardinality(Below(v, v[d].index)) \in Nat
      BY <1>7, <3>4, SubsetSize
    <3> HIDE DEF B, v, i
    <3>7. QED BY <1>7, <3>5, <3>6
  <2>2. CASE \A d \in DOMAIN v : ~v[d].deleting
    <3>1. B = DOMAIN v \ {n}
      <4>1. \A a \in DOMAIN v : a \in Staying(v)
        BY <2>2 DEF Staying
      <4>2. ~(i < i)
        BY <1>2, <1>3
      <4> HIDE DEF i
      <4>3. v[n].index = i
        BY DEF i
      <4>4. QED BY <1>6, <4>1, <4>2, <4>3 DEF Below, Staying
    <3>2. Cardinality(B) = Cardinality(DOMAIN v) - 1
      BY <1>1, <1>2, <3>1, FS_RemoveElement DEF IsFleet
    <3>3. Cardinality(DOMAIN v) > rc.bounds.min
      <4>1. PICK first : Calculate(Input(first)) = "DEL_NODE"
        BY DEF DeleteNode, Decides
      <4>2. FleetSize(Input(first)) > Input(first).min
        BY <4>1, DeleteDecision
      <4>3. Input(first).nodes = v /\ Input(first).min = rc.bounds.min
        BY DEF Input
      <4>4. QED BY <4>2, <4>3 DEF FleetSize
    <3>4. /\ rc.bounds.min \in Nat /\ m <= rc.bounds.min
          /\ Cardinality(DOMAIN v) \in Nat
      BY <1>1, NodePoolAssumption, IndicesOfFleet DEF IsFloor
    <3> HIDE DEF B, v
    <3>5. QED BY <1>7, <3>2, <3>3, <3>4
  <2>3. QED BY <2>1, <2>2
<1>9. \A a \in DOMAIN worker : worker[a].index <= worker[n].index
  BY <1>1, <1>3, <1>4 DEF Exact
<1>10. QED BY <1>2, <1>4, <1>5, <1>8, <1>9

\* The floor holds of the fleet after every step.
LEMMA SafeStep ==
  ASSUME LeftAlone, TypeOK, FewShareIndex, FewOrphans,
         NEW m, IsFloor(m), FloorInv(m), [Next]_vars
  PROVE  \A d \in DOMAIN worker' : worker'[d].deleting =>
           Cardinality(Below(worker', worker'[d].index)) >= m
<1> SUFFICES ASSUME NEW d \in DOMAIN worker', worker'[d].deleting
             PROVE  Cardinality(Below(worker', worker'[d].index)) >= m
  OBVIOUS
<1> DEFINE i == worker'[d].index
<1>0. /\ IsFleet(worker) /\ IsFleet(worker') /\ m \in Nat
      /\ Safe(worker, m) /\ ViewExact(m) /\ NoneDeleting
  BY FleetsStep DEF TypeOK, FleetsOK, FloorInv, IsFloor
<1>1. ASSUME d \in DOMAIN worker, worker[d].index = i, worker[d].deleting,
             Below(worker, i) \subseteq Below(worker', i)
      PROVE  Cardinality(Below(worker', i)) >= m
  <2>1. Cardinality(Below(worker, i)) >= m
    BY <1>0, <1>1 DEF Safe
  <2>2. /\ Cardinality(Below(worker, i)) <= Cardinality(Below(worker', i))
        /\ Cardinality(Below(worker, i)) \in Nat
        /\ Cardinality(Below(worker', i)) \in Nat
    BY <1>0, <1>1, BelowSize, SubsetSize
  <2>3. QED BY <1>0, <2>1, <2>2
<1>2. CASE worker' = worker
  BY <1>1, <1>2
<1>3. ASSUME NEW n \in Name, WorkerGone(n)
      PROVE  Cardinality(Below(worker', i)) >= m
  BY <1>1, <1>3, GoneFacts DEF Below, Staying
<1>4. ASSUME NEW p \in Pool, AddNode(p)
      PROVE  Cardinality(Below(worker', i)) >= m
  <2>1. PICK n \in Name :
           /\ n \notin DOMAIN worker
           /\ worker' = [s \in DOMAIN worker \cup {n} |->
                           IF s = n THEN NewWorker(p) ELSE worker[s]]
    BY <1>4 DEF AddNode, Fresh, Write
  <2>2. ~worker'[n].deleting
    BY <2>1 DEF NewWorker
  <2>3. d \in DOMAIN worker /\ worker[d] = worker'[d]
    BY <2>1, <2>2
  <2>4. Below(worker, i) \subseteq Below(worker', i)
    BY <2>1 DEF Below, Staying
  <2>5. QED BY <1>1, <2>3, <2>4
<1>5. ASSUME NEW p \in Pool, AddStateful(p)
      PROVE  Cardinality(Below(worker', i)) >= m
  BY <1>1, <1>5, TagFacts DEF Below, Staying
<1>6. ASSUME NEW p \in Pool, DeleteNode(p)
      PROVE  Cardinality(Below(worker', i)) >= m
  <2>1. CASE worker' = worker
    BY <1>1, <2>1
  <2>2. CASE worker' # worker
    <3>1. PICK n \in DOMAIN worker :
            /\ worker' = Marked(n)
            /\ ~worker[n].deleting
            /\ \A a \in DOMAIN worker : worker[a].index <= worker[n].index
            /\ Cardinality(Below(worker, worker[n].index)) >= m
      BY <1>0, <1>6, <2>2, DeleteFacts
    <3>2. /\ DOMAIN worker' = DOMAIN worker
          /\ \A s \in DOMAIN worker : /\ worker'[s].index = worker[s].index
                                      /\ worker[s].index \in Nat
                                      /\ s # n => worker'[s] = worker[s]
      BY <1>0, <3>1 DEF Marked, IsFleet, WorkerNode
    <3>3. i \in Nat /\ worker[n].index \in Nat /\ i <= worker[n].index
      BY <3>1, <3>2
    <3>4. Below(worker, i) \subseteq Below(worker', i)
      <4> SUFFICES ASSUME NEW s \in Staying(worker), worker[s].index < i
                   PROVE  s # n /\ worker'[s].index < i
        BY <3>2 DEF Below, Staying
      <4> HIDE DEF i
      <4>1. QED BY <3>2, <3>3 DEF Staying
    <3>5. CASE d = n
      <4>1. Cardinality(Below(worker, i)) >= m
        BY <3>1, <3>2, <3>5
      <4>2. /\ Cardinality(Below(worker, i)) <= Cardinality(Below(worker', i))
            /\ Cardinality(Below(worker, i)) \in Nat
            /\ Cardinality(Below(worker', i)) \in Nat
        BY <1>0, <3>4, BelowSize, SubsetSize
      <4>3. QED BY <1>0, <4>1, <4>2
    <3>6. CASE d # n
      BY <1>1, <3>2, <3>4, <3>6
    <3>7. QED BY <3>5, <3>6
  <2>3. QED BY <2>1, <2>2
<1>7. QED BY <1>0, <1>2, <1>3, <1>4, <1>5, <1>6, FleetChange

LEMMA LatestStep ==
  ASSUME TypeOK, Latest, [Next]_vars
  PROVE  Latest'
<1>0. IsBacklog(events) /\ IsFleet(worker)
  BY DEF TypeOK
<1>1. CASE Quiet
  BY <1>1 DEF Quiet, NoWrite, Latest
<1>2. ASSUME NEW w, IsFleet(w), Write(w)
      PROVE  Latest'
  <2>1. worker' = w /\ events' = Append(events, w)
    BY <1>2 DEF Write
  <2>2. /\ Len(events) \in Nat /\ Len(events') = Len(events) + 1
        /\ events'[Len(events) + 1] = w
    BY <1>0, <1>2, <2>1, AppendToBacklog
  <2>3. events' # <<>>
    BY <2>2, EmptySeq
  <2>4. QED BY <2>1, <2>2, <2>3 DEF Latest
<1>3. CASE Shrink
  BY <1>2, <1>3 DEF Shrink, Shrinks
<1>4. CASE Creates
  <2>1. PICK w : IsFleet(w) /\ Write(w)
    BY <1>4, CreateType DEF Creates
  <2>2. QED BY <1>2, <2>1
<1>5. CASE Deliver
  <2>1. /\ events # <<>> /\ worker' = worker
        /\ cache' = Head(events) /\ events' = Tail(events)
    BY <1>5 DEF Deliver
  <2>2. /\ IsBacklog(events') /\ cache' = events[1]
        /\ Len(events) \in Nat \ {0} /\ Len(events') = Len(events) - 1
        /\ \A k \in 1 .. Len(events') : events'[k] = events[k + 1]
    BY <1>0, <2>1, TailOfBacklog
  <2>3. events[Len(events)] = worker
    BY <2>1 DEF Latest
  <2>4. events' = <<>> <=> Len(events') = 0
    BY <2>2, EmptySeq DEF IsBacklog
  <2>5. CASE Len(events') = 0
    BY <2>1, <2>2, <2>3, <2>4, <2>5 DEF Latest
  <2>6. CASE Len(events') # 0
    <3>1. Len(events') \in 1 .. Len(events') /\ Len(events') + 1 = Len(events)
      BY <2>2, <2>6
    <3>2. events'[Len(events')] = events[Len(events)]
      BY <2>2, <3>1
    <3>3. QED BY <2>1, <2>3, <2>4, <2>6, <3>2 DEF Latest
  <2>7. QED BY <2>5, <2>6
<1>6. CASE Crash
  BY <1>6 DEF Crash, Latest
<1>7. QED BY <1>1, <1>3, <1>4, <1>5, <1>6, StepKind

LEMMA ViewExactStep ==
  ASSUME LeftAlone, TypeOK, FewShareIndex, FewOrphans,
         NEW m, IsFloor(m), FloorInv(m), [Next]_vars
  PROVE  ViewExact(m)'
<1> SUFFICES ASSUME (rc # Idle)'
             PROVE  Exact(rc.view)' /\ Safe(rc'.view, m)
  BY DEF ViewExact, Safe, Below, Staying
<1>1. ASSUME NEW p \in Pool, Begin(p)
      PROVE  Exact(rc.view)' /\ Safe(rc'.view, m)
  <2>1. rc'.view = cache /\ Len(events) <= MaxLag /\ worker' = worker
    BY <1>1, BeginFacts
  <2>2. events = <<>>
    BY <2>1, EmptySeq, LenProperties DEF LeftAlone, TypeOK, IsBacklog
  <2>3. rc'.view = worker
    BY <2>1, <2>2 DEF FloorInv, Latest
  <2>4. Safe(rc'.view, m)
    BY <2>3 DEF FloorInv
  <2>5. Exact(rc.view)'
    BY <2>1, <2>3 DEF Exact, Staying
  <2>6. QED BY <2>4, <2>5
<1>2. CASE rc' = rc
  <2>1. rc # Idle
    BY <1>2 DEF Idle
  <2>2. Exact(rc.view) /\ Safe(rc.view, m)
    BY <2>1 DEF FloorInv, ViewExact
  <2>3. ASSUME NEW p \in Pool, AddNode(p) \/ DeleteNode(p) \/ AddStateful(p)
        PROVE  FALSE
    BY <2>1, <2>3, <1>2 DEF AddNode, DeleteNode, AddStateful, Done, CheckFailed,
                            InSync, Finish
  <2>4. Exact(rc.view)'
    <3>1. CASE worker' = worker
      BY <1>2, <2>2, <3>1 DEF Exact, Staying
    <3>2. ASSUME NEW n \in Name, WorkerGone(n)
          PROVE  Exact(rc.view)'
      <4>1. /\ n \in DOMAIN worker /\ worker[n].deleting
            /\ DOMAIN worker' = DOMAIN worker \ {n}
            /\ \A s \in DOMAIN worker' : worker'[s] = worker[s]
        BY <3>2, GoneFacts
      <4>2. n \notin Staying(rc.view)
        BY <2>2, <4>1 DEF Exact, Staying
      <4>3. QED BY <1>2, <2>2, <4>1, <4>2 DEF Exact, Staying
    <3>3. QED BY <2>3, <3>1, <3>2, FleetChange DEF FloorInv
  <2>5. QED BY <1>2, <2>2, <2>4
<1>3. QED BY <1>1, <1>2, RoundKind DEF Idle

LEMMA NoneDeletingStep ==
  ASSUME LeftAlone, TypeOK, NoneDeleting, [Next]_vars
  PROVE  NoneDeleting'
<1>1. ASSUME NEW p \in Pool, DeletePool(p) PROVE FALSE
  BY <1>1 DEF DeletePool, LeftAlone
<1>2. ASSUME NEW p \in Pool, Finalize(p) PROVE NoneDeleting'
  BY <1>2 DEF Finalize, Release, Done, k8s, NoneDeleting, TypeOK
<1>3. ASSUME NEW p \in Pool,
             \/ Begin(p) \/ Act(p) \/ ReconFails(p) \/ FinalizeFails(p) \/ Expire(p)
             \/ CollectorReleases(p) \/ EditPool(p)
      PROVE  phase' = phase
  BY <1>3 DEF Begin, Act, AddNode, DeleteNode, AddStateful, Neutral,
              ReconFails, FinalizeFails, CheckFailed, Done, InSync, Expire,
              CollectorReleases, EditPool, k8s
<1>4. ASSUME NEW n \in Name, \/ WorkerGone(n) \/ CollectWorker(n)
                             \/ DeleteWorker(n) \/ WorkerStatus(n)
      PROVE  phase' = phase
  BY <1>4 DEF WorkerGone, CollectWorker, DeleteWorker, WorkerStatus, k8s
<1>5. CASE Deliver \/ Resync \/ LoadChanges \/ Crash \/ UNCHANGED vars
  BY <1>5 DEF Deliver, Resync, LoadChanges, Crash, vars, k8s, NoneDeleting
<1>6. phase' = phase => NoneDeleting'
  BY DEF NoneDeleting
<1>7. QED BY <1>1, <1>2, <1>3, <1>4, <1>5, <1>6
          DEF Next, Inside, Reconcile, Outside

LEMMA FloorInvInit ==
  ASSUME NEW m, IsFloor(m), Init
  PROVE  FloorInv(m)
<1>1. DOMAIN worker = {} /\ worker = <<>> /\ cache = <<>> /\ events = <<>> /\ rc = Idle
  BY DEF Init
<1>2. NoneDeleting
  BY DEF Init, NoneDeleting
<1>3. QED BY <1>1, <1>2 DEF FloorInv, Latest, Safe, ViewExact

LEMMA LeastMinIsFloor ==
  ASSUME Bounds # {}
  PROVE  IsFloor(LeastMin) /\ \E b \in Bounds : LeastMin = b.min
<1> DEFINE M == {b.min : b \in Bounds}
<1>1. M \in SUBSET Nat /\ M # {} /\ \A b \in Bounds : b.min \in M
  BY NodePoolAssumption
<1>2. PICK i \in M : \A j \in M : i <= j
  <2> HIDE DEF M
  <2>1. QED BY <1>1, SmallestExists
<1>3. IsFloor(i)
  BY <1>1, <1>2 DEF IsFloor
<1>4. LeastMin \in M /\ IsFloor(LeastMin)
  BY <1>2, <1>3 DEF LeastMin
<1>5. QED BY <1>4

LEMMA FloorInvariant ==
  ASSUME LeftAlone, Bounds # {}
  PROVE  Spec => []FloorInv(LeastMin)
<1>1. Init => FloorInv(LeastMin)
  BY LeastMinIsFloor, FloorInvInit
<1>2. TypeOK /\ IInv => UniqueIndex
  BY NothingBehind DEF IInv, UniqueIndex
<1>3. TypeOK /\ IInv /\ UniqueIndex' /\ FloorInv(LeastMin) /\ [Next]_vars => FloorInv(LeastMin)'
  <2> SUFFICES ASSUME TypeOK, IInv, UniqueIndex', FloorInv(LeastMin), [Next]_vars
               PROVE  FloorInv(LeastMin)'
    OBVIOUS
  <2>1. FewShareIndex /\ FewOrphans
    BY DEF IInv
  <2>2. \A a, b \in DOMAIN worker' : worker'[a].index = worker'[b].index => a = b
    BY DEF UniqueIndex
  <2>3. Safe(worker', LeastMin)
    BY <2>1, <2>2, LeastMinIsFloor, SafeStep DEF Safe
  <2>4. NoneDeleting' /\ Latest'
    BY NoneDeletingStep, LatestStep DEF FloorInv
  <2>5. ViewExact(LeastMin)'
    BY <2>1, LeastMinIsFloor, ViewExactStep
  <2>6. QED BY <2>3, <2>4, <2>5 DEF FloorInv, Safe, Below, Staying
<1>4. QED BY <1>1, <1>2, <1>3, TypeCorrect, Invariant, PTL DEF Spec

\* What a deletion leaves, for any lower bound m of the minima.
LEMMA DeletionLeaves ==
  ASSUME TypeOK, NEW m, IsFloor(m), ViewExact(m), NEW p \in Pool, DeleteNode(p)
  PROVE  \/ Staying(worker') = Staying(worker)
         \/ Cardinality(Staying(worker')) >= m
<1>1. CASE worker' = worker
  BY <1>1 DEF Staying
<1>2. CASE worker' # worker
  <2>1. PICK n \in DOMAIN worker :
          /\ worker' = Marked(n)
          /\ ~worker[n].deleting
          /\ Cardinality(Below(worker, worker[n].index)) >= m
    BY <1>2, DeleteFacts
  <2>2. IsFleet(worker) /\ worker[n].index \in Nat /\ m \in Nat
    BY DEF TypeOK, IsFleet, WorkerNode, IsFloor
  <2>3. IsFleet(worker') /\ DOMAIN worker' = DOMAIN worker
    BY <2>1, <2>2, MarkInFleet
  <2>4. Below(worker, worker[n].index) \subseteq Staying(worker')
    BY <2>1, <2>2, <2>3 DEF Below, Staying, Marked
  <2>5. /\ Cardinality(Below(worker, worker[n].index)) <= Cardinality(Staying(worker'))
        /\ Cardinality(Below(worker, worker[n].index)) \in Nat
        /\ Cardinality(Staying(worker')) \in Nat
    BY <2>2, <2>3, <2>4, BelowSize, SubsetSize
  <2>6. QED BY <2>1, <2>2, <2>5
<1>3. QED BY <1>1, <1>2

\* While listings are up to date and only the pools delete worker nodes, no
\* deletion leaves fewer staying nodes than the least Spec.Min
\* (nodepool_controller.go:341-371), for any pools, loads, edits of the bounds,
\* failures and crashes, and although terminating nodes count as nodes.
THEOREM FloorHolds ==
  ASSUME LeftAlone
  PROVE  Spec => FloorKept
<1>0. CASE Bounds = {}
  <2>1. TypeOK /\ [Next]_vars =>
          [\A p \in Pool : DeleteNode(p) =>
              \/ Staying(worker') = Staying(worker)
              \/ \E b \in Bounds : Cardinality(Staying(worker')) >= b.min]_vars
    BY <1>0, ViewType DEF DeleteNode
  <2>2. QED BY <2>1, TypeCorrect, PTL DEF Spec, FloorKept
<1>1. CASE Bounds # {}
  <2>1. Spec => []FloorInv(LeastMin)
    BY <1>1, FloorInvariant
  <2>2. TypeOK /\ FloorInv(LeastMin) /\ [Next]_vars =>
          [\A p \in Pool : DeleteNode(p) =>
              \/ Staying(worker') = Staying(worker)
              \/ \E b \in Bounds : Cardinality(Staying(worker')) >= b.min]_vars
    BY <1>1, LeastMinIsFloor, DeletionLeaves DEF FloorInv
  <2>3. QED BY <2>1, <2>2, TypeCorrect, PTL DEF Spec, FloorKept
<1>2. QED BY <1>0, <1>1

\* When all pools have one minimum that is never edited, it is the round's own
\* Spec.Min that a deletion keeps.
THEOREM OwnFloorHolds ==
  ASSUME LeftAlone, \A a, b \in Bounds : a.min = b.min
  PROVE  Spec => [][\A p \in Pool : DeleteNode(p) =>
                      \/ Staying(worker') = Staying(worker)
                      \/ Cardinality(Staying(worker')) >= rc.bounds.min]_vars
<1>1. Spec => FloorKept
  BY FloorHolds
<1>2. TypeOK /\ [\A p \in Pool : DeleteNode(p) =>
                   \/ Staying(worker') = Staying(worker)
                   \/ \E b \in Bounds : Cardinality(Staying(worker')) >= b.min]_vars
        => [\A p \in Pool : DeleteNode(p) =>
                   \/ Staying(worker') = Staying(worker)
                   \/ Cardinality(Staying(worker')) >= rc.bounds.min]_vars
  BY ViewType DEF DeleteNode
<1>3. QED BY <1>1, <1>2, TypeCorrect, PTL DEF FloorKept

-------------------------------------------------------------------------------
(***************************************************************************)
(* Wake-ups.  Done and CheckFailed end a round with a status write that    *)
(* may be no event.  On an edge with one pool, and as long as no call      *)
(* fails, this never matters: something else is bound to wake the pool.    *)
(***************************************************************************)

\* One pool, whose calls do not fail.
Undisturbed ==
  /\ \A p, q \in Pool : p = q
  /\ "fail" \notin Interference

\* The watch has something to say that the cache does not show.
Pending == \E i \in 1 .. Len(events) : events[i] # cache

\* What keeps the pool p awake: it is in the queue, has a timer or a round
\* under way; a change, or the end of a terminating node, will be delivered;
\* or it is being deleted and there are nodes it has to wait for.
KeptAwake(p) ==
  \/ p \in queue \cup timer
  \/ rc # Idle
  \/ Pending
  \/ \E n \in DOMAIN worker : worker[n].deleting
  \/ phase[p] = "deleting" /\ DOMAIN worker # {}

Awake == \A p \in Present : KeptAwake(p)

\* Unless the pool was woken since its round began, its listing is the cache.
ViewCurrent ==
  rc # Idle /\ rc.pool \in Present /\ rc.pool \notin queue => rc.view = cache

FinalizesDeleted == rc.step = "finalize" => phase[rc.pool] # "live"

AwakeInv == Latest /\ ViewCurrent /\ FinalizesDeleted /\ Awake

LEMMA ChangeHasOwner ==
  ASSUME Undisturbed, NEW old, IsFleet(old), NEW new, IsFleet(new), old # new,
         NEW p \in Pool
  PROVE  p \in Owners(old, new)
<1>1. PICK n : \/ n \in DOMAIN old /\ (n \notin DOMAIN new \/ old[n] # new[n])
               \/ n \in DOMAIN new /\ n \notin DOMAIN old
  BY DEF IsFleet
<1>2. CASE n \in DOMAIN old /\ (n \notin DOMAIN new \/ old[n] # new[n])
  <2>1. old[n].pool \in Pool
    BY <1>2 DEF IsFleet, WorkerNode
  <2>2. old[n].pool = p
    BY <2>1 DEF Undisturbed
  <2>3. old[n].pool \in Owners(old, new)
    BY <1>2 DEF Owners
  <2>4. QED BY <2>2, <2>3
<1>3. CASE n \in DOMAIN new /\ n \notin DOMAIN old
  <2>1. new[n].pool \in Pool
    BY <1>3 DEF IsFleet, WorkerNode
  <2>2. new[n].pool = p
    BY <2>1 DEF Undisturbed
  <2>3. new[n].pool \in Owners(old, new)
    BY <1>3 DEF Owners
  <2>4. QED BY <2>2, <2>3
<1>4. QED BY <1>1, <1>2, <1>3

\* A cache that differs from the truth will be told.
LEMMA DifferencePending ==
  ASSUME TypeOK, Latest, cache # worker
  PROVE  Pending
<1>1. events # <<>> /\ events[Len(events)] = worker
  BY DEF Latest
<1>2. Len(events) \in 1 .. Len(events)
  BY <1>1, EmptySeq, LenProperties DEF TypeOK, IsBacklog
<1>3. QED BY <1>1, <1>2 DEF Pending

LEMMA WritePending ==
  ASSUME TypeOK, NEW w, IsFleet(w), Write(w), UNCHANGED cache,
         w # cache \/ Pending
  PROVE  Pending'
<1>1. /\ Len(events) \in Nat /\ Len(events') = Len(events) + 1
      /\ \A i \in 1 .. Len(events) : events'[i] = events[i]
      /\ events'[Len(events) + 1] = w
  BY AppendToBacklog DEF TypeOK, Write
<1>2. CASE w # cache
  <2>1. Len(events) + 1 \in 1 .. Len(events')
    BY <1>1
  <2>2. QED BY <1>1, <1>2, <2>1 DEF Pending
<1>3. CASE Pending
  <2>1. PICK i \in 1 .. Len(events) : events[i] # cache
    BY <1>3 DEF Pending
  <2>2. i \in 1 .. Len(events') /\ events'[i] = events[i]
    BY <1>1
  <2>3. QED BY <2>1, <2>2 DEF Pending
<1>4. QED BY <1>2, <1>3

\* The steps of a round leave the pool something to wake it.
LEMMA RoundLeavesAwake ==
  ASSUME Undisturbed, TypeOK, AwakeInv, NEW q \in Pool, Reconcile(q),
         NEW p \in Present'
  PROVE  p \in Present /\ KeptAwake(p)'
<1>0. p = q /\ p \in Pool /\ Latest /\ IsFleet(worker) /\ IsFleet(cache)
  BY DEF Present, Undisturbed, AwakeInv, TypeOK
<1>1. CASE Begin(q)
  BY <1>1 DEF Begin, Present, k8s, KeptAwake, Idle
<1>2. CASE AddNode(q)
  <2>1. PICK n \in Name :
           /\ \A v \in Copies : n \notin DOMAIN v
           /\ DOMAIN worker' = DOMAIN worker \cup {n}
           /\ IsFleet(worker') /\ Write(worker') /\ UNCHANGED <<cache, phase>>
    BY <1>2, CreateFacts
  <2>2. worker' # cache
    BY <2>1 DEF Copies
  <2> DEFINE w == worker'
  <2>3. IsFleet(w) /\ Write(w) /\ UNCHANGED cache /\ w # cache
    BY <2>1, <2>2
  <2> HIDE DEF w
  <2>4. Pending'
    BY <2>3, WritePending
  <2>5. QED BY <2>1, <2>4 DEF KeptAwake, Present
<1>3. CASE DeleteNode(q)
  <2>1. PICK n \in DOMAIN rc.view :
           \/ n \notin DOMAIN worker /\ CheckFailed(q)
           \/ /\ n \in DOMAIN worker
              /\ IF worker[n].deleting THEN NoWrite ELSE Write(Marked(n))
              /\ Done(q)
    BY <1>3 DEF DeleteNode
  <2>2. p \in Present
    BY <1>3, <2>1 DEF CheckFailed, Done, k8s, Present
  <2>3. CASE n \notin DOMAIN worker /\ CheckFailed(q)
    <3>1. CASE p \in queue
      BY <2>2, <2>3, <3>1 DEF CheckFailed, Wake, PerhapsWake, KeptAwake
    <3>2. CASE p \notin queue
      <4>1. rc # Idle /\ rc.pool = p
        BY <1>0, <1>3 DEF DeleteNode, At, Idle
      <4>2. rc.view = cache
        BY <2>2, <3>2, <4>1 DEF AwakeInv, ViewCurrent
      <4>3. cache # worker
        BY <2>1, <2>3, <4>2
      <4>4. Pending
        BY <1>0, <4>3, DifferencePending
      <4>5. QED BY <2>2, <2>3, <4>4 DEF CheckFailed, NoWrite, Pending, KeptAwake
    <3>3. QED BY <3>1, <3>2
  <2>4. CASE n \in DOMAIN worker /\ worker[n].deleting /\ NoWrite
    BY <2>2, <2>4 DEF NoWrite, KeptAwake
  <2>5. CASE n \in DOMAIN worker /\ Write(Marked(n))
    <3>1. worker' = Marked(n) /\ worker[n] \in WorkerNode
      BY <1>0, <2>5 DEF Write, IsFleet
    <3>2. n \in DOMAIN worker' /\ worker'[n].deleting
      BY <2>5, <3>1 DEF Marked, WorkerNode
    <3>3. QED BY <2>2, <3>2 DEF KeptAwake
  <2>6. QED BY <2>1, <2>3, <2>4, <2>5
<1>4. CASE AddStateful(q) \/ Neutral(q)
  BY <1>0, <1>4 DEF AddStateful, Neutral, InSync, Wake, k8s, Present, KeptAwake
<1>5. CASE Finalize(q)
  <2>1. CASE rc.view = <<>>
    BY <1>0, <1>5, <2>1 DEF Finalize, Release, Present, TypeOK
  <2>2. CASE rc.view # <<>>
    <3>1. NoWrite /\ Done(q) /\ rc.step = "finalize" /\ rc # Idle /\ rc.pool = p
      BY <1>0, <1>5, <2>2 DEF Finalize, At, Idle
    <3>2. p \in Present /\ phase' = phase /\ cache' = cache
      BY <3>1 DEF Done, k8s, Present
    <3>3. CASE p \in queue
      BY <3>1, <3>2, <3>3 DEF Done, PerhapsWake, Wake, KeptAwake
    <3>4. CASE p \notin queue
      <4>1. rc.view = cache
        BY <3>1, <3>2, <3>4 DEF AwakeInv, ViewCurrent
      <4>2. phase[p] = "deleting"
        BY <3>1, <3>2 DEF AwakeInv, FinalizesDeleted, Present, TypeOK
      <4>3. CASE DOMAIN worker # {}
        BY <3>1, <3>2, <4>2, <4>3 DEF NoWrite, KeptAwake
      <4>4. CASE DOMAIN worker = {}
        <5>1. DOMAIN cache # {}
          BY <1>0, <2>2, <4>1, OnlyOneEmptyFleet
        <5>2. Pending
          BY <1>0, <4>4, <5>1, DifferencePending
        <5>3. QED BY <3>1, <3>2, <5>2 DEF NoWrite, Pending, KeptAwake
      <4>5. QED BY <4>3, <4>4
    <3>5. QED BY <3>3, <3>4
  <2>3. QED BY <2>1, <2>2
<1>6. QED BY <1>1, <1>2, <1>3, <1>4, <1>5 DEF Reconcile, Act

\* So do the steps of everybody else.
LEMMA OthersLeaveAwake ==
  ASSUME Undisturbed, TypeOK, AwakeInv, [Next]_vars,
         ~(\E q \in Pool : Reconcile(q)), NEW p \in Present'
  PROVE  p \in Present /\ KeptAwake(p)'
<1>0. /\ p \in Pool /\ Latest /\ IsFleet(worker) /\ IsFleet(cache)
      /\ \A q \in Pool : q = p
      /\ p \in Present => KeptAwake(p)
  BY DEF Present, Undisturbed, AwakeInv, Awake, TypeOK
<1>1. ASSUME NEW q \in Pool,
             Expire(q) \/ CollectorReleases(q) \/ EditPool(q) \/ DeletePool(q)
      PROVE  p \in Present /\ KeptAwake(p)'
  <2>1. p \in queue'
    BY <1>0, <1>1 DEF Expire, CollectorReleases, EditPool, DeletePool, Wake
  <2>2. p \in Present
    BY <1>0, <1>1 DEF Expire, CollectorReleases, EditPool, DeletePool, k8s, Present
  <2>3. QED BY <2>1, <2>2 DEF KeptAwake
<1>2. ASSUME NEW n \in Name, WorkerGone(n)
      PROVE  p \in Present /\ KeptAwake(p)'
  <2> DEFINE w == Restrict(worker, DOMAIN worker \ {n})
  <2>1. n \in DOMAIN worker /\ Write(w) /\ UNCHANGED <<cache, phase>>
    BY <1>2 DEF WorkerGone, k8s
  <2>2. IsFleet(w) /\ DOMAIN w = DOMAIN worker \ {n}
    BY <1>0, RemoveFromFleet
  <2> HIDE DEF w
  <2>3. n \in DOMAIN cache => w # cache
    BY <2>2
  <2>4. n \notin DOMAIN cache => Pending
    BY <1>0, <2>1, DifferencePending
  <2>5. Pending'
    BY <2>1, <2>2, <2>3, <2>4, WritePending
  <2>6. QED BY <2>1, <2>5 DEF KeptAwake, Present
<1>3. ASSUME NEW n \in Name, CollectWorker(n) \/ DeleteWorker(n)
      PROVE  p \in Present /\ KeptAwake(p)'
  <2>1. n \in DOMAIN worker /\ worker' = Marked(n) /\ phase' = phase
    BY <1>3 DEF CollectWorker, DeleteWorker, Write, k8s
  <2>2. worker[n] \in WorkerNode
    BY <1>0, <2>1 DEF IsFleet
  <2>3. n \in DOMAIN worker' /\ worker'[n].deleting
    BY <2>1, <2>2 DEF Marked, WorkerNode
  <2>4. QED BY <2>1, <2>3 DEF KeptAwake, Present
<1>4. ASSUME NEW n \in Name, WorkerStatus(n)
      PROVE  p \in Present /\ KeptAwake(p)'
  BY <1>0, <1>4 DEF WorkerStatus, k8s, Present, KeptAwake, Pending
<1>5. CASE Deliver
  <2>1. /\ events # <<>> /\ cache' = Head(events) /\ events' = Tail(events)
        /\ queue' = queue \cup (Owners(cache, cache') \cap Present)
        /\ UNCHANGED <<worker, timer, phase, rc>>
    BY <1>5 DEF Deliver, k8s
  <2>2. /\ IsFleet(cache') /\ cache' = events[1]
        /\ Len(events) \in Nat \ {0} /\ Len(events') = Len(events) - 1
        /\ \A i \in 1 .. Len(events') : events'[i] = events[i + 1]
    BY <2>1, TailOfBacklog DEF TypeOK
  <2>3. p \in Present
    BY <2>1 DEF Present
  <2>4. CASE cache' # cache
    <3>1. p \in Owners(cache, cache')
      <4> DEFINE new == cache'
      <4>1. IsFleet(new) /\ new # cache
        BY <2>2, <2>4
      <4> HIDE DEF new
      <4>2. p \in Owners(cache, new)
        BY <1>0, <4>1, ChangeHasOwner
      <4>3. QED BY <4>2 DEF new
    <3>2. QED BY <2>1, <2>3, <3>1 DEF KeptAwake
  <2>5. CASE cache' = cache
    <3>1. ASSUME Pending PROVE Pending'
      <4>1. PICK i \in 1 .. Len(events) : events[i] # cache
        BY <3>1 DEF Pending
      <4>2. i # 1
        BY <2>2, <2>5, <4>1
      <4>3. i - 1 \in 1 .. Len(events') /\ events'[i - 1] = events[i]
        BY <2>2, <4>2
      <4>4. QED BY <2>5, <4>1, <4>3 DEF Pending
    <3>2. QED BY <1>0, <2>1, <2>3, <3>1 DEF KeptAwake
  <2>6. QED BY <2>4, <2>5
<1>6. CASE Resync \/ Crash
  BY <1>6 DEF Resync, Crash, k8s, Present, KeptAwake
<1>7. CASE LoadChanges \/ UNCHANGED vars
  BY <1>0, <1>7 DEF LoadChanges, vars, k8s, Present, KeptAwake, Pending
<1>8. ASSUME NEW q \in Pool, ReconFails(q) \/ FinalizeFails(q) PROVE FALSE
  BY <1>8 DEF ReconFails, FinalizeFails, Undisturbed
<1>9. QED BY <1>1, <1>2, <1>3, <1>4, <1>5, <1>6, <1>7, <1>8
          DEF Next, Inside, Outside

LEMMA AwakeStep ==
  ASSUME Undisturbed, TypeOK, AwakeInv, [Next]_vars
  PROVE  Awake' /\ Present' \subseteq Present
<1>1. CASE \E q \in Pool : Reconcile(q)
  BY <1>1, RoundLeavesAwake DEF Awake
<1>2. CASE ~(\E q \in Pool : Reconcile(q))
  BY <1>2, OthersLeaveAwake DEF Awake
<1>3. QED BY <1>1, <1>2

\* While a round is under way its pool is only ever put into the queue, and the
\* cache does not change without putting it there.
LEMMA ViewCurrentStep ==
  ASSUME Undisturbed, TypeOK, AwakeInv, [Next]_vars
  PROVE  ViewCurrent'
<1> SUFFICES ASSUME (rc # Idle)', (rc.pool \in Present)', (rc.pool \notin queue)'
             PROVE  rc'.view = cache'
  BY DEF ViewCurrent
<1>1. ASSUME NEW q \in Pool, Begin(q) PROVE rc'.view = cache'
  BY <1>1 DEF Begin
<1>2. CASE rc' = rc
  <2>1. rc # Idle /\ rc.pool \in Present /\ rc.pool \in Pool
    BY <1>2, AwakeStep DEF Idle, Present
  <2>2. ASSUME NEW q \in Pool, Reconcile(q) \/ ReconFails(q) \/ FinalizeFails(q)
        PROVE  FALSE
    <3>1. CASE Begin(q)
      BY <1>2, <2>1, <3>1 DEF Begin, Idle
    <3>2. CASE Act(q) \/ Finalize(q) \/ ReconFails(q) \/ FinalizeFails(q)
      BY <1>2, <2>1, <3>2 DEF Act, AddNode, DeleteNode, AddStateful, Neutral,
           Finalize, Release, ReconFails, FinalizeFails, CheckFailed, Done, InSync, Finish
    <3>3. QED BY <2>2, <3>1, <3>2 DEF Reconcile
  <2>3. CASE Deliver
    <3>1. cache' = cache
      <4>1. IsFleet(cache) /\ IsFleet(cache')
        BY <2>3, TailOfBacklog DEF Deliver, TypeOK
      <4> DEFINE new == cache'
      <4>2. rc.pool \notin Owners(cache, new)
        BY <1>2, <2>1, <2>3 DEF Deliver
      <4>3. IsFleet(new)
        BY <4>1
      <4> HIDE DEF new
      <4>4. new = cache
        BY <2>1, <4>1, <4>2, <4>3, ChangeHasOwner
      <4>5. QED BY <4>4 DEF new
    <3>2. rc.pool \notin queue
      BY <1>2, <2>3 DEF Deliver
    <3>3. QED BY <1>2, <2>1, <3>1, <3>2 DEF AwakeInv, ViewCurrent
  <2>4. CASE Resync \/ Crash
    BY <1>2, <2>1, <2>4 DEF Resync, Crash, Finish
  <2>5. ASSUME NEW q \in Pool,
               Expire(q) \/ CollectorReleases(q) \/ EditPool(q) \/ DeletePool(q)
        PROVE  cache' = cache /\ queue \subseteq queue'
    BY <2>5 DEF Expire, CollectorReleases, EditPool, DeletePool, Wake
  <2>6. ASSUME NEW n \in Name, \/ WorkerGone(n) \/ CollectWorker(n)
                               \/ DeleteWorker(n) \/ WorkerStatus(n)
        PROVE  cache' = cache /\ queue \subseteq queue'
    BY <2>6 DEF WorkerGone, CollectWorker, DeleteWorker, WorkerStatus
  <2>7. CASE LoadChanges \/ UNCHANGED vars
    BY <1>2, <2>1, <2>7 DEF LoadChanges, vars, AwakeInv, ViewCurrent
  <2>8. CASE cache' = cache /\ queue \subseteq queue'
    BY <1>2, <2>1, <2>8 DEF AwakeInv, ViewCurrent
  <2>9. QED BY <2>2, <2>3, <2>4, <2>5, <2>6, <2>7, <2>8
            DEF Next, Inside, Outside
<1>3. QED BY <1>1, <1>2, RoundKind DEF Idle

LEMMA FinalizesDeletedStep ==
  ASSUME TypeOK, FinalizesDeleted, [Next]_vars
  PROVE  FinalizesDeleted'
<1> SUFFICES ASSUME (rc.step = "finalize")'
             PROVE  phase'[rc'.pool] # "live"
  BY DEF FinalizesDeleted
<1>1. ASSUME NEW q \in Pool, Begin(q) PROVE phase'[rc'.pool] # "live"
  BY <1>1 DEF Begin, k8s
<1>2. CASE rc' = rc
  <2>1. rc.pool \in Pool /\ phase[rc.pool] # "live"
    BY <1>2 DEF FinalizesDeleted, TypeOK, Idle
  <2>2. phase'[rc.pool] = phase[rc.pool] \/ \E q \in Pool : DeletePool(q)
    <3>1. ASSUME NEW q \in Pool, Reconcile(q) \/ ReconFails(q) \/ FinalizeFails(q)
          PROVE  FALSE
      <4>1. CASE Begin(q)
        BY <1>2, <4>1 DEF Begin, Idle
      <4>2. CASE Act(q) \/ Finalize(q) \/ ReconFails(q) \/ FinalizeFails(q)
        BY <1>2, <4>2 DEF Act, AddNode, DeleteNode, AddStateful, Neutral,
             Finalize, Release, ReconFails, FinalizeFails, CheckFailed, Done, InSync,
             Finish, Idle
      <4>3. QED BY <3>1, <4>1, <4>2 DEF Reconcile
    <3>2. ASSUME NEW q \in Pool, Expire(q) \/ CollectorReleases(q) \/ EditPool(q)
          PROVE  phase' = phase
      BY <3>2 DEF Expire, CollectorReleases, EditPool, k8s
    <3>3. ASSUME NEW n \in Name, \/ WorkerGone(n) \/ CollectWorker(n)
                                 \/ DeleteWorker(n) \/ WorkerStatus(n)
          PROVE  phase' = phase
      BY <3>3 DEF WorkerGone, CollectWorker, DeleteWorker, WorkerStatus, k8s
    <3>4. CASE Deliver \/ Resync \/ LoadChanges \/ Crash \/ UNCHANGED vars
      BY <3>4 DEF Deliver, Resync, LoadChanges, Crash, vars, k8s
    <3>5. QED BY <3>1, <3>2, <3>3, <3>4 DEF Next, Inside, Outside
  <2>3. ASSUME NEW q \in Pool, DeletePool(q) PROVE phase'[rc.pool] # "live"
    BY <2>1, <2>3 DEF DeletePool, TypeOK
  <2>4. QED BY <1>2, <2>1, <2>2, <2>3
<1>3. QED BY <1>1, <1>2, RoundKind DEF Idle

\* On an edge with one pool, and unless a call fails, no wake-up is ever lost
\* for good although Done and CheckFailed end a round without a requeue
\* (lib/operator.v2, nodepool_controller.go:288-391): a pool that sleeps has a
\* change or the end of a terminating node to come, or is deleted itself and
\* has to wait for a worker node to go.  So only edges with several pools, and
\* failed calls, depend on the informers' resync.
THEOREM NeverAsleep ==
  ASSUME Undisturbed
  PROVE  Spec => []Awake
<1>1. Init => AwakeInv
  <2> SUFFICES ASSUME Init PROVE AwakeInv
    OBVIOUS
  <2>1. rc = Idle /\ events = <<>> /\ cache = worker /\ queue = Present
    BY DEF Init
  <2>2. QED BY <2>1 DEF AwakeInv, Latest, ViewCurrent, FinalizesDeleted, Awake,
                        KeptAwake, Idle
<1>2. TypeOK /\ AwakeInv /\ [Next]_vars => AwakeInv'
  <2> SUFFICES ASSUME TypeOK, AwakeInv, [Next]_vars PROVE AwakeInv'
    OBVIOUS
  <2>1. Latest /\ FinalizesDeleted
    BY DEF AwakeInv
  <2>2. QED BY <2>1, LatestStep, ViewCurrentStep, FinalizesDeletedStep, AwakeStep
            DEF AwakeInv
<1>3. AwakeInv => Awake
  BY DEF AwakeInv
<1>4. QED BY <1>1, <1>2, <1>3, TypeCorrect, PTL DEF Spec

===============================================================================
