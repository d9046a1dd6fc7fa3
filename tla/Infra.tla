--------------------------------- MODULE Infra ---------------------------------
(***************************************************************************)
(* The agent and the tree of modules Agent and InfraTree: the messages of  *)
(* the partition create, edit and delete the provider and its edges.  Users *)
(* with other clients may delete in the foreground.                        *)
(***************************************************************************)
EXTENDS InfraTree, Agent, Sequences, FiniteSets

CONSTANT MaxMishaps  \* a bound on how often something goes wrong

VARIABLE mishaps  \* how often it did

vars == <<tree, agent, mishaps>>

Provider == "provider"

\* A manifest and what to do with it; spec: the Spec.Pools of an edge.
Apply(target, spec) == [verb |-> "apply", target |-> target, spec |-> spec]
Delete(target)      == [verb |-> "delete", target |-> target, spec |-> Absent]

ASSUME InfraAssumption ==
  /\ MaxMishaps \in Nat
  /\ Provider \notin Edge
  /\ Message \subseteq {Broken, Apply(Provider, Absent)}
                        \cup {Apply(e, s) : e \in Edge, s \in Specs}
                        \cup {Delete(t) : t \in Edge \cup {Provider}}

Init == TreeInit /\ AgentInit /\ mishaps = 0

Stored(target) == IF target = Provider THEN provider # Absent
                  ELSE edge[target] # Absent

\* ... and after this step.
Remains(target) == IF target = Provider THEN provider' # Absent
                   ELSE edge'[target] # Absent

Carries(verb) == Current # Broken /\ Current.verb = verb

\* processMesssage: kubectl apply.
AgentApplies ==
  /\ Processing /\ Carries("apply")
  /\ IF Current.target = Provider THEN ApplyProvider
     ELSE ApplyEdge(Current.target, Current.spec)
  /\ Returns

\* processMesssage: kubectl delete, which waits as long as the object is there.
AgentDeletes ==
  /\ Processing /\ Carries("delete")
  /\ IF Current.target = Provider THEN DeleteProvider(FALSE)
     ELSE DeleteEdge(Current.target, FALSE)
  /\ IF Remains(Current.target) THEN Hangs ELSE Returns

AgentReturns ==
  /\ waiting /\ ~Stored(Current.target)
  /\ Returns /\ UNCHANGED tree

\* There is nothing to delete: kubectl fails.
AgentFindsNothing ==
  /\ Processing /\ Carries("delete") /\ ~Stored(Current.target)
  /\ Returns /\ UNCHANGED tree

\* kubectl does not reach the API server.
AgentFails ==
  /\ Processing /\ Current # Broken
  /\ Returns /\ UNCHANGED tree

AgentSteps ==
  \/ AgentApplies \/ AgentDeletes \/ AgentReturns \/ AgentFindsNothing
  \/ (GivesUp \/ Commit) /\ UNCHANGED tree

AgentRejoins == Rejoin /\ UNCHANGED tree

\* Another client deletes in the foreground.  Bound: once the agent has read
\* the partition (it may be given a part of it once more after that).
Cascade ==
  /\ position = Len(log)
  /\ DeleteProvider(TRUE) \/ \E e \in Edge : DeleteEdge(e, TRUE)
  /\ UNCHANGED agent

Work ==
  /\ (Controllers /\ UNCHANGED agent) \/ AgentSteps
  /\ UNCHANGED mishaps

Mishap ==
  /\ mishaps < MaxMishaps /\ mishaps' = mishaps + 1
  /\ (Mishaps /\ UNCHANGED agent) \/ AgentFails \/ AgentRejoins \/ Cascade

Next == Work \/ Mishap

Spec == Init /\ [][Next]_vars

\* The controllers and the garbage collector go round, the watches deliver,
\* objects are reconciled again after their period or at the resync, and the
\* agent reads on.
Alone == UNCHANGED <<agent, mishaps>>

Fairness ==
  /\ \A e \in Edge : /\ WF_vars(ReconcileEdge(e) /\ Alone)
                     /\ WF_vars((CollectEdge(e) \/ CollectorReleasesEdge(e)) /\ Alone)
  /\ \A k \in Pool : WF_vars(Shrinks(k) /\ Alone)
  /\ WF_vars(EdgeRound /\ Alone)
  /\ WF_vars(ProviderRound /\ Alone)
  /\ WF_vars(CollectorReleasesProvider /\ Alone)
  /\ WF_vars(DeliverProvider /\ Alone) /\ WF_vars(DeliverEdges /\ Alone)
  /\ WF_vars(DeliverPools /\ Alone) /\ WF_vars(DeliverWorkers /\ Alone)
  /\ WF_vars(DeliverSecret /\ Alone)
  /\ WF_vars(AgentSteps /\ UNCHANGED mishaps)

FairSpec == Spec /\ Fairness

-------------------------------------------------------------------------------
TypeOK ==
  /\ TreeTypeOK
  /\ log \in Logs /\ position \in 0 .. Len(log)
  /\ tries \in 0 .. MaxRetries /\ waiting \in BOOLEAN
  /\ mishaps \in 0 .. MaxMishaps

\* What keeps a deletion from coming to an end: an object that is deleted in
\* the background, or that the garbage collector is done with, while another
\* one under it is not (a pool that a round under way applied, an edge that
\* got its owner only then, a worker node that was added to the cached pool); a
\* machine without the secret; a machine whose delete Job was in vain.
Held(owner, belowDeleting) == owner.deleting /\ ~owner.foreground /\ ~belowDeleting

Stuck ==
  \/ /\ provider # Absent
     /\ \E e \in Edge : edge[e] # Absent /\ Held(provider, edge[e].deleting)
  \/ \E k \in Existing(pool) :
       \/ edge[k[1]] # Absent /\ Held(edge[k[1]], pool[k].deleting)
       \/ HasWorker(k) /\ Held(pool[k], worker[k] = "deleting")
  \/ \E k \in Pool : /\ worker[k] # "none"
                     /\ machine[k] = "kept" \/ (machine[k] = "up" /\ ~secret)

\* Deleted in the foreground, a provider goes away in the end and its edges,
\* pools and worker nodes with it, unless the deletion is stuck.
TreeGoes ==
  (provider # Absent /\ provider.deleting /\ provider.foreground)
    ~> (provider = Absent \/ Stuck)

\* The last message about an edge.
About(e) == {i \in 1 .. Len(log) : log[i] # Broken /\ log[i].target = e}
Latest(e, i) == i \in About(e) /\ \A j \in About(e) : j <= i

InPlace(e) ==
  /\ edge[e] # Absent /\ ~edge[e].deleting /\ e \notin dangling
  /\ provider # Absent /\ ~provider.deleting

\* Unless kubectl failed for every try of a message, a partition that was read
\* to its end is what the cluster looks like, however often messages were
\* executed again: the edge that the last message applied, if it is still in
\* place, has its Region and the pools of that message, in that message's
\* configuration.
Delivered ==
  \A e \in Edge :
    <>[](\A i \in 1 .. Len(log) :
           /\ position = Len(log) /\ mishaps < MaxRetries
           /\ Latest(e, i) /\ log[i].verb = "apply" /\ InPlace(e)
           => /\ e \in region
              /\ \A p \in DOMAIN log[i].spec :
                   /\ pool[<<e, p>>] # Absent
                   /\ pool[<<e, p>>].config = log[i].spec[p])

\* The agent reads on to the end, or waits for good for an object that others
\* keep: an edge with a pool, or a provider with an edge.
AgentGoesOn ==
  \/ <>[](position = Len(log))
  \/ <>[](/\ waiting
          /\ IF Current.target = Provider THEN \E e \in Edge : edge[e] # Absent
             ELSE \E k \in PoolsOf(Current.target) : pool[k] # Absent)
===============================================================================
