----------------------------------- MODULE Dns ----------------------------------
(***************************************************************************)
(* The name server's records: those of the Domain objects                  *)
(* (controllers/common/domain_controller.go) and of the regions            *)
(* (region_controller.go), written through lib/nameserver/main.go.  An     *)
(* upsert has five seconds; the name server may perform it after the       *)
(* client gave up.  What the name server answers to a write is not read.   *)
(*                                                                         *)
(* The objects have their finalizers and labels, each has a name of its    *)
(* own and keeps it; they share nothing but their worker.  Rounds may      *)
(* begin at any time, on the copies of an informer.                        *)
(***************************************************************************)
EXTENDS Integers, FiniteSets

CONSTANTS Owner,        \* the objects that have a record
          Address,      \* IP addresses; their order is that of the strings
          Choices,      \* the sets of addresses an owner may want
          MaxLate,      \* bound: how many upserts may be pending
          Interference  \* what may happen besides reconciling, see below

\* "edit": Spec.Ips or the nodes of a region change; "delete": an object is
\* deleted; "refuse": the name server answers with an error status; "late": an
\* upsert times out; "fail": a call or a status write fails; "crash": the
\* manager restarts.
Disturbances == {"edit", "delete", "refuse", "late", "fail", "crash"}

ASSUME DnsAssumption ==
  /\ Address \subseteq Int /\ Choices \subseteq SUBSET Address
  /\ MaxLate \in Nat /\ Interference \subseteq Disturbances

VARIABLES
  kind,      \* owner -> "domain" or "region", for good
  phase,     \* owner -> "live", "deleting" or "gone"
  wants,     \* domain -> Spec.Ips; region -> the addresses of its nodes
  seen,      \* owner -> the informer's copy; old: the object changed since
  upToDate,  \* the domains whose check of this generation is true
  record,    \* owner -> the addresses the name server has
  late,      \* the upserts that the name server has still to perform
  round,     \* owner -> its reconcile in progress
  doubted    \* history: the owners whose last call did not do what it said

objects == <<kind, phase, wants, seen>>
server  == <<record, late>>
vars == <<objects, upToDate, server, round, doubted>>

Domain == {o \in Owner : kind[o] = "domain"}

Idle == [step |-> "idle"]

Init ==
  /\ kind \in [Owner -> {"domain", "region"}]
  /\ phase = [o \in Owner |-> "live"]
  /\ wants \in [Owner -> Choices]
  /\ seen = [o \in Owner |-> [phase |-> "live", ips |-> wants[o], old |-> FALSE]]
  /\ upToDate = {}
  /\ record = [o \in Owner |-> {}] /\ late = {}
  /\ round = [o \in Owner |-> Idle]
  /\ doubted = {}

Fails(what) == what \in Interference

-------------------------------------------------------------------------------
(***************************************************************************)
(* A round.  Its ips and old are those of the copy it works on.            *)
(***************************************************************************)
At(o, step)   == round[o].step = step
Goto(o, step) == round' = [round EXCEPT ![o].step = step]
EndRound(o)   == round' = [round EXCEPT ![o] = Idle]

StartAt(o, step) ==
  /\ At(o, "idle")
  /\ round' = [round EXCEPT ![o] =
                 [step |-> step, ips |-> seen[o].ips, old |-> seen[o].old]]
  /\ UNCHANGED <<objects, upToDate, server, doubted>>

FirstStep(o) == IF o \in Domain THEN "read" ELSE "upsert"

\* Mutant: a region that is deleted is finalized as a domain is.
BeginFinalizing(o) ==
  \/ seen[o].phase = "live" /\ StartAt(o, FirstStep(o))
  \/ seen[o].phase = "deleting" /\ StartAt(o, "delete")

\* A region that is being deleted is left as it is, for ever.
Begin(o) ==
  \/ seen[o].phase = "live" /\ StartAt(o, FirstStep(o))
  \/ seen[o].phase = "deleting" /\ o \in Domain /\ StartAt(o, "delete")

\* Mutant: only the number of addresses is compared.
SameCount(ips, found) == Cardinality(ips) = Cardinality(found)

\* Both lists are sorted in descending order, and compared as far as ips goes.
Matches(ips, found) ==
  ips \subseteq found /\ \A a \in found \ ips, b \in ips : a < b

ReadAs(o, found) ==
  /\ At(o, "read")
  /\ Goto(o, IF Matches(round[o].ips, found) THEN "confirm" ELSE "upsert")
  /\ UNCHANGED <<objects, upToDate, server, doubted>>

Read(o) == ReadAs(o, record[o])

\* Mutant: addresses are added only.
UpsertMore(o) ==
  /\ At(o, "upsert") /\ Goto(o, "confirm")
  /\ record' = [record EXCEPT ![o] = @ \cup round[o].ips]
  /\ doubted' = doubted \ {o}
  /\ UNCHANGED <<objects, upToDate, late>>

Upsert(o) ==
  /\ At(o, "upsert") /\ Goto(o, "confirm")
  /\ record' = [record EXCEPT ![o] = round[o].ips]
  /\ doubted' = doubted \ {o}
  /\ UNCHANGED <<objects, upToDate, late>>

\* Mutant: the status is written whatever has become of the object.
ConfirmAnyway(o) ==
  /\ At(o, "confirm") /\ EndRound(o)
  /\ upToDate' = upToDate \cup ({o} \cap Domain)
  /\ UNCHANGED <<objects, server, doubted>>

\* The check of a domain is written, unless the object has changed.
Confirm(o) ==
  /\ At(o, "confirm") /\ EndRound(o)
  /\ upToDate' = IF round[o].old THEN upToDate ELSE upToDate \cup ({o} \cap Domain)
  /\ UNCHANGED <<objects, server, doubted>>

\* Mutant: the domain is released and its record forgotten.
ReleaseAtOnce(o) ==
  /\ At(o, "delete") /\ Goto(o, "release")
  /\ UNCHANGED <<objects, upToDate, server, doubted>>

Delete(o) ==
  /\ At(o, "delete") /\ Goto(o, "release")
  /\ record' = [record EXCEPT ![o] = {}]
  /\ doubted' = doubted \ {o}
  /\ UNCHANGED <<objects, upToDate, late>>

Release(o) ==
  /\ At(o, "release") /\ EndRound(o)
  /\ phase' = IF round[o].old THEN phase ELSE [phase EXCEPT ![o] = "gone"]
  /\ seen' = [seen EXCEPT ![o].old = TRUE]
  /\ UNCHANGED <<kind, wants, upToDate, server, doubted>>

Round(o) == Read(o) \/ Upsert(o) \/ Confirm(o) \/ Delete(o) \/ Release(o)

-------------------------------------------------------------------------------
(***************************************************************************)
(* The name server, the informers, and what may go wrong.                  *)
(***************************************************************************)

\* An answer that cannot be parsed counts as an empty record.
ReadGarbage(o) == Fails("refuse") /\ ReadAs(o, {})

\* The status of the answer is not looked at.
Refused(o) ==
  /\ Fails("refuse")
  /\ \/ At(o, "upsert") /\ Goto(o, "confirm")
     \/ At(o, "delete") /\ Goto(o, "release")
  /\ doubted' = doubted \cup {o}
  /\ UNCHANGED <<objects, upToDate, server>>

\* CheckFailed, whose own write fails as well when the object has changed.
CheckFailed(o) ==
  /\ EndRound(o)
  /\ upToDate' = IF round[o].old THEN upToDate ELSE upToDate \ {o}

RoundFails(o) ==
  /\ Fails("fail") /\ ~At(o, "idle") /\ CheckFailed(o)
  /\ UNCHANGED <<objects, server, doubted>>

UpsertOf(o) == [of |-> o, ips |-> round[o].ips]

TimesOut(o) ==
  /\ Fails("late") /\ At(o, "upsert") /\ CheckFailed(o)
  /\ Cardinality(late) < MaxLate /\ late' = late \cup {UpsertOf(o)}
  /\ UNCHANGED <<objects, record, doubted>>

Arrive(u) ==
  /\ late' = late \ {u}
  /\ record' = [record EXCEPT ![u.of] = u.ips]
  /\ doubted' = doubted \cup {u.of}
  /\ UNCHANGED <<objects, upToDate, round>>

Current(o) == [phase |-> phase[o], ips |-> wants[o], old |-> FALSE]

Deliver(o) ==
  /\ seen[o].old
  /\ seen' = [seen EXCEPT ![o] = Current(o)]
  /\ UNCHANGED <<kind, phase, wants, upToDate, server, round, doubted>>

\* The object is written: copies of it are old from now on.
Outdate(o) ==
  /\ seen' = [seen EXCEPT ![o].old = TRUE]
  /\ round' = IF At(o, "idle") THEN round ELSE [round EXCEPT ![o].old = TRUE]

Edit(o) ==
  /\ Fails("edit") /\ phase[o] = "live"
  /\ \E ips \in Choices : wants' = [wants EXCEPT ![o] = ips]
  /\ upToDate' = upToDate \ {o}
  /\ Outdate(o)
  /\ UNCHANGED <<kind, phase, server, doubted>>

Remove(o) ==
  /\ Fails("delete") /\ phase[o] = "live"
  /\ phase' = [phase EXCEPT ![o] = "deleting"]
  /\ Outdate(o)
  /\ UNCHANGED <<kind, wants, upToDate, server, doubted>>

\* An upsert on its way when the manager dies may still be performed.
Crash ==
  /\ Fails("crash")
  /\ round' = [o \in Owner |-> Idle]
  /\ seen' = [o \in Owner |-> Current(o)]
  /\ \E sent \in SUBSET {UpsertOf(o) : o \in {p \in Owner : At(p, "upsert")}} :
       /\ late' = late \cup sent
       /\ sent = {} \/ Cardinality(late') <= MaxLate
  /\ UNCHANGED <<kind, phase, wants, upToDate, record, doubted>>

Inside ==
  \/ \E o \in Owner : Begin(o) \/ Round(o) \/ Deliver(o)
  \/ \E u \in late : Arrive(u)

World ==
  \/ \E o \in Owner :
       \/ ReadGarbage(o) \/ Refused(o) \/ RoundFails(o) \/ TimesOut(o)
       \/ Edit(o) \/ Remove(o)
  \/ Crash

Next == Inside \/ World

Spec == Init /\ [][Next]_vars

\* The objects come back every 30 seconds, none is passed over by the
\* workqueue, informers deliver and the name server does its work.
Fairness ==
  /\ \A o \in Owner : WF_vars(Begin(o)) /\ WF_vars(Round(o)) /\ WF_vars(Deliver(o))
  /\ WF_vars(\E u \in late : Arrive(u))

\* From some moment on nothing goes wrong.
CalmSpec == Spec /\ Fairness /\ <>[][Inside]_vars

-------------------------------------------------------------------------------
Copy   == [phase : {"live", "deleting", "gone"}, ips : SUBSET Address, old : BOOLEAN]
Rounds == [step : {"read", "upsert", "confirm", "delete", "release"},
           ips : SUBSET Address, old : BOOLEAN]

\* Types; and a region never goes.
TypeOK ==
  /\ kind \in [Owner -> {"domain", "region"}]
  /\ phase \in [Owner -> {"live", "deleting", "gone"}]
  /\ \A o \in Owner : phase[o] = "gone" => o \in Domain
  /\ wants \in [Owner -> SUBSET Address] /\ seen \in [Owner -> Copy]
  /\ upToDate \subseteq Domain /\ doubted \subseteq Owner
  /\ record \in [Owner -> SUBSET Address]
  /\ late \subseteq [of : Owner, ips : SUBSET Address]
  /\ round \in [Owner -> Rounds \cup {Idle}]

\* A domain whose check says that its record is up to date is answered with
\* all its addresses, unless the name server refused an upsert or performed
\* one late (reconUpdateRecord, 98-171).
Confirmed ==
  \A d \in upToDate : phase[d] = "live" =>
    wants[d] \subseteq record[d] \/ d \in doubted

\* A domain that is gone has no record, with the same two exceptions (finalize,
\* 174-182).
NoGhost ==
  \A o \in Owner : phase[o] = "gone" => record[o] = {} \/ o \in doubted

\* Left alone, a domain is gone or has its addresses; lower ones that it had
\* before may stay (reconUpdateRecord, 141-152).
Follows ==
  <>[](\A d \in Domain :
         \/ phase[d] = "gone"
         \/ /\ phase[d] = "live" /\ wants[d] \subseteq record[d]
            /\ \A a \in record[d] \ wants[d], b \in wants[d] : a < b)

\* Left alone, the record of a region has the addresses of its nodes and no
\* others, whatever came late (region_controller.go:130-206).
RegionFollows ==
  <>[](\A r \in Owner \ Domain : phase[r] = "live" => record[r] = wants[r])
===============================================================================
