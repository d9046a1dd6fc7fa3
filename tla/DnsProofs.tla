-------------------------------- MODULE DnsProofs -------------------------------
(***************************************************************************)
(* Proofs about Dns, for any owners and addresses and with everything of   *)
(* Disturbances: its type, what a check that is true says, and that what   *)
(* is gone leaves no record.                                               *)
(***************************************************************************)
EXTENDS Dns, TLAPS

Closing(o) == round[o].step \in {"delete", "release"}

\* The parts of the type invariant.
ObjectsOK ==
  /\ kind \in [Owner -> {"domain", "region"}]
  /\ phase \in [Owner -> {"live", "deleting", "gone"}]
  /\ wants \in [Owner -> SUBSET Address] /\ seen \in [Owner -> Copy]
ServerOK ==
  /\ record \in [Owner -> SUBSET Address]
  /\ late \subseteq [of : Owner, ips : SUBSET Address]
RoundOK == round \in [Owner -> Rounds \cup {Idle}]
StatusOK == upToDate \subseteq Domain /\ doubted \subseteq Owner

\* Only domains are finalized.
DomainsGo == \A o \in Owner : phase[o] = "gone" \/ Closing(o) => o \in Domain

Typed == ObjectsOK /\ ServerOK /\ RoundOK /\ StatusOK /\ DomainsGo

LEMMA TypedIsTypeOK == Typed => TypeOK
  BY DEF Typed, ObjectsOK, ServerOK, RoundOK, StatusOK, DomainsGo, TypeOK

LEMMA TypedInit == Init => Typed
<1> SUFFICES ASSUME Init PROVE Typed
  OBVIOUS
<1> USE DEF Init, Idle
<1>1. ObjectsOK
  BY DnsAssumption DEF ObjectsOK, Copy
<1>2. ServerOK /\ RoundOK /\ StatusOK
  BY DEF ServerOK, RoundOK, StatusOK
<1>3. DomainsGo
  BY DEF DomainsGo, Closing
<1> QED
  BY <1>1, <1>2, <1>3 DEF Typed

LEMMA OldCopy ==
  ASSUME seen \in [Owner -> Copy], NEW o \in Owner
  PROVE  [seen EXCEPT ![o].old = TRUE] \in [Owner -> Copy]
  BY DEF Copy

LEMMA RoundTyped ==
  ASSUME Typed, NEW o \in Owner, Begin(o) \/ Round(o) PROVE Typed'
<1> USE DEF Typed, ObjectsOK, ServerOK, RoundOK, StatusOK, DomainsGo, Closing, Copy,
        Rounds, Domain, objects, server, At, Goto, EndRound, Idle
<1>1. CASE Begin(o)
  <2>1. PICK step \in {"read", "upsert", "delete"} :
          StartAt(o, step) /\ (step = "delete" => o \in Domain)
    BY <1>1 DEF Begin, FirstStep
  <2>2. [step |-> step, ips |-> seen[o].ips, old |-> seen[o].old] \in Rounds
    OBVIOUS
  <2>3. RoundOK' /\ \A q \in Owner : q # o => round'[q] = round[q]
    BY <2>1, <2>2 DEF StartAt
  <2>4. round'[o].step = step
    BY <2>1 DEF StartAt
  <2> QED
    BY <2>1, <2>3, <2>4 DEF StartAt
<1>2. CASE Read(o)
  BY <1>2 DEF Read, ReadAs
<1>3. CASE Upsert(o)
  BY <1>3 DEF Upsert
<1>4. CASE Confirm(o)
  BY <1>4 DEF Confirm
<1>5. CASE Delete(o)
  BY <1>5 DEF Delete
<1>6. CASE Release(o)
  <2>1. round' = [round EXCEPT ![o] = Idle] /\ o \in Domain
    BY <1>6 DEF Release
  <2>2. phase' \in {phase, [phase EXCEPT ![o] = "gone"]}
    BY <1>6 DEF Release
  <2>3. seen' \in [Owner -> Copy]
    <3>1. seen \in [Owner -> Copy] /\ seen' = [seen EXCEPT ![o].old = TRUE]
      BY <1>6 DEF Release
    <3> QED
      BY <3>1, OldCopy
  <2>4. RoundOK' /\ DomainsGo'
    BY <2>1, <2>2, <1>6 DEF Release
  <2> QED
    BY <1>6, <2>2, <2>3, <2>4 DEF Release
<1> QED
  BY <1>1, <1>2, <1>3, <1>4, <1>5, <1>6 DEF Round

LEMMA OutdateTyped ==
  ASSUME Typed, NEW o \in Owner, Outdate(o)
  PROVE  seen' \in [Owner -> Copy] /\ RoundOK' /\ \A q \in Owner : Closing(q)' => Closing(q)
<1> USE DEF Typed, ObjectsOK, RoundOK, Closing, Copy, Rounds, At, Idle, Outdate
<1>1. seen' \in [Owner -> Copy]
  OBVIOUS
<1>2. CASE At(o, "idle")
  BY <1>1, <1>2
<1>3. CASE ~At(o, "idle")
  <2>1. round[o] \in Rounds /\ round' = [round EXCEPT ![o].old = TRUE]
    BY <1>3
  <2>2. [round[o] EXCEPT !.old = TRUE] \in Rounds
    BY <2>1
  <2>3. \A q \in Owner :
          round'[q] = IF q = o THEN [round[o] EXCEPT !.old = TRUE] ELSE round[q]
    BY <2>1
  <2>4. RoundOK'
    BY <2>1, <2>2
  <2>5. \A q \in Owner : round'[q].step = round[q].step
    BY <2>1, <2>3
  <2> QED
    BY <1>1, <2>4, <2>5
<1> QED
  BY <1>2, <1>3

LEMMA OthersTyped ==
  ASSUME Typed, NEW o \in Owner,
         \/ Deliver(o) \/ ReadGarbage(o) \/ Refused(o)
         \/ RoundFails(o) \/ TimesOut(o) \/ Edit(o) \/ Remove(o)
  PROVE  Typed'
<1> USE DEF Typed, ObjectsOK, ServerOK, RoundOK, StatusOK, DomainsGo, Closing, Copy,
        Rounds, Domain, objects, server, At, Goto, EndRound, Idle
<1>1. CASE Deliver(o)
  BY <1>1 DEF Deliver, Current
<1>2. CASE ReadGarbage(o)
  BY <1>2 DEF ReadGarbage, ReadAs
<1>3. CASE Refused(o)
  BY <1>3 DEF Refused
<1>4. CASE RoundFails(o)
  BY <1>4 DEF RoundFails, CheckFailed
<1>5. CASE TimesOut(o)
  <2>1. UpsertOf(o) \in [of : Owner, ips : SUBSET Address]
    BY <1>5 DEF TimesOut, UpsertOf
  <2> QED
    BY <1>5, <2>1 DEF TimesOut, CheckFailed
<1>6. CASE Edit(o)
  BY <1>6, OutdateTyped, DnsAssumption DEF Edit
<1>7. CASE Remove(o)
  BY <1>7, OutdateTyped DEF Remove
<1> QED
  BY <1>1, <1>2, <1>3, <1>4, <1>5, <1>6, <1>7

LEMMA CrashTyped == Typed /\ Crash => Typed'
<1> SUFFICES ASSUME Typed, Crash PROVE Typed'
  OBVIOUS
<1> USE DEF Typed, ObjectsOK, ServerOK, RoundOK, StatusOK, DomainsGo, Closing, Copy,
        Rounds, Domain, At, Idle
<1>1. \A o \in Owner : At(o, "upsert") =>
         UpsertOf(o) \in [of : Owner, ips : SUBSET Address]
  BY DEF UpsertOf
<1>2. late' \subseteq [of : Owner, ips : SUBSET Address]
  BY <1>1 DEF Crash
<1>3. seen' \in [Owner -> Copy]
  BY DEF Crash, Current
<1> QED
  BY <1>2, <1>3 DEF Crash

LEMMA ArriveTyped == ASSUME Typed, NEW u \in late, Arrive(u) PROVE Typed'
  BY DEF Arrive, Typed, ObjectsOK, ServerOK, RoundOK, StatusOK, DomainsGo, Closing,
     Domain, objects

LEMMA TypedStep == Typed /\ [Next]_vars => Typed'
<1>1. Typed /\ UNCHANGED vars => Typed'
  BY DEF vars, objects, server, Typed, ObjectsOK, ServerOK, RoundOK, StatusOK,
     DomainsGo, Closing, Domain
<1> QED
  BY <1>1, RoundTyped, OthersTyped, CrashTyped, ArriveTyped DEF Next, Inside, World

\* Every reachable state of the records and their owners has its type, and a
\* region is never released (region_controller.go:102-105).
THEOREM TypeCorrect == Spec => []TypeOK
<1>1. Spec => []Typed
  BY TypedInit, TypedStep, PTL DEF Spec
<1> QED
  BY <1>1, TypedIsTypeOK, PTL

-------------------------------------------------------------------------------
(***************************************************************************)
(* What a copy that is not old says, and what is known at each step of a   *)
(* round.  Nothing is asked of a round whose copy is old: it cannot write  *)
(* the status.                                                             *)
(***************************************************************************)
CopiesOK(o) ==
  /\ seen[o].phase # "live" => phase[o] # "live"
  /\ ~At(o, "idle") /\ ~Closing(o) => phase[o] # "gone"
  /\ Closing(o) \/ phase[o] = "gone" => seen[o].phase # "live"
  /\ seen[o].old \/ seen[o].ips = wants[o]
  /\ ~At(o, "idle") =>
       round[o].old \/ (round[o].ips = wants[o] /\ ~seen[o].old)
  /\ o \in upToDate /\ phase[o] = "live" =>
       ~seen[o].old /\ (~At(o, "idle") => ~round[o].old)

Answered(o) == wants[o] \subseteq record[o] \/ o \in doubted
Emptied(o)  == record[o] = {} \/ o \in doubted

AnswersOK(o) ==
  /\ At(o, "confirm") => round[o].old \/ Answered(o)
  /\ At(o, "release") \/ phase[o] = "gone" => Emptied(o)
  /\ o \in upToDate /\ phase[o] = "live" => Answered(o)

Good(o) == CopiesOK(o) /\ AnswersOK(o)
Inv == Typed /\ \A o \in Owner : Good(o)

\* A step that does not touch an owner.
Untouched(o) ==
  /\ phase'[o] = phase[o] /\ wants'[o] = wants[o] /\ seen'[o] = seen[o]
  /\ record'[o] = record[o] /\ round'[o] = round[o]
  /\ (o \in upToDate') <=> (o \in upToDate)
  /\ (o \in doubted') <=> (o \in doubted)

LEMMA UntouchedGood == ASSUME NEW o \in Owner, Good(o), Untouched(o) PROVE Good(o)'
  BY DEF Good, CopiesOK, AnswersOK, Answered, Emptied, Untouched, At, Closing

LEMMA InvInit == Init => Inv
  BY TypedInit DEF Init, Inv, Good, CopiesOK, AnswersOK, Answered, Emptied, At, Closing,
     Idle

\* The rounds.
LEMMA RoundGood ==
  ASSUME Inv, NEW o \in Owner, Begin(o) \/ Round(o) \/ ReadGarbage(o) \/ Refused(o)
  PROVE  \A q \in Owner : Good(q)'
<1>1. ASSUME Good(o)', \A q \in Owner \ {o} : Untouched(q)
      PROVE  \A q \in Owner : Good(q)'
  BY <1>1, UntouchedGood DEF Inv
<1> USE DEF Inv, Typed, ObjectsOK, ServerOK, RoundOK, StatusOK, DomainsGo, Good,
        CopiesOK, AnswersOK, Answered, Emptied, Untouched, At, Closing, Goto, EndRound,
        Idle, objects, server
<1>2. CASE Begin(o)
  <2>1. PICK step \in {"read", "upsert", "delete"} :
          StartAt(o, step) /\ (step = "delete" <=> seen[o].phase # "live")
    BY <1>2 DEF Begin, FirstStep
  <2>2. round'[o] = [step |-> step, ips |-> seen[o].ips, old |-> seen[o].old]
    BY <2>1 DEF StartAt
  <2> QED
    BY <1>1, <2>1, <2>2 DEF StartAt
<1>3. ASSUME NEW found, ReadAs(o, found), found \in {record[o], {}}
      PROVE  \A q \in Owner : Good(q)'
  <2>1. PICK step \in {"confirm", "upsert"} :
          /\ round'[o] = [round[o] EXCEPT !.step = step]
          /\ step = "confirm" => round[o].ips \subseteq found
    BY <1>3 DEF ReadAs, Matches
  <2>2. round'[o].step = step /\ UNCHANGED <<round[o].ips, round[o].old>>
    BY <2>1, <1>3 DEF ReadAs, Rounds
  <2> QED
    BY <1>1, <1>3, <2>1, <2>2 DEF ReadAs
<1>4. CASE Read(o) \/ ReadGarbage(o)
  BY <1>3, <1>4 DEF Read, ReadGarbage
<1>5. CASE Upsert(o)
  <2>1. record'[o] = round[o].ips /\ round'[o] = [round[o] EXCEPT !.step = "confirm"]
    BY <1>5 DEF Upsert
  <2>2. round'[o].step = "confirm" /\ UNCHANGED <<round[o].ips, round[o].old>>
    BY <2>1, <1>5 DEF Upsert, Rounds
  <2> QED
    BY <1>1, <1>5, <2>1, <2>2 DEF Upsert
<1>6. CASE Confirm(o)
  BY <1>1, <1>6 DEF Confirm
<1>7. CASE Delete(o)
  <2>1. record'[o] = {} /\ round'[o] = [round[o] EXCEPT !.step = "release"]
    BY <1>7 DEF Delete
  <2>2. round'[o].step = "release" /\ UNCHANGED <<round[o].ips, round[o].old>>
    BY <2>1, <1>7 DEF Delete, Rounds
  <2> QED
    BY <1>1, <1>7, <2>1, <2>2 DEF Delete
<1>8. CASE Release(o)
  <2>1. round'[o] = Idle /\ phase'[o] \in {phase[o], "gone"} /\ phase[o] # "live"
    BY <1>8 DEF Release
  <2>2. seen'[o].old /\ seen'[o].phase = seen[o].phase
    BY <1>8 DEF Release, Copy
  <2>3. \A q \in Owner \ {o} : Untouched(q)
    BY <1>8 DEF Release
  <2>4. Good(o)'
    BY <1>8, <2>1, <2>2 DEF Release
  <2> QED
    BY <1>1, <2>3, <2>4
<1>9. CASE Refused(o)
  <2>1. PICK step \in {"confirm", "release"} :
          /\ round'[o] = [round[o] EXCEPT !.step = step]
          /\ step = "release" <=> At(o, "delete")
    BY <1>9 DEF Refused
  <2>2. round'[o].step = step /\ UNCHANGED <<round[o].ips, round[o].old>>
    BY <2>1, <1>9 DEF Refused, Rounds
  <2> QED
    BY <1>1, <1>9, <2>1, <2>2 DEF Refused
<1> QED
  BY <1>2, <1>4, <1>5, <1>6, <1>7, <1>8, <1>9 DEF Round

\* What the rest of the world does to one owner.
LEMMA OthersGood ==
  ASSUME Inv, NEW o \in Owner,
         Deliver(o) \/ RoundFails(o) \/ TimesOut(o) \/ Edit(o) \/ Remove(o)
  PROVE  \A q \in Owner : Good(q)'
<1>1. ASSUME Good(o)', \A q \in Owner \ {o} : Untouched(q)
      PROVE  \A q \in Owner : Good(q)'
  BY <1>1, UntouchedGood DEF Inv
<1> USE DEF Inv, Typed, ObjectsOK, ServerOK, RoundOK, StatusOK, DomainsGo, Good,
        CopiesOK, AnswersOK, Answered, Emptied, Untouched, At, Closing, EndRound,
        Idle, objects, server
<1>2. CASE Deliver(o)
  <2>1. seen'[o] = [phase |-> phase[o], ips |-> wants[o], old |-> FALSE]
    BY <1>2 DEF Deliver, Current
  <2> QED
    BY <1>1, <1>2, <2>1 DEF Deliver
<1>3. CASE RoundFails(o) \/ TimesOut(o)
  <2>1. /\ round' = [round EXCEPT ![o] = Idle] /\ UNCHANGED <<objects, record, doubted>>
        /\ upToDate' \in {upToDate, upToDate \ {o}}
    BY <1>3 DEF RoundFails, TimesOut, CheckFailed
  <2> QED
    BY <1>1, <2>1
<1>4. ASSUME Outdate(o)
      PROVE  /\ seen'[o].old /\ seen'[o].phase = seen[o].phase
             /\ round'[o].step = round[o].step /\ (~At(o, "idle") => round'[o].old)
             /\ \A q \in Owner \ {o} : seen'[q] = seen[q] /\ round'[q] = round[q]
  <2>1. seen'[o].old /\ seen'[o].phase = seen[o].phase
    BY <1>4 DEF Outdate, Copy
  <2>2. CASE At(o, "idle")
    BY <1>4, <2>1, <2>2 DEF Outdate
  <2>3. CASE ~At(o, "idle")
    <3>1. round' = [round EXCEPT ![o] = [round[o] EXCEPT !.old = TRUE]]
      BY <1>4, <2>3 DEF Outdate
    <3>2. round[o] \in Rounds
      BY <2>3
    <3>3. round'[o].step = round[o].step /\ round'[o].old
      BY <3>1, <3>2 DEF Rounds
    <3> QED
      BY <1>4, <2>1, <3>1, <3>3 DEF Outdate
  <2> QED
    BY <2>2, <2>3
<1>5. CASE Edit(o)
  BY <1>1, <1>4, <1>5 DEF Edit
<1>6. CASE Remove(o)
  BY <1>1, <1>4, <1>6 DEF Remove
<1> QED
  BY <1>2, <1>3, <1>5, <1>6

LEMMA ArriveGood ==
  ASSUME Inv, NEW u \in late, Arrive(u) PROVE \A q \in Owner : Good(q)'
<1> DEFINE o == u.of
<1>1. o \in Owner
  BY DEF Inv, Typed, ServerOK
<1>2. \A q \in Owner \ {o} : Untouched(q)
  BY <1>1 DEF Arrive, Untouched, objects, Inv, Typed, ServerOK
<1>3. Good(o)'
  BY <1>1 DEF Arrive, objects, Inv, Good, CopiesOK, AnswersOK, Answered, Emptied, At,
     Closing
<1> QED
  BY <1>2, <1>3, UntouchedGood DEF Inv

LEMMA CrashGood == Inv /\ Crash => \A q \in Owner : Good(q)'
  BY DEF Crash, Current, Inv, Good, CopiesOK, AnswersOK, Answered, Emptied, At, Closing,
     Idle

LEMMA InvStep == Inv /\ [Next]_vars => Inv'
<1> SUFFICES ASSUME Inv, [Next]_vars PROVE \A q \in Owner : Good(q)'
  BY TypedStep DEF Inv
<1>1. CASE UNCHANGED vars
  BY <1>1, UntouchedGood DEF vars, objects, server, Untouched, Inv
<1> QED
  BY <1>1, RoundGood, OthersGood, ArriveGood, CrashGood DEF Next, Inside, World

LEMMA Always == Spec => []Inv
  BY InvInit, InvStep, PTL DEF Spec

\* A true check of a live domain means that the name server has the addresses,
\* but for refused and late upserts (domain_controller.go:98-171).
THEOREM ChecksHold == Spec => []Confirmed
<1>1. Inv => Confirmed
  BY DEF Inv, Good, AnswersOK, Answered, Confirmed, Typed, StatusOK, Domain
<1> QED
  BY <1>1, Always, PTL

\* A domain that is gone leaves no record, with the same exceptions
\* (domain_controller.go:174-182).
THEOREM LeavesNoRecord == Spec => []NoGhost
<1>1. Inv => NoGhost
  BY DEF Inv, Good, AnswersOK, Emptied, NoGhost
<1> QED
  BY <1>1, Always, PTL
===============================================================================
