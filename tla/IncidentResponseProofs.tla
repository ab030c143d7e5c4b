----------------------- MODULE IncidentResponseProofs -----------------------
(***************************************************************************)
(* Theorems about IncidentResponse, for any tools, turns and scenarios, any *)
(* number of incidents and any faults.                                     *)
(***************************************************************************)
EXTENDS IncidentResponse, SequenceTheorems, FiniteSetTheorems, TLAPS

Records == Incident(Scenarios)

\* What holds of every record between two engine calls: it knows what it was
\* told in the right order, and an assertion ends it.
RecordOK(i) ==
    /\ i \in Records
    /\ i.succeeded \subseteq i.approved
    /\ i.approved \subseteq i.proposed
    /\ Open(i) => i.asserted = {}
    /\ Open(i) => \A a \in Actions : i.pending[a] = "waiting" => a \in i.succeeded
    /\ i.final = "recovered" =>
          i.recovery /\ (i.asserted # {} \/ (i.impact /\ i.succeeded = {}))

\* A record keeps what it knows.
Grows(i, j) ==
    /\ i.proposed \subseteq j.proposed
    /\ i.approved \subseteq j.approved
    /\ Open(j) => Open(i) /\ i.succeeded \subseteq j.succeeded

\* The verdict of j follows from what was known in i.
Verdict(i, j) ==
    \/ /\ j.final = i.final /\ j.asserted = i.asserted
       /\ Open(i) \/ j.succeeded = i.succeeded
    \/ /\ Open(i) /\ j.succeeded \subseteq i.succeeded /\ j.asserted = i.asserted
       /\ j.final \in {"failed", "denied", "expired"}
    \/ /\ Open(i) /\ j.succeeded = i.succeeded
       /\ \/ /\ i.succeeded # {} /\ j.asserted # {}
             /\ j.final \in {"recovered", "partial_recovery"}
          \/ i.succeeded = {} /\ j.final = "recovered" /\ j.asserted = i.asserted

\* What one callback may make of the record i.
Evolves(i, j) == RecordOK(j) /\ Grows(i, j) /\ Verdict(i, j)

-----------------------------------------------------------------------------
(* The engine, one call after the other.                                     *)

LEMMA Unchanged ==
    ASSUME NEW i, RecordOK(i)
    PROVE  Evolves(i, i)
BY DEF Evolves, Grows, Verdict

LEMMA FreshOK ==
    ASSUME NEW s \in Scenarios
    PROVE  RecordOK(Fresh(s)) /\ Open(Fresh(s))
BY DEF RecordOK, Fresh, Open, Records, Incident

LEMMA Finalized ==
    ASSUME NEW i, RecordOK(i), NEW f \in {"failed", "denied", "expired"}
    PROVE  Evolves(i, finalize(i, f))
BY DEF Evolves, Grows, Verdict, RecordOK, Open, Records, Incident, finalize, Finals

LEMMA Proposed ==
    ASSUME NEW i, RecordOK(i), NEW a \in Actions
    PROVE  /\ Evolves(i, proposeAction(i, a))
           /\ Open(i) => a \in proposeAction(i, a).proposed /\ Open(proposeAction(i, a))
           /\ proposeAction(i, a).succeeded = i.succeeded
BY DEF Evolves, Grows, Verdict, RecordOK, Open, Records, Incident, proposeAction

LEMMA Approved ==
    ASSUME NEW i, RecordOK(i), NEW a \in Actions
    PROVE  /\ Evolves(i, approveAction(i, a))
           /\ Open(i) /\ a \in i.proposed =>
                a \in approveAction(i, a).approved /\ Open(approveAction(i, a))
           /\ approveAction(i, a).succeeded = i.succeeded
BY DEF Evolves, Grows, Verdict, RecordOK, Open, Records, Incident, approveAction

LEMMA Executed ==
    ASSUME NEW i, RecordOK(i), NEW a \in Actions, a \in i.approved,
           NEW success \in BOOLEAN
    PROVE  /\ Evolves(i, recordActionResult(i, a, success))
           /\ success /\ Open(i) => a \in recordActionResult(i, a, success).succeeded
<1>1. CASE success
  BY <1>1 DEF Evolves, Grows, Verdict, RecordOK, Open, Records, Incident, recordActionResult
<1>2. CASE ~success
  <2> DEFINE j == [i EXCEPT !.succeeded = @ \ {a}]
  <2>1. RecordOK(i) /\ j \in Records
    BY DEF RecordOK, Records, Incident
  <2>2. recordActionResult(i, a, success) =
          IF Open(i) /\ a \in i.proposed THEN finalize(j, "failed") ELSE i
    BY <1>2 DEF recordActionResult
  <2>3. Open(i) => Evolves(i, finalize(j, "failed"))
    BY <2>1 DEF Evolves, Grows, Verdict, RecordOK, Open, Records, Incident, finalize, Finals
  <2>4. QED
    BY <1>2, <2>2, <2>3, Unchanged
<1>3. QED
  BY <1>1, <1>2

LEMMA Scheduled ==
    ASSUME NEW i, RecordOK(i), NEW a \in Actions, Open(i) => a \in i.succeeded
    PROVE  Evolves(i, schedulePendingAssertion(i, a))
BY DEF Evolves, Grows, Verdict, RecordOK, Open, Records, Incident, schedulePendingAssertion

LEMMA Resolved ==
    ASSUME NEW i, RecordOK(i), NEW a \in Actions
    PROVE  Evolves(i, resolvePendingAssertion(i, a))
BY DEF Evolves, Grows, Verdict, RecordOK, Open, Records, Incident, resolvePendingAssertion

LEMMA Asserted ==
    ASSUME NEW i, RecordOK(i), NEW a \in Actions, Open(i) => a \in i.succeeded,
           NEW passed \in BOOLEAN
    PROVE  Evolves(i, recordPostActionAssertion(i, a, passed))
<1>1. CASE ~Open(i)
  BY <1>1, Unchanged DEF recordPostActionAssertion
<1>2. CASE Open(i)
  <2> DEFINE k == [resolvePendingAssertion(i, a) EXCEPT !.asserted = @ \cup {a}]
  <2>1. /\ k \in Records /\ Open(k) /\ a \in k.asserted
        /\ k.proposed = i.proposed /\ k.approved = i.approved
        /\ k.succeeded = i.succeeded
    BY <1>2 DEF RecordOK, Open, Records, Incident, resolvePendingAssertion
  <2> HIDE DEF k
  <2>2. ASSUME NEW m \in Records, Open(m), NEW f \in {"recovered", "partial_recovery"},
               f = "recovered" => m.recovery
        PROVE  /\ finalize(m, f) \in Records
               /\ finalize(m, f).final = f
               /\ finalize(m, f).proposed = m.proposed
               /\ finalize(m, f).approved = m.approved
               /\ finalize(m, f).succeeded = m.succeeded
               /\ finalize(m, f).asserted = m.asserted
               /\ finalize(m, f).recovery = m.recovery
    BY <2>2 DEF finalize, Records, Incident, Finals, Open
  <2>3. /\ recordRecovery(k) \in Records /\ Open(recordRecovery(k))
        /\ recordRecovery(k).recovery
        /\ recordRecovery(k).proposed = k.proposed
        /\ recordRecovery(k).approved = k.approved
        /\ recordRecovery(k).succeeded = k.succeeded
        /\ recordRecovery(k).asserted = k.asserted
    BY <2>1 DEF recordRecovery, Records, Incident, Open
  <2>4. \E m \in Records, f \in {"recovered", "partial_recovery"} :
          /\ recordPostActionAssertion(i, a, passed) = finalize(m, f)
          /\ f = "recovered" => m.recovery
          /\ Open(m) /\ a \in m.asserted
          /\ m.proposed = i.proposed /\ m.approved = i.approved
          /\ m.succeeded = i.succeeded
    <3>1. recordPostActionAssertion(i, a, passed) =
            IF passed THEN finalize(recordRecovery(k), "recovered")
            ELSE finalize(k, "partial_recovery")
      BY <1>2 DEF recordPostActionAssertion, k
    <3>2. QED
      BY <2>1, <2>3, <3>1
  <2>5. QED
    BY <1>2, <2>2, <2>4 DEF Evolves, Grows, Verdict, RecordOK, Open
<1>3. QED
  BY <1>1, <1>2

\* Engine calls that leave succeeded and the verdict alone add nothing to what
\* a later call makes of the record.
LEMMA EvolvesAfter ==
    ASSUME NEW i, NEW j, NEW k, Evolves(i, j), Evolves(j, k),
           j.succeeded = i.succeeded, j.final = i.final
    PROVE  Evolves(i, k)
BY DEF Evolves, Grows, Verdict, Open

\* A record that stays open until its last call evolved, whatever the calls.
LEMMA EvolvesOpen ==
    ASSUME NEW i, NEW j, NEW k, RecordOK(i), Evolves(i, j), Evolves(j, k),
           k.final = j.final, k.asserted = j.asserted, k.succeeded = j.succeeded
    PROVE  Evolves(i, k)
BY DEF Evolves, Grows, Verdict, Open

LEMMA FixTrailEvolves ==
    ASSUME NEW i, RecordOK(i), Open(i), NEW a \in Actions, NEW success \in BOOLEAN,
           NEW k \in 1..Len(FixTrail(i, a, success))
    PROVE  Evolves(i, FixTrail(i, a, success)[k])
<1> DEFINE proposed == proposeAction(i, a)
           approved == approveAction(proposed, a)
           executed == recordActionResult(approved, a, success)
           scheduled == schedulePendingAssertion(executed, a)
<1>1. /\ Evolves(i, proposed) /\ RecordOK(proposed) /\ Open(proposed)
      /\ a \in proposed.proposed /\ proposed.succeeded = i.succeeded
  BY Proposed DEF Evolves
<1>2. /\ Evolves(proposed, approved) /\ RecordOK(approved) /\ Open(approved)
      /\ a \in approved.approved /\ approved.succeeded = i.succeeded
  BY <1>1, Approved DEF Evolves
<1>3. Evolves(i, approved)
  BY <1>1, <1>2, EvolvesAfter DEF Open
<1>4. /\ Evolves(approved, executed) /\ RecordOK(executed)
      /\ success => a \in executed.succeeded
  BY <1>2, Executed DEF Evolves
<1>5. Evolves(i, executed)
  BY <1>2, <1>3, <1>4, EvolvesAfter DEF Open
<1>6. success => Evolves(i, scheduled)
  <2>1. success => Evolves(executed, scheduled)
    BY <1>4, Scheduled
  <2>2. /\ scheduled.final = executed.final /\ scheduled.asserted = executed.asserted
        /\ scheduled.succeeded = executed.succeeded
    BY <1>4 DEF schedulePendingAssertion, RecordOK, Records, Incident
  <2>3. QED
    BY <1>5, <2>1, <2>2, EvolvesOpen
<1>7. FixTrail(i, a, success) =
        IF success THEN <<proposed, approved, executed, scheduled>>
        ELSE <<proposed, approved, executed>>
  BY DEF FixTrail
<1> HIDE DEF proposed, approved, executed, scheduled
<1>8. QED
  BY <1>1, <1>3, <1>5, <1>6, <1>7

LEMMA ToolTrailEvolves ==
    ASSUME NEW i, RecordOK(i), NEW a \in Actions, a \in i.approved,
           NEW success \in BOOLEAN, NEW k \in 1..Len(ToolTrail(i, a, success))
    PROVE  Evolves(i, ToolTrail(i, a, success)[k])
<1> DEFINE executed == recordActionResult(i, a, success)
           scheduled == schedulePendingAssertion(executed, a)
<1>1. /\ Evolves(i, executed) /\ RecordOK(executed)
      /\ success /\ Open(executed) => a \in executed.succeeded
  BY Executed DEF Evolves, Grows
<1>2. success => Evolves(i, scheduled)
  <2>1. success => Evolves(executed, scheduled)
    BY <1>1, Scheduled
  <2>2. /\ scheduled.final = executed.final /\ scheduled.asserted = executed.asserted
        /\ scheduled.succeeded = executed.succeeded
    BY <1>1 DEF schedulePendingAssertion, RecordOK, Records, Incident
  <2>3. QED
    BY <1>1, <2>1, <2>2, EvolvesOpen
<1>3. ToolTrail(i, a, success) = IF success THEN <<executed, scheduled>> ELSE <<executed>>
  BY DEF ToolTrail
<1> HIDE DEF executed, scheduled
<1>4. QED
  BY <1>1, <1>2, <1>3

\* A successful fix is on record, unless the record was closed meanwhile.
LEMMA ScheduledEnds ==
    ASSUME NEW i, RecordOK(i), NEW a \in Actions, Open(i) => a \in i.succeeded
    PROVE  LET j == schedulePendingAssertion(i, a)
           IN  Open(j) => a \in j.succeeded
BY DEF schedulePendingAssertion, RecordOK, Records, Incident, Open

LEMMA FixTrailEnds ==
    ASSUME NEW i, RecordOK(i), Open(i), NEW a \in Actions, NEW success \in BOOLEAN, success
    PROVE  LET trail == FixTrail(i, a, success)
           IN  Open(trail[Len(trail)]) => a \in trail[Len(trail)].succeeded
<1> DEFINE proposed == proposeAction(i, a)
           approved == approveAction(proposed, a)
           executed == recordActionResult(approved, a, success)
           scheduled == schedulePendingAssertion(executed, a)
<1>1. RecordOK(approved) /\ Open(approved) /\ a \in approved.approved
  BY Proposed, Approved DEF Evolves
<1>2. RecordOK(executed) /\ a \in executed.succeeded
  BY <1>1, Executed DEF Evolves
<1>3. Open(scheduled) => a \in scheduled.succeeded
  BY <1>2, ScheduledEnds
<1> HIDE DEF scheduled
<1>4. Len(FixTrail(i, a, success)) = 4 /\ FixTrail(i, a, success)[4] = scheduled
  BY DEF FixTrail, scheduled
<1>5. QED
  BY <1>3, <1>4

LEMMA ToolTrailEnds ==
    ASSUME NEW i, RecordOK(i), NEW a \in Actions, a \in i.approved,
           NEW success \in BOOLEAN, success
    PROVE  LET trail == ToolTrail(i, a, success)
           IN  Open(trail[Len(trail)]) => a \in trail[Len(trail)].succeeded
<1> DEFINE executed == recordActionResult(i, a, success)
           scheduled == schedulePendingAssertion(executed, a)
<1>1. RecordOK(executed) /\ (Open(executed) => a \in executed.succeeded)
  BY Executed DEF Evolves, Grows
<1>2. Open(scheduled) => a \in scheduled.succeeded
  BY <1>1, ScheduledEnds
<1> HIDE DEF scheduled
<1>3. Len(ToolTrail(i, a, success)) = 2 /\ ToolTrail(i, a, success)[2] = scheduled
  BY DEF ToolTrail, scheduled
<1>4. QED
  BY <1>2, <1>3

LEMMA PollTrailEvolves ==
    ASSUME NEW i, RecordOK(i), NEW reading, NEW k \in 1..Len(PollTrail(i, reading))
    PROVE  Evolves(i, PollTrail(i, reading)[k])
<1>1. Evolves(i, recordImpact(i))
  BY DEF recordImpact, Evolves, Grows, Verdict, RecordOK, Open, Records, Incident
<1>2. Evolves(i, recordRecovery(i))
  BY DEF recordRecovery, Evolves, Grows, Verdict, RecordOK, Open, Records, Incident
<1>3. Recovers(i) => Evolves(i, finalize(recordRecovery(i), "recovered"))
  BY DEF Recovers, hasPendingAssertion, finalize, recordRecovery, Evolves, Grows, Verdict,
         RecordOK, Open, Records, Incident, Finals
<1>4. \/ PollTrail(i, reading) = <<recordImpact(i)>>
      \/ /\ Recovers(i)
         /\ PollTrail(i, reading)
              = <<recordRecovery(i), finalize(recordRecovery(i), "recovered")>>
      \/ PollTrail(i, reading) = <<i>>
  BY DEF PollTrail
<1>5. QED
  BY <1>1, <1>2, <1>3, <1>4, Unchanged

-----------------------------------------------------------------------------
(* All records together.                                                     *)

\* Every record is in order, and only the newest may be open.
RecordsInv ==
    /\ incidents \in Seq(Records)
    /\ \A n \in DOMAIN incidents : RecordOK(incidents[n])
    /\ \A n \in DOMAIN incidents : Open(incidents[n]) => n = Len(incidents)

\* An approval, a call, a timer and a poll refer to incidents by number; what
\* they will write there later, the record can take whenever they do.
ApprovalInv ==
    /\ approval \in Approval
    /\ approval.incident \in 0..Len(incidents)
    /\ approval.status # "none" /\ approval.incident # 0 =>
          approval.action \in incidents[approval.incident].proposed
    /\ approval.status = "approved" /\ approval.incident # 0 =>
          approval.action \in incidents[approval.incident].approved

CallRefers(c) ==
    /\ c.incident \in 0..Len(incidents)
    /\ c.incident # 0 => c.action \in incidents[c.incident].approved

CallsInv == calls \subseteq Call /\ \A c \in calls : CallRefers(c)

CheckRefers(c) ==
    /\ c.incident \in DOMAIN incidents
    /\ Open(incidents[c.incident]) => c.action \in incidents[c.incident].succeeded

ChecksInv == checks \subseteq Check /\ \A c \in checks : CheckRefers(c)

PollInv == poll \in 0..Len(incidents)

FlagsInv ==
    /\ fixing \in BOOLEAN
    /\ started \subseteq Scenarios
    /\ server \in {"down", "starting", "up"}

Inv == RecordsInv /\ ApprovalInv /\ CallsInv /\ ChecksInv /\ PollInv /\ FlagsInv

\* What one step does to the records.
Activated ==
    /\ Active = 0
    /\ \E s \in Scenarios : incidents' = Append(incidents, Fresh(s))

Updated(n) ==
    /\ n \in DOMAIN incidents
    /\ \E j : Evolves(incidents[n], j) /\ incidents' = [incidents EXCEPT ![n] = j]

RecordsStep == UNCHANGED incidents \/ Activated \/ \E n \in DOMAIN incidents : Updated(n)

LEMMA ActiveIncident ==
    ASSUME incidents \in Seq(Records)
    PROVE  /\ Active \in 0..Len(incidents)
           /\ Active # 0 => Active \in DOMAIN incidents /\ Open(incidents[Active])
           /\ Active = 0 =>
                Len(incidents) = 0 \/ ~Open(incidents[Len(incidents)])
BY DEF Active

\* Storing a record that evolved is a step of the records.
LEMMA StoreStep ==
    ASSUME incidents \in Seq(Records), NEW n \in 0..Len(incidents), NEW j,
           n # 0 => Evolves(incidents[n], j), Store(n, j)
    PROVE  RecordsStep
BY DEF Store, RecordsStep, Updated

\* Whatever the step, the records stay in order and none forgets anything.
LEMMA RecordsKept ==
    ASSUME RecordsInv, RecordsStep
    PROVE  /\ RecordsInv'
           /\ Len(incidents) <= Len(incidents')
           /\ \A n \in DOMAIN incidents :
                n \in DOMAIN incidents' /\ Grows(incidents[n], incidents'[n])
<1> incidents \in Seq(Records)
  BY DEF RecordsInv
<1>1. CASE UNCHANGED incidents
  BY <1>1, Unchanged DEF RecordsInv, Evolves
<1>2. CASE Activated
  <2>1. PICK s \in Scenarios : incidents' = Append(incidents, Fresh(s))
    BY <1>2 DEF Activated
  <2>2. RecordOK(Fresh(s)) /\ Fresh(s) \in Records
    BY FreshOK DEF RecordOK
  <2>3. \A n \in DOMAIN incidents : ~Open(incidents[n]) /\ incidents'[n] = incidents[n]
    BY <1>2, <2>1, ActiveIncident DEF Activated, RecordsInv
  <2>4. /\ incidents' \in Seq(Records) /\ Len(incidents') = Len(incidents) + 1
        /\ incidents'[Len(incidents')] = Fresh(s)
    BY <2>1, <2>2
  <2>5. DOMAIN incidents' = DOMAIN incidents \cup {Len(incidents')}
    BY <2>4
  <2>6. QED
    BY <2>2, <2>3, <2>4, <2>5 DEF RecordsInv, Grows
<1>3. ASSUME NEW n \in DOMAIN incidents, Updated(n)
      PROVE  /\ RecordsInv'
             /\ Len(incidents) <= Len(incidents')
             /\ \A m \in DOMAIN incidents :
                  m \in DOMAIN incidents' /\ Grows(incidents[m], incidents'[m])
  <2>1. PICK j : Evolves(incidents[n], j) /\ incidents' = [incidents EXCEPT ![n] = j]
    BY <1>3 DEF Updated
  <2>2. j \in Records /\ RecordOK(j) /\ Grows(incidents[n], j) /\ Open(j) => Open(incidents[n])
    BY <2>1 DEF Evolves, Grows, RecordOK
  <2>3. /\ incidents' \in Seq(Records) /\ Len(incidents') = Len(incidents)
        /\ DOMAIN incidents' = DOMAIN incidents
        /\ \A m \in DOMAIN incidents : incidents'[m] = IF m = n THEN j ELSE incidents[m]
    BY <2>1, <2>2 DEF Evolves, RecordOK
  <2>4. \A m \in DOMAIN incidents : Grows(incidents[m], incidents[m])
    BY DEF Grows
  <2>5. QED
    BY <2>1, <2>2, <2>3, <2>4 DEF RecordsInv, Evolves, Grows
<1>4. QED
  BY <1>1, <1>2, <1>3 DEF RecordsStep

\* References to the records stay good while the records only grow.
LEMMA ReferencesKept ==
    ASSUME Inv, RecordsStep
    PROVE  /\ approval' \in {approval, NoApproval} => ApprovalInv'
           /\ \A c \in calls : CallRefers(c)'
           /\ \A c \in checks : CheckRefers(c)'
           /\ poll' \in {poll, 0} => PollInv'
<1> USE DEF Inv
<1>1. /\ Len(incidents) \in Nat /\ Len(incidents') \in Nat
      /\ Len(incidents) <= Len(incidents')
      /\ DOMAIN incidents = 1..Len(incidents)
      /\ DOMAIN incidents' = 1..Len(incidents')
      /\ \A n \in 1..Len(incidents) : Grows(incidents[n], incidents'[n])
  BY RecordsKept DEF RecordsInv
<1>2. approval' = NoApproval => ApprovalInv'
  BY <1>1 DEF ApprovalInv, NoApproval, Approval
<1>3. approval' = approval => ApprovalInv'
  BY <1>1 DEF ApprovalInv, Grows
<1>4. \A c \in calls : CallRefers(c)'
  BY <1>1 DEF CallsInv, CallRefers, Grows
<1>5. \A c \in checks : CheckRefers(c)'
  BY <1>1 DEF ChecksInv, CheckRefers, Grows
<1>6. poll' \in {poll, 0} => PollInv'
  BY <1>1 DEF PollInv
<1>7. QED
  BY <1>2, <1>3, <1>4, <1>5, <1>6

\* A process that dies forgets everything that refers to a record.
LEMMA Died ==
    ASSUME Inv, RecordsStep, Die, started' \subseteq Scenarios
    PROVE  Inv'
<1>1. RecordsInv'
  BY RecordsKept DEF Inv
<1>2. ApprovalInv' /\ PollInv'
  BY ReferencesKept DEF Die
<1>3. QED
  BY <1>1, <1>2 DEF Inv, Die, CallsInv, ChecksInv, FlagsInv

\* Most actions leave all but one of the references alone.
LEMMA KeptInv ==
    ASSUME Inv, RecordsStep, ApprovalInv', CallsInv', ChecksInv', PollInv', FlagsInv'
    PROVE  Inv'
BY RecordsKept DEF Inv

LEMMA TornStep ==
    ASSUME Inv, NEW n \in 0..Len(incidents), NEW trail, Torn(n, trail),
           Len(trail) \in Nat,
           n # 0 => \A k \in 1..Len(trail) : Evolves(incidents[n], trail[k])
    PROVE  RecordsStep /\ Die
<1>1. PICK k \in 1..(Len(trail) - 1) : Store(n, trail[k])
  BY DEF Torn
<1>2. n # 0 => Evolves(incidents[n], trail[k])
  OBVIOUS
<1>3. incidents \in Seq(Records)
  BY DEF Inv, RecordsInv
<1>4. RecordsStep
  BY <1>1, <1>2, <1>3, StoreStep
<1>5. QED
  BY <1>4 DEF Torn

-----------------------------------------------------------------------------
(* The actions.                                                              *)

LEMMA Indices ==
    ASSUME Inv
    PROVE  /\ incidents \in Seq(Records)
           /\ Len(incidents) \in Nat
           /\ DOMAIN incidents = 1..Len(incidents)
           /\ \A n \in 1..Len(incidents) : RecordOK(incidents[n])
           /\ Tools \subseteq Actions /\ Direct \subseteq Actions
BY ResponseAssumption DEF Inv, RecordsInv

LEMMA CheckSteps ==
    ASSUME Inv, NEW c \in checks, CheckDue(c) \/ \E r \in Readings : CheckAnswered(c, r)
    PROVE  RecordsStep /\ Inv'
<1>1. /\ c \in Check /\ c.incident \in DOMAIN incidents /\ c.action \in Actions
      /\ RecordOK(incidents[c.incident])
      /\ Open(incidents[c.incident]) => c.action \in incidents[c.incident].succeeded
  BY DEF Inv, ChecksInv, CheckRefers, Check, RecordsInv
<1>2. RecordsStep
  <2>1. CASE CheckDue(c)
    <3>1. Evolves(incidents[c.incident],
                  resolvePendingAssertion(incidents[c.incident], c.action))
      BY <1>1, Resolved
    <3>2. QED
      BY <1>1, <2>1, <3>1, Indices, StoreStep DEF CheckDue, RecordsStep
  <2>2. ASSUME NEW r \in Readings, CheckAnswered(c, r) PROVE RecordsStep
    <3>1. Evolves(incidents[c.incident],
                  recordPostActionAssertion(incidents[c.incident], c.action, r = "inactive"))
      BY <1>1, Asserted
    <3>2. QED
      BY <1>1, <2>2, <3>1, Indices, StoreStep DEF CheckAnswered, RecordsStep
  <2>3. QED
    BY <2>1, <2>2
<1>3. /\ UNCHANGED <<approval, calls, poll, fixing, started, server>>
      /\ checks' \subseteq checks \cup {[c EXCEPT !.at = "asking"], [c EXCEPT !.at = "timer"]}
  BY DEF CheckDue, CheckAnswered
<1>4. ChecksInv'
  <2>1. \A d \in checks' : d \in Check /\ \E e \in checks :
            d.incident = e.incident /\ d.action = e.action
    BY <1>1, <1>3 DEF Inv, ChecksInv, Check
  <2>2. QED
    BY <1>2, <2>1, ReferencesKept DEF ChecksInv, CheckRefers
<1>5. ApprovalInv' /\ CallsInv' /\ PollInv' /\ FlagsInv'
  BY <1>2, <1>3, ReferencesKept DEF Inv, CallsInv, FlagsInv
<1>6. QED
  BY <1>2, <1>4, <1>5, KeptInv

LEMMA BreakStep ==
    ASSUME Inv, NEW s \in Scenarios, Break(s)
    PROVE  RecordsStep /\ Inv'
<1>1. RecordsStep
  BY DEF Break, RecordsStep, Activated
<1>2. /\ UNCHANGED <<approval, calls, checks, poll, fixing, server>>
      /\ started' \subseteq Scenarios
  BY DEF Break, Inv, FlagsInv
<1>3. ApprovalInv' /\ CallsInv' /\ ChecksInv' /\ PollInv' /\ FlagsInv'
  BY <1>1, <1>2, ReferencesKept DEF Inv, CallsInv, ChecksInv, FlagsInv
<1>4. QED
  BY <1>1, <1>3, KeptInv

\* A timer refers to the fix it will assert.
LEMMA TimerRefers ==
    ASSUME Inv, RecordsStep, NEW n \in DOMAIN incidents, NEW a \in Actions,
           Open(incidents'[n]) => a \in incidents'[n].succeeded
    PROVE  \A c \in Timer(n, a) : c \in Check /\ CheckRefers(c)'
<1>1. n \in DOMAIN incidents' /\ n \in Nat
  BY RecordsKept, Indices DEF Inv
<1>2. QED
  BY <1>1 DEF Timer, Check, CheckRefers

LEMMA FixSteps ==
    ASSUME Inv, Fix \/ FixReturns
    PROVE  RecordsStep /\ Inv'
<1>1. CASE Fix
  <2>1. RecordsStep
    BY <1>1 DEF Fix, RecordsStep
  <2>2. ApprovalInv' /\ CallsInv' /\ ChecksInv' /\ PollInv' /\ FlagsInv'
    BY <1>1, <2>1, ReferencesKept DEF Fix, Inv, CallsInv, ChecksInv, FlagsInv
  <2>3. QED
    BY <2>1, <2>2, KeptInv
<1>2. CASE FixReturns
  <2>1. PICK success \in BOOLEAN :
          /\ started' = IF success THEN {} ELSE started
          /\ \/ /\ Active = 0
                /\ fixing' = FALSE
                /\ UNCHANGED <<incidents, approval, calls, checks, poll, server>>
             \/ \E a \in Direct :
                   LET trail == FixTrail(incidents[Active], a, success)
                   IN  /\ Active # 0 /\ a \notin incidents[Active].proposed
                       /\ \/ /\ StoreAll(Active, trail)
                             /\ fixing' = FALSE
                             /\ checks' = checks
                                   \cup (IF success THEN Timer(Active, a) ELSE {})
                             /\ UNCHANGED <<approval, calls, poll, server>>
                          \/ Torn(Active, trail)
    BY <1>2 DEF FixReturns
  <2>2. started' \subseteq Scenarios
    BY <2>1 DEF Inv, FlagsInv
  <2>3. CASE Active = 0
    <3>1. /\ fixing' = FALSE
          /\ UNCHANGED <<incidents, approval, calls, checks, poll, server>>
      BY <2>1, <2>3
    <3>2. RecordsStep
      BY <3>1 DEF RecordsStep
    <3>3. ApprovalInv' /\ CallsInv' /\ ChecksInv' /\ PollInv' /\ FlagsInv'
      BY <2>2, <3>1, <3>2, ReferencesKept DEF Inv, CallsInv, ChecksInv, FlagsInv
    <3>4. QED
      BY <3>2, <3>3, KeptInv
  <2>4. CASE Active # 0
    <3>1. PICK a \in Direct :
            \/ /\ StoreAll(Active, FixTrail(incidents[Active], a, success))
               /\ fixing' = FALSE
               /\ checks' = checks \cup (IF success THEN Timer(Active, a) ELSE {})
               /\ UNCHANGED <<approval, calls, poll, server>>
            \/ Torn(Active, FixTrail(incidents[Active], a, success))
      BY <2>1, <2>4
    <3> DEFINE i == incidents[Active]
               trail == FixTrail(i, a, success)
    <3>2. /\ Active \in DOMAIN incidents /\ Active \in 0..Len(incidents)
          /\ Open(i) /\ RecordOK(i) /\ a \in Actions
      BY <2>4, Indices, ActiveIncident
    <3>3. Len(trail) \in 1..4 /\ Len(trail) \in Nat /\ Len(trail) \in 1..Len(trail)
      BY DEF FixTrail
    <3>4. \A k \in 1..Len(trail) : Evolves(i, trail[k])
      BY <3>2, FixTrailEvolves
    <3>5. success => (Open(trail[Len(trail)]) => a \in trail[Len(trail)].succeeded)
      BY <3>2, FixTrailEnds
    <3> HIDE DEF trail
    <3>6. CASE Torn(Active, trail)
      <4>1. RecordsStep /\ Die
        BY <3>2, <3>3, <3>4, <3>6, TornStep
      <4>2. QED
        BY <2>2, <4>1, Died
    <3>7. CASE /\ StoreAll(Active, trail)
               /\ fixing' = FALSE
               /\ checks' = checks \cup (IF success THEN Timer(Active, a) ELSE {})
               /\ UNCHANGED <<approval, calls, poll, server>>
      <4>1. Store(Active, trail[Len(trail)])
        BY <3>7 DEF StoreAll
      <4>2. RecordsStep
        BY <3>2, <3>3, <3>4, <4>1, Indices, StoreStep
      <4>3. incidents'[Active] = trail[Len(trail)]
        BY <3>2, <4>1, Indices DEF Store
      <4>4. success => \A c \in Timer(Active, a) : c \in Check /\ CheckRefers(c)'
        BY <3>2, <3>5, <4>2, <4>3, TimerRefers
      <4>5. ChecksInv'
        BY <3>7, <4>2, <4>4, ReferencesKept DEF Inv, ChecksInv
      <4>6. ApprovalInv' /\ CallsInv' /\ PollInv' /\ FlagsInv'
        BY <2>2, <3>7, <4>2, ReferencesKept DEF Inv, CallsInv, FlagsInv
      <4>7. QED
        BY <4>2, <4>5, <4>6, KeptInv
    <3>8. QED
      BY <3>1, <3>6, <3>7 DEF trail
  <2>5. QED
    BY <2>3, <2>4
<1>3. QED
  BY <1>1, <1>2

\* What a call returns to is the incident it was granted for.
LEMMA ToolReturnsStep ==
    ASSUME Inv, NEW c \in calls, ToolReturns(c)
    PROVE  RecordsStep /\ Inv'
<1>1. /\ c \in Call /\ c.action \in Actions /\ c.incident \in 0..Len(incidents)
      /\ c.incident # 0 => c.action \in incidents[c.incident].approved
  BY Indices DEF Inv, CallsInv, CallRefers, Call
<1>2. CASE c.incident = 0
  <2>1. calls' \subseteq calls /\ UNCHANGED <<incidents, approval, fixing, checks, poll, server, started>>
    BY <1>2 DEF ToolReturns
  <2>2. RecordsStep
    BY <2>1 DEF RecordsStep
  <2>3. ApprovalInv' /\ CallsInv' /\ ChecksInv' /\ PollInv' /\ FlagsInv'
    BY <2>1, <2>2, ReferencesKept DEF Inv, CallsInv, ChecksInv, FlagsInv
  <2>4. QED
    BY <2>2, <2>3, KeptInv
<1>3. CASE c.incident # 0
  <2> DEFINE n == c.incident
             i == incidents[n]
             a == c.action
  <2>1. PICK success \in BOOLEAN :
          \/ /\ StoreAll(n, ToolTrail(i, a, success))
             /\ calls' = calls \ {c}
             /\ checks' = checks \cup (IF success THEN Timer(n, a) ELSE {})
             /\ UNCHANGED <<approval, fixing, poll, server, started>>
          \/ Torn(n, ToolTrail(i, a, success)) /\ UNCHANGED started
    BY <1>3 DEF ToolReturns
  <2> DEFINE trail == ToolTrail(i, a, success)
  <2>2. n \in DOMAIN incidents /\ n \in 0..Len(incidents) /\ RecordOK(i) /\ a \in i.approved
    BY <1>1, <1>3, Indices
  <2>3. Len(trail) \in Nat /\ Len(trail) \in 1..Len(trail)
    BY DEF ToolTrail
  <2>4. \A k \in 1..Len(trail) : Evolves(i, trail[k])
    BY <1>1, <2>2, ToolTrailEvolves
  <2>5. success => (Open(trail[Len(trail)]) => a \in trail[Len(trail)].succeeded)
    BY <1>1, <2>2, ToolTrailEnds
  <2> HIDE DEF trail
  <2>6. CASE Torn(n, trail) /\ UNCHANGED started
    <3>1. RecordsStep /\ Die
      BY <2>2, <2>3, <2>4, <2>6, TornStep
    <3>2. QED
      BY <2>6, <3>1, Died DEF Inv, FlagsInv
  <2>7. CASE /\ StoreAll(n, trail)
             /\ calls' = calls \ {c}
             /\ checks' = checks \cup (IF success THEN Timer(n, a) ELSE {})
             /\ UNCHANGED <<approval, fixing, poll, server, started>>
    <3>1. Store(n, trail[Len(trail)])
      BY <2>7 DEF StoreAll
    <3>2. RecordsStep
      BY <2>2, <2>3, <2>4, <3>1, Indices, StoreStep
    <3>3. incidents'[n] = trail[Len(trail)]
      BY <1>3, <2>2, <3>1, Indices DEF Store
    <3>4. success => \A d \in Timer(n, a) : d \in Check /\ CheckRefers(d)'
      BY <1>1, <2>2, <2>5, <3>2, <3>3, TimerRefers
    <3>5. ChecksInv'
      BY <2>7, <3>2, <3>4, ReferencesKept DEF Inv, ChecksInv
    <3>6. ApprovalInv' /\ CallsInv' /\ PollInv' /\ FlagsInv'
      BY <2>7, <3>2, ReferencesKept DEF Inv, CallsInv, FlagsInv
    <3>7. QED
      BY <3>2, <3>5, <3>6, KeptInv
  <2>8. QED
    BY <2>1, <2>6, <2>7 DEF trail
<1>4. QED
  BY <1>2, <1>3

LEMMA ApprovalType ==
    ASSUME NEW p \in Approval, p.status # "none"
    PROVE  /\ p.action \in Tools
           /\ [p EXCEPT !.expired = TRUE] \in Approval
           /\ [p EXCEPT !.status = "approved"] \in Approval
           /\ [p EXCEPT !.expired = TRUE].status = p.status
           /\ [p EXCEPT !.expired = TRUE].action = p.action
           /\ [p EXCEPT !.expired = TRUE].incident = p.incident
           /\ [p EXCEPT !.status = "approved"].action = p.action
           /\ [p EXCEPT !.status = "approved"].incident = p.incident
<1>1. p # NoApproval
  BY DEF NoApproval
<1>2. p \in [status : {"pending", "approved"}, action : Tools, turn : Turns,
             incident : Nat, expired : BOOLEAN]
  BY <1>1 DEF Approval
<1>3. QED
  BY <1>2 DEF Approval

LEMMA NewApprovalType ==
    ASSUME NEW a \in Tools, NEW t \in Turns, NEW n \in Nat
    PROVE  NewApproval(a, t, n) \in Approval /\ NewApproval(a, t, n).action = a
BY DEF NewApproval, Approval

LEMMA CallToolStep ==
    ASSUME Inv, NEW t \in Turns, NEW a \in Tools, CallTool(t, a)
    PROVE  RecordsStep /\ Inv'
<1>1. /\ Active \in 0..Len(incidents) /\ a \in Actions
      /\ Active # 0 => Active \in DOMAIN incidents /\ Open(incidents[Active])
                       /\ RecordOK(incidents[Active])
  BY Indices, ActiveIncident
<1>2. UNCHANGED <<fixing, checks, poll, server, started>>
  BY DEF CallTool
<1>3. CASE Granted(approval, a, t, Active)
  <2>1. /\ UNCHANGED incidents /\ approval' = NoApproval
        /\ calls' = calls \cup {[action |-> a, incident |-> Active]}
    BY <1>3 DEF CallTool, evaluateToolAccess, Granted
  <2>2. RecordsStep
    BY <2>1 DEF RecordsStep
  <2>3. Active # 0 => a \in incidents[Active].approved
    BY <1>3 DEF Granted, Inv, ApprovalInv
  <2>4. CallsInv'
    <3>1. [action |-> a, incident |-> Active] \in Call
      BY <1>1 DEF Call
    <3>2. QED
      BY <1>1, <2>1, <2>3, <3>1 DEF Inv, CallsInv, CallRefers
  <2>5. ApprovalInv' /\ ChecksInv' /\ PollInv' /\ FlagsInv'
    BY <1>2, <2>1, <2>2, ReferencesKept DEF Inv, ChecksInv, FlagsInv
  <2>6. QED
    BY <2>2, <2>4, <2>5, KeptInv
<1>4. CASE ~Granted(approval, a, t, Active)
  <2> DEFINE i == incidents[Active]
             j == proposeAction(i, approval'.action)
  <2>1. /\ Store(Active, j) /\ UNCHANGED calls
        /\ \/ approval' = approval /\ approval.status = "pending"
           \/ approval' = NewApproval(a, t, Active)
    BY <1>4 DEF CallTool, evaluateToolAccess
  <2>2. approval' \in Approval /\ approval'.action \in Tools
    <3>1. CASE approval' = approval /\ approval.status = "pending"
      BY <3>1, ApprovalType DEF Inv, ApprovalInv
    <3>2. CASE approval' = NewApproval(a, t, Active)
      <4>1. Active \in Nat
        BY <1>1, Indices
      <4>2. QED
        BY <3>2, <4>1, NewApprovalType
    <3>3. QED
      BY <2>1, <3>1, <3>2
  <2>3. Active # 0 => Evolves(i, j) /\ approval'.action \in j.proposed
    BY <1>1, <2>2, Proposed, ResponseAssumption
  <2>4. RecordsStep
    BY <1>1, <2>1, <2>3, Indices, StoreStep
  <2>5. Active # 0 => Len(incidents') = Len(incidents) /\ incidents'[Active] = j
    BY <1>1, <2>1, <2>4, Indices DEF Store
  <2>6. ApprovalInv'
    <3>1. CASE approval' = approval
      BY <2>4, <3>1, ReferencesKept
    <3>2. CASE approval' = NewApproval(a, t, Active)
      <4>1. /\ approval'.status = "pending" /\ approval'.incident = Active
        BY <3>2 DEF NewApproval
      <4>2. Len(incidents') = Len(incidents)
        BY <2>1, <2>5 DEF Store
      <4>3. QED
        BY <1>1, <2>2, <2>3, <2>5, <4>1, <4>2 DEF ApprovalInv
    <3>3. QED
      BY <2>1, <3>1, <3>2
  <2>7. CallsInv' /\ ChecksInv' /\ PollInv' /\ FlagsInv'
    BY <1>2, <2>1, <2>4, ReferencesKept DEF Inv, CallsInv, ChecksInv, FlagsInv
  <2>8. QED
    BY <2>4, <2>6, <2>7, KeptInv
<1>5. QED
  BY <1>3, <1>4

LEMMA ApprovalSteps ==
    ASSUME Inv, ApprovalExpires \/ Approve \/ Deny
    PROVE  RecordsStep /\ Inv'
<1>1. /\ Active \in 0..Len(incidents)
      /\ Active # 0 => Active \in DOMAIN incidents /\ Open(incidents[Active])
                       /\ RecordOK(incidents[Active])
  BY Indices, ActiveIncident
<1>2. approval \in Approval /\ (approval.status # "none" => approval.action \in Actions)
  BY ApprovalType, ResponseAssumption DEF Inv, ApprovalInv
<1>3. UNCHANGED <<calls, fixing, checks, poll, server, started>>
  BY DEF ApprovalExpires, Approve, Deny
<1>4. ASSUME RecordsStep PROVE CallsInv' /\ ChecksInv' /\ PollInv' /\ FlagsInv'
  BY <1>3, <1>4, ReferencesKept DEF Inv, CallsInv, ChecksInv, FlagsInv
<1>5. CASE ApprovalExpires
  <2>1. RecordsStep
    BY <1>5 DEF ApprovalExpires, RecordsStep
  <2>2. /\ approval' = [approval EXCEPT !.expired = TRUE] /\ approval.status # "none"
        /\ UNCHANGED incidents
    BY <1>5 DEF ApprovalExpires
  <2>3. ApprovalInv'
    BY <1>2, <2>2, ApprovalType DEF Inv, ApprovalInv
  <2>4. QED
    BY <1>4, <2>1, <2>3, KeptInv
<1>6. CASE Approve
  <2>1. CASE ~Answerable(approval, Active)
    <3>1. UNCHANGED incidents /\ approval' \in {approval, NoApproval}
      BY <1>6, <2>1 DEF Approve, approvePendingApproval
    <3>2. RecordsStep
      BY <3>1 DEF RecordsStep
    <3>3. QED
      BY <1>4, <3>1, <3>2, ReferencesKept, KeptInv
  <2>2. CASE Answerable(approval, Active)
    <3> DEFINE i == incidents[Active]
               j == approveAction(i, approval.action)
    <3>1. /\ Store(Active, j) /\ approval' = [approval EXCEPT !.status = "approved"]
          /\ approval.incident = Active /\ approval.status = "pending" /\ ~approval.expired
      BY <1>6, <2>2 DEF Approve, approvePendingApproval, Answerable
    <3>2. Active # 0 => /\ Evolves(i, j) /\ approval.action \in i.proposed
                        /\ approval.action \in j.approved
                        /\ i.proposed \subseteq j.proposed
      <4>1. Active # 0 => approval.action \in i.proposed
        BY <3>1 DEF Inv, ApprovalInv
      <4>2. QED
        BY <1>1, <1>2, <3>1, <4>1, Approved DEF Evolves, Grows
    <3>3. RecordsStep
      BY <1>1, <3>1, <3>2, Indices, StoreStep
    <3>4. /\ Len(incidents') = Len(incidents)
          /\ Active # 0 => incidents'[Active] = j
      BY <1>1, <3>1, Indices DEF Store
    <3>5. /\ approval' \in Approval /\ approval'.incident = Active
          /\ approval'.action = approval.action
      BY <1>2, <3>1, ApprovalType
    <3>6. ApprovalInv'
      BY <1>1, <3>2, <3>4, <3>5 DEF ApprovalInv
    <3>7. QED
      BY <1>4, <3>3, <3>6, KeptInv
  <2>3. QED
    BY <2>1, <2>2
<1>7. CASE Deny
  <2>1. approval' \in {approval, NoApproval}
    BY <1>7 DEF Deny, denyPendingApproval
  <2>2. RecordsStep
    <3>1. CASE ~Answerable(approval, Active)
      BY <1>7, <3>1 DEF Deny, RecordsStep
    <3>2. CASE Answerable(approval, Active)
      <4>1. Active # 0 =>
              Evolves(incidents[Active], denyAction(incidents[Active], approval.action))
        BY <1>1, Finalized, Unchanged DEF denyAction
      <4>2. QED
        BY <1>1, <1>7, <3>2, <4>1, Indices, StoreStep DEF Deny
    <3>3. QED
      BY <3>1, <3>2
  <2>3. QED
    BY <1>4, <2>1, <2>2, ReferencesKept, KeptInv
<1>8. QED
  BY <1>5, <1>6, <1>7

LEMMA PollSteps ==
    ASSUME Inv, PollTick \/ \E r \in Readings : PollAnswered(r)
    PROVE  RecordsStep /\ Inv'
<1>1. CASE PollTick
  <2> DEFINE n == IF Overdue THEN approval.incident ELSE 0
             j == expireAction(incidents[n], approval.action)
  <2>1. Store(n, j) /\ approval' \in {approval, NoApproval} /\ poll' = Active'
        /\ UNCHANGED <<calls, fixing, checks, server, started>>
    BY <1>1 DEF PollTick
  <2>2. n \in 0..Len(incidents)
    BY DEF Inv, ApprovalInv
  <2>3. n # 0 => Evolves(incidents[n], j)
    BY <2>2, Indices, Finalized, Unchanged DEF expireAction
  <2>4. RecordsStep
    BY <2>1, <2>2, <2>3, Indices, StoreStep
  <2>5. PollInv'
    <3>1. incidents' \in Seq(Records)
      BY <2>4, RecordsKept DEF Inv, RecordsInv
    <3>2. QED
      BY <2>1, <3>1 DEF Active, PollInv
  <2>6. ApprovalInv' /\ CallsInv' /\ ChecksInv' /\ FlagsInv'
    BY <2>1, <2>4, ReferencesKept DEF Inv, CallsInv, ChecksInv, FlagsInv
  <2>7. QED
    BY <2>4, <2>5, <2>6, KeptInv
<1>2. ASSUME NEW r \in Readings, PollAnswered(r) PROVE RecordsStep /\ Inv'
  <2> DEFINE i == incidents[poll]
             trail == IF Active = poll THEN PollTrail(i, r) ELSE <<i>>
  <2>1. \/ /\ StoreAll(poll, trail) /\ poll' = 0
           /\ UNCHANGED <<approval, calls, fixing, checks, server, started>>
        \/ Torn(poll, trail) /\ UNCHANGED started
    BY <1>2 DEF PollAnswered
  <2>2. poll \in DOMAIN incidents /\ poll \in 0..Len(incidents) /\ RecordOK(i)
    BY <1>2, Indices DEF PollAnswered, Inv, PollInv
  <2>3. Len(trail) \in Nat /\ Len(trail) \in 1..Len(trail)
    BY DEF PollTrail
  <2>4. \A k \in 1..Len(trail) : Evolves(i, trail[k])
    <3>1. \A k \in 1..Len(PollTrail(i, r)) : Evolves(i, PollTrail(i, r)[k])
      BY <2>2, PollTrailEvolves
    <3>2. \A k \in 1..Len(<<i>>) : Evolves(i, <<i>>[k])
      BY <2>2, Unchanged
    <3>3. QED
      BY <3>1, <3>2
  <2> HIDE DEF trail
  <2>5. CASE Torn(poll, trail) /\ UNCHANGED started
    <3>1. RecordsStep /\ Die
      BY <2>2, <2>3, <2>4, <2>5, TornStep
    <3>2. QED
      BY <2>5, <3>1, Died DEF Inv, FlagsInv
  <2>6. CASE /\ StoreAll(poll, trail) /\ poll' = 0
             /\ UNCHANGED <<approval, calls, fixing, checks, server, started>>
    <3>1. RecordsStep
      BY <2>2, <2>3, <2>4, <2>6, Indices, StoreStep DEF StoreAll
    <3>2. ApprovalInv' /\ CallsInv' /\ ChecksInv' /\ PollInv' /\ FlagsInv'
      BY <2>6, <3>1, ReferencesKept DEF Inv, CallsInv, ChecksInv, FlagsInv
    <3>3. QED
      BY <3>1, <3>2, KeptInv
  <2>7. QED
    BY <2>1, <2>5, <2>6
<1>3. QED
  BY <1>1, <1>2

LEMMA ProcessSteps ==
    ASSUME Inv, Crash \/ Restart \/ Rehydrate
    PROVE  RecordsStep /\ Inv'
<1>1. UNCHANGED incidents /\ UNCHANGED started
  BY DEF Crash, Restart, Rehydrate
<1>2. RecordsStep
  BY <1>1 DEF RecordsStep
<1>3. CASE Crash
  BY <1>1, <1>2, <1>3, Died DEF Crash, Inv, FlagsInv
<1>4. CASE Restart
  <2>1. /\ UNCHANGED <<approval, calls, fixing, checks, poll>>
        /\ server' = "starting"
    BY <1>4 DEF Restart
  <2>2. ApprovalInv' /\ CallsInv' /\ ChecksInv' /\ PollInv' /\ FlagsInv'
    BY <1>1, <1>2, <2>1, ReferencesKept DEF Inv, CallsInv, ChecksInv, FlagsInv
  <2>3. QED
    BY <1>2, <2>2, KeptInv
<1>5. CASE Rehydrate
  <2>1. /\ UNCHANGED <<approval, calls, fixing, poll>>
        /\ server' = "up"
        /\ \A c \in checks' :
              /\ c \in [incident : DOMAIN incidents, action : Actions, at : {"timer"}]
              /\ Open(incidents[c.incident])
              /\ incidents[c.incident].pending[c.action] = "waiting"
    BY <1>5 DEF Rehydrate
  <2>2. ChecksInv'
    <3>1. \A c \in checks' :
            /\ c \in Check
            /\ c.incident \in DOMAIN incidents
            /\ c.action \in incidents[c.incident].succeeded
      BY <2>1, Indices DEF RecordOK, Check
    <3>2. QED
      BY <1>1, <3>1 DEF ChecksInv, CheckRefers
  <2>3. ApprovalInv' /\ CallsInv' /\ PollInv' /\ FlagsInv'
    BY <1>1, <1>2, <2>1, ReferencesKept DEF Inv, CallsInv, FlagsInv
  <2>4. QED
    BY <1>2, <2>2, <2>3, KeptInv
<1>6. QED
  BY <1>3, <1>4, <1>5

LEMMA InvInit == Init => Inv
<1> SUFFICES ASSUME Init PROVE Inv
  OBVIOUS
<1>1. incidents = <<>> /\ Len(incidents) = 0 /\ DOMAIN incidents = {}
  BY DEF Init
<1>2. RecordsInv
  BY <1>1 DEF RecordsInv
<1>3. ApprovalInv
  BY <1>1 DEF Init, ApprovalInv, NoApproval, Approval
<1>4. CallsInv /\ ChecksInv
  <2>1. calls = {} /\ checks = {}
    BY DEF Init
  <2>2. CallsInv
    BY <2>1, Zenon DEF CallsInv
  <2>3. ChecksInv
    BY <2>1, Zenon DEF ChecksInv
  <2>4. QED
    BY <2>2, <2>3
<1>5. PollInv /\ FlagsInv
  <2>1. poll = 0 /\ fixing = FALSE /\ started = {} /\ server = "up"
    BY DEF Init
  <2>2. PollInv
    BY <1>1, <2>1 DEF PollInv
  <2>3. FlagsInv
    BY <2>1, Zenon DEF FlagsInv
  <2>4. QED
    BY <2>2, <2>3
<1>6. QED
  BY <1>2, <1>3, <1>4, <1>5 DEF Inv

LEMMA NextStep ==
    ASSUME Inv, [Next]_vars
    PROVE  RecordsStep /\ Inv'
<1>1. CASE UNCHANGED vars
  <2>1. RecordsStep
    BY <1>1 DEF vars, RecordsStep
  <2>2. ApprovalInv' /\ CallsInv' /\ ChecksInv' /\ PollInv' /\ FlagsInv'
    BY <1>1, <2>1, ReferencesKept DEF vars, Inv, CallsInv, ChecksInv, FlagsInv
  <2>3. QED
    BY <2>1, <2>2, KeptInv
<1>2. CASE Next
  BY <1>2, BreakStep, FixSteps, CallToolStep, ToolReturnsStep, ApprovalSteps, CheckSteps,
     PollSteps, ProcessSteps DEF Next
<1>3. QED
  BY <1>1, <1>2

LEMMA Invariant == Spec => []Inv
<1>1. Init => Inv
  BY InvInit
<1>2. Inv /\ [Next]_vars => Inv'
  BY NextStep
<1>3. QED
  BY <1>1, <1>2, PTL DEF Spec

-----------------------------------------------------------------------------
(* The histories: what was approved and not used yet, and what was stranded. *)

\* The slot holds an approval only while the operator's last answer is unused.
HistoryInv ==
    /\ credit \in [Question -> Int]
    /\ \A q \in Question : credit[q] >= 0
    /\ \A q \in Question :
          approval.status = "approved" /\ q = AskedBy(approval) => credit[q] >= 1
    /\ stranded \subseteq Nat \X Actions

LEMMA NoCreditType ==
    /\ NoCredit \in [Question -> Int]
    /\ \A q \in Question : NoCredit[q] = 0
BY DEF NoCredit

LEMMA CreditType ==
    ASSUME NEW f \in [Question -> Int], NEW x, NEW v \in Int
    PROVE  /\ [f EXCEPT ![x] = v] \in [Question -> Int]
           /\ \A q \in Question : [f EXCEPT ![x] = v][q] = IF q = x THEN v ELSE f[q]
OBVIOUS

LEMMA DieHistory == Die => HistoryInv'
BY NoCreditType DEF Die, HistoryInv, NoApproval

LEMMA CheckHistory ==
    ASSUME Inv, HistoryInv, NEW c \in checks, CheckDue(c) \/ \E r \in Readings : CheckAnswered(c, r)
    PROVE  HistoryInv'
<1>1. UNCHANGED <<approval, credit>>
  BY DEF CheckDue, CheckAnswered
<1>2. c.incident \in Nat /\ c.action \in Actions
  BY Indices DEF Inv, ChecksInv, Check
<1>3. stranded' \in {stranded, stranded \cup {<<c.incident, c.action>>}}
  BY DEF CheckDue, CheckAnswered
<1>4. QED
  BY <1>1, <1>2, <1>3 DEF HistoryInv

LEMMA CallHistory ==
    ASSUME Inv, HistoryInv, NEW t \in Turns, NEW a \in Tools, CallTool(t, a)
    PROVE  HistoryInv'
<1> DEFINE q == [action |-> a, turn |-> t, incident |-> Active]
<1>1. UNCHANGED stranded
  BY DEF CallTool
<1>2. CASE Granted(approval, a, t, Active)
  <2>1. approval' = NoApproval /\ credit' = [credit EXCEPT ![q] = @ - 1]
    BY <1>2 DEF CallTool, evaluateToolAccess, Granted
  <2>2. approval.status = "approved" /\ q = AskedBy(approval)
    BY <1>2 DEF Granted, AskedBy
  <2> HIDE DEF q
  <2>3. credit' \in [Question -> Int] /\ \A p \in Question : credit'[p] >= 0
    <3>1. CASE q \notin Question
      BY <2>1, <3>1 DEF HistoryInv
    <3>2. CASE q \in Question
      <4>1. credit[q] \in Int /\ credit[q] >= 1
        BY <2>2, <3>2 DEF HistoryInv
      <4>2. credit[q] - 1 \in Int /\ credit[q] - 1 >= 0
        BY <4>1
      <4>3. QED
        BY <2>1, <3>2, <4>2 DEF HistoryInv
    <3>3. QED
      BY <3>1, <3>2
  <2>5. QED
    BY <1>1, <2>1, <2>3 DEF HistoryInv, NoApproval
<1>3. CASE ~Granted(approval, a, t, Active)
  <2>1. /\ credit' = credit
        /\ \/ approval' = approval
           \/ approval' = NewApproval(a, t, Active)
    BY <1>3 DEF CallTool, evaluateToolAccess
  <2>2. QED
    BY <1>1, <2>1 DEF HistoryInv, NewApproval
<1>4. QED
  BY <1>2, <1>3

LEMMA AnswerHistory ==
    ASSUME Inv, HistoryInv, ApprovalExpires \/ Approve \/ Deny \/ PollTick
    PROVE  HistoryInv'
<1>1. UNCHANGED stranded
  BY DEF ApprovalExpires, Approve, Deny, PollTick
<1>2. approval.status # "none" =>
          /\ [approval EXCEPT !.expired = TRUE].status = approval.status
          /\ AskedBy([approval EXCEPT !.expired = TRUE]) = AskedBy(approval)
          /\ AskedBy([approval EXCEPT !.status = "approved"]) = AskedBy(approval)
  <2>1. approval \in Approval
    BY DEF Inv, ApprovalInv
  <2>2. approval.status # "none" =>
          approval \in [status : {"pending", "approved"}, action : Tools, turn : Turns,
                        incident : Nat, expired : BOOLEAN]
    BY <2>1 DEF Approval, NoApproval
  <2>3. QED
    BY <2>2 DEF AskedBy
<1>3. CASE credit' = credit /\ approval' \in {approval, NoApproval}
  BY <1>1, <1>3 DEF HistoryInv, NoApproval
<1>4. CASE ApprovalExpires
  BY <1>1, <1>2, <1>4 DEF ApprovalExpires, HistoryInv
<1>5. CASE Approve /\ Answerable(approval, Active)
  <2>1. /\ approval' = [approval EXCEPT !.status = "approved"]
        /\ approval.status # "none"
        /\ credit' = [NoCredit EXCEPT ![AskedBy(approval)] = 1]
    BY <1>5 DEF Approve, approvePendingApproval, Answerable
  <2>2. AskedBy(approval') = AskedBy(approval)
    BY <1>2, <2>1
  <2> DEFINE asked == AskedBy(approval)
  <2> HIDE DEF asked
  <2>3. credit' \in [Question -> Int] /\ \A q \in Question : credit'[q] >= 0
    <3>1. credit' = [NoCredit EXCEPT ![asked] = 1]
      BY <2>1 DEF asked
    <3>2. /\ credit' \in [Question -> Int]
          /\ \A q \in Question : credit'[q] = IF q = asked THEN 1 ELSE NoCredit[q]
      BY <3>1, NoCreditType, CreditType
    <3>3. QED
      BY <3>2, NoCreditType
  <2>4. \A q \in Question : q = AskedBy(approval') => credit'[q] >= 1
    BY <2>1, <2>2, NoCreditType
  <2>5. QED
    BY <1>1, <2>3, <2>4 DEF HistoryInv
<1>6. CASE Approve /\ ~Answerable(approval, Active)
  BY <1>3, <1>6 DEF Approve, approvePendingApproval
<1>7. CASE Deny \/ PollTick
  BY <1>3, <1>7 DEF Deny, denyPendingApproval, PollTick
<1>8. QED
  BY <1>4, <1>5, <1>6, <1>7

\* The other callbacks neither ask the operator nor answer a check.
LEMMA OtherHistory ==
    ASSUME Inv, HistoryInv,
           \/ \E s \in Scenarios : Break(s)
           \/ Fix \/ FixReturns
           \/ \E c \in calls : ToolReturns(c)
           \/ \E r \in Readings : PollAnswered(r)
           \/ Crash \/ Restart \/ Rehydrate
           \/ UNCHANGED vars
    PROVE  HistoryInv'
<1>1. Die \/ UNCHANGED <<approval, credit, stranded>>
  <2>1. CASE FixReturns
    BY <2>1 DEF FixReturns, Torn
  <2>2. ASSUME NEW c \in calls, ToolReturns(c)
        PROVE  Die \/ UNCHANGED <<approval, credit, stranded>>
    BY <2>2 DEF ToolReturns, Torn
  <2>3. ASSUME NEW r \in Readings, PollAnswered(r)
        PROVE  Die \/ UNCHANGED <<approval, credit, stranded>>
    BY <2>3 DEF PollAnswered, Torn
  <2>4. CASE \/ \E s \in Scenarios : Break(s)
             \/ Fix \/ Crash \/ Restart \/ Rehydrate \/ UNCHANGED vars
    BY <2>4 DEF Break, Fix, Crash, Restart, Rehydrate, vars
  <2>5. QED
    BY <2>1, <2>2, <2>3, <2>4
<1>2. QED
  BY <1>1, DieHistory DEF HistoryInv

LEMMA HistoryInvariant == Spec => []HistoryInv
<1>1. Init => HistoryInv
  BY NoCreditType DEF Init, HistoryInv, NoApproval
<1>2. Inv /\ HistoryInv /\ [Next]_vars => HistoryInv'
  BY CheckHistory, CallHistory, AnswerHistory, OtherHistory DEF Next
<1>3. QED
  BY <1>1, <1>2, Invariant, PTL DEF Spec

-----------------------------------------------------------------------------
(* Theorems                                                                  *)

\* Every variable keeps its type, whatever is lost in a crash.
THEOREM TypeCorrect == Spec => []TypeOK
<1>1. Inv /\ HistoryInv => TypeOK
  BY DEF Inv, HistoryInv, RecordsInv, Records, ApprovalInv, CallsInv, ChecksInv, PollInv,
         FlagsInv, TypeOK
<1>2. QED
  BY <1>1, Invariant, HistoryInvariant, PTL

\* Nothing is ever called recovered that no assertion confirmed, unless it
\* cleared up with no successful fix on record.
THEOREM RecoveryChecked == Spec => []RecoveredIsTruthful
<1>1. Inv => RecoveredIsTruthful
  BY DEF Inv, RecordsInv, RecordOK, RecoveredIsTruthful
<1>2. QED
  BY <1>1, Invariant, PTL

\* Every run of a mutating tool uses up an approval of its own, given for this
\* call, turn and incident, and no fix is on record that its incident did not see
\* approved.
THEOREM ApprovalRespected == Spec => []RunsOnlyApproved
<1>1. Inv /\ HistoryInv => RunsOnlyApproved
  BY DEF Inv, HistoryInv, RecordsInv, RecordOK, CallsInv, CallRefers, RunsOnlyApproved
<1>2. QED
  BY <1>1, Invariant, HistoryInvariant, PTL

-----------------------------------------------------------------------------
(* Assertions.  Every descriptor that waits has its timer or running check,  *)
(* or is stranded.                                                           *)
(* A closed record may be left with stray checks, which find it closed; so   *)
(* what follows is about records that are open.                              *)

DrivenInv ==
    /\ server # "up" => checks = {} /\ stranded = {} /\ calls = {} /\ ~fixing
    /\ \A n, a : <<n, a>> \in stranded =>
          /\ n \in DOMAIN incidents /\ a \in Actions
          /\ Open(incidents[n]) => incidents[n].pending[a] = "waiting"
    /\ \A c \in checks :
          Open(incidents[c.incident]) => <<c.incident, c.action>> \notin stranded
    /\ \A n \in DOMAIN incidents, a \in Actions :
          Open(incidents[n]) => incidents[n].pending[a] # "resolved"
    /\ \A c \in checks :
          Open(incidents[c.incident]) => incidents[c.incident].pending[c.action] = "waiting"
    /\ \A c, d \in checks :
          c.incident = d.incident /\ c.action = d.action /\ Open(incidents[c.incident])
              => c = d
    /\ server = "up" =>
          \A n \in DOMAIN incidents, a \in Actions :
              Open(incidents[n]) /\ incidents[n].pending[a] = "waiting" =>
                  \/ <<n, a>> \in stranded
                  \/ \E c \in checks : c.incident = n /\ c.action = a

\* A record that stays open has the same assertions waiting.
KeepsPending(i, j) == Open(j) => Open(i) /\ j.pending = i.pending

PendingKept ==
    \A n \in DOMAIN incidents' :
        \/ n \in DOMAIN incidents /\ KeepsPending(incidents[n], incidents'[n])
        \/ n \notin DOMAIN incidents /\ \A a \in Actions : incidents'[n].pending[a] = "none"

LEMMA PendingRefl == \A i : KeepsPending(i, i)
BY DEF KeepsPending

LEMMA PendingTrans ==
    ASSUME NEW i, NEW j, NEW k, KeepsPending(i, j), KeepsPending(j, k)
    PROVE  KeepsPending(i, k)
BY DEF KeepsPending

\* Only scheduling makes an assertion wait, and what answers one closes the record.
LEMMA EngineKeepsPending ==
    ASSUME NEW i \in Records, NEW a
    PROVE  /\ KeepsPending(i, proposeAction(i, a))
           /\ KeepsPending(i, approveAction(i, a))
           /\ KeepsPending(i, denyAction(i, a))
           /\ KeepsPending(i, expireAction(i, a))
           /\ KeepsPending(i, recordImpact(i))
           /\ KeepsPending(i, recordRecovery(i))
           /\ \A f \in Finals : ~Open(finalize(i, f))
<1>1. \A f \in Finals : ~Open(finalize(i, f))
  BY DEF finalize, Open, Finals, Records, Incident
<1>2. KeepsPending(i, denyAction(i, a)) /\ KeepsPending(i, expireAction(i, a))
  BY <1>1 DEF denyAction, expireAction, KeepsPending, Finals
<1>3. QED
  BY <1>1, <1>2 DEF KeepsPending, Open, Records, Incident, proposeAction, approveAction,
     recordImpact, recordRecovery

LEMMA ResultKeepsPending ==
    ASSUME NEW i \in Records, NEW a \in Actions, NEW success \in BOOLEAN
    PROVE  /\ recordActionResult(i, a, success) \in Records
           /\ KeepsPending(i, recordActionResult(i, a, success))
<1>1. CASE success
  BY <1>1 DEF KeepsPending, Open, Records, Incident, recordActionResult
<1>2. CASE ~success
  <2> DEFINE j == [i EXCEPT !.succeeded = @ \ {a}]
  <2>1. j \in Records
    BY DEF Records, Incident
  <2>2. recordActionResult(i, a, success) =
          IF Open(i) /\ a \in i.proposed THEN finalize(j, "failed") ELSE i
    BY <1>2 DEF recordActionResult
  <2> HIDE DEF j
  <2>3. finalize(j, "failed") \in Records
    BY <2>1 DEF finalize, Finals, Records, Incident
  <2>4. ~Open(finalize(j, "failed"))
    BY <2>1, EngineKeepsPending DEF Finals
  <2>5. QED
    BY <2>2, <2>3, <2>4 DEF KeepsPending
<1>3. QED
  BY <1>1, <1>2

LEMMA AssertedCloses ==
    ASSUME NEW i \in Records, NEW a \in Actions, NEW passed \in BOOLEAN
    PROVE  ~Open(recordPostActionAssertion(i, a, passed))
<1>1. CASE ~Open(i)
  BY <1>1 DEF recordPostActionAssertion
<1>2. CASE Open(i)
  <2> DEFINE k == [resolvePendingAssertion(i, a) EXCEPT !.asserted = @ \cup {a}]
  <2>1. k \in Records
    BY DEF Records, Incident, resolvePendingAssertion
  <2>2. recordRecovery(k) \in Records
    BY <2>1 DEF recordRecovery, Records, Incident
  <2>3. recordPostActionAssertion(i, a, passed) =
          IF passed THEN finalize(recordRecovery(k), "recovered")
          ELSE finalize(k, "partial_recovery")
    BY <1>2 DEF recordPostActionAssertion
  <2> HIDE DEF k
  <2>4. QED
    BY <2>1, <2>2, <2>3, EngineKeepsPending DEF Finals
<1>3. QED
  BY <1>1, <1>2

\* What a step leaves alone stays driven: no check comes or goes.
LEMMA QuietKeepsDriven ==
    ASSUME Inv, DrivenInv, RecordsStep, PendingKept,
           checks' = checks, stranded' = stranded, server' = server,
           server # "up" => calls' = {} /\ ~fixing'
    PROVE  DrivenInv'
<1>1. /\ DOMAIN incidents \subseteq DOMAIN incidents'
      /\ \A c \in checks : c.incident \in DOMAIN incidents /\ c.action \in Actions
  BY RecordsKept DEF Inv, ChecksInv, CheckRefers, Check
<1>2. \A n \in DOMAIN incidents' :
        Open(incidents'[n]) =>
            \/ n \in DOMAIN incidents /\ Open(incidents[n])
               /\ incidents'[n].pending = incidents[n].pending
            \/ \A a \in Actions : incidents'[n].pending[a] = "none"
  BY DEF PendingKept, KeepsPending
<1>3. \A c \in checks : Open(incidents'[c.incident]) =>
        /\ Open(incidents[c.incident])
        /\ incidents'[c.incident].pending = incidents[c.incident].pending
  BY <1>1 DEF PendingKept, KeepsPending
<1>4. \A n, a : <<n, a>> \in stranded' =>
        /\ n \in DOMAIN incidents' /\ a \in Actions
        /\ Open(incidents'[n]) => incidents'[n].pending[a] = "waiting"
  <2>1. \A n \in DOMAIN incidents : Open(incidents'[n]) =>
          Open(incidents[n]) /\ incidents'[n].pending = incidents[n].pending
    BY <1>1 DEF PendingKept, KeepsPending
  <2>2. QED
    BY <1>1, <2>1 DEF DrivenInv
<1>5. \A c \in checks' :
        Open(incidents'[c.incident]) => <<c.incident, c.action>> \notin stranded'
  BY <1>1, <1>3 DEF DrivenInv
<1>6. server' = "up" =>
        \A n \in DOMAIN incidents', a \in Actions :
            Open(incidents'[n]) /\ incidents'[n].pending[a] = "waiting" =>
                \/ <<n, a>> \in stranded'
                \/ \E c \in checks' : c.incident = n /\ c.action = a
  BY <1>1, <1>2 DEF DrivenInv
<1>7. \A n \in DOMAIN incidents', a \in Actions :
        Open(incidents'[n]) => incidents'[n].pending[a] # "resolved"
  BY <1>2 DEF DrivenInv
<1>8. QED
  BY <1>1, <1>3, <1>4, <1>5, <1>6, <1>7 DEF DrivenInv

\* A process that dies drives nothing, and none of its records waits wrongly.
LEMMA DeadIsDriven ==
    ASSUME Inv, DrivenInv, PendingKept, Die
    PROVE  DrivenInv'
BY DEF DrivenInv, PendingKept, KeepsPending, Die

\* Storing a record with the same assertions waiting.
LEMMA StoreKeepsPending ==
    ASSUME Inv, NEW n \in 0..Len(incidents), NEW j,
           n # 0 => KeepsPending(incidents[n], j), Store(n, j)
    PROVE  PendingKept
<1>1. DOMAIN incidents' = DOMAIN incidents
  BY DEF Store
<1>2. \A m \in DOMAIN incidents' : KeepsPending(incidents[m], incidents'[m])
  BY <1>1, Indices, PendingRefl DEF Store
<1>3. QED
  BY <1>1, <1>2 DEF PendingKept

LEMMA TornKeepsPending ==
    ASSUME Inv, NEW n \in 0..Len(incidents), NEW trail, Torn(n, trail), Len(trail) \in Nat,
           n # 0 => \A k \in 1..(Len(trail) - 1) : KeepsPending(incidents[n], trail[k])
    PROVE  PendingKept /\ Die
<1>1. PICK k \in 1..(Len(trail) - 1) : Store(n, trail[k])
  BY DEF Torn
<1>2. PendingKept
  BY <1>1, StoreKeepsPending
<1>3. QED
  BY <1>2 DEF Torn

\* schedulePendingAssertion and schedule() go together: the descriptor waits and
\* has a timer, or it waited already and has its driver.
LEMMA SchedulingIsDriven ==
    ASSUME Inv, DrivenInv, NEW n \in DOMAIN incidents, NEW a \in Actions, NEW j \in Records,
           KeepsPending(incidents[n], j),
           incidents' = [incidents EXCEPT ![n] = schedulePendingAssertion(j, a)],
           checks' = checks \cup Timer(n, a), stranded' = stranded,
           server = "up", server' = "up"
    PROVE  DrivenInv'
<1> DEFINE i == incidents[n]
           s == schedulePendingAssertion(j, a)
           t == [incident |-> n, action |-> a, at |-> "timer"]
<1>1. /\ DOMAIN incidents' = DOMAIN incidents
      /\ incidents'[n] = s
      /\ \A m \in DOMAIN incidents \ {n} : incidents'[m] = incidents[m]
  BY Indices
<1>2. \A c \in checks : c.incident \in DOMAIN incidents /\ c.action \in Actions
  BY DEF Inv, ChecksInv, CheckRefers, Check
<1>3. /\ Open(s) => Open(j) /\ Open(i) /\ j.pending = i.pending
      /\ Open(s) => s.pending = IF i.pending[a] = "none" THEN [i.pending EXCEPT ![a] = "waiting"]
                                ELSE i.pending
  BY DEF KeepsPending, schedulePendingAssertion, Open, Records, Incident
<1>4. i.pending \in [Actions -> {"none", "waiting", "resolved"}]
  BY Indices DEF RecordOK, Records, Incident
<1>5. CASE ~Open(s)
  <2>1. \A c \in checks' : c \in checks \/ c.incident = n
    BY DEF Timer
  <2>2. QED
    BY <1>1, <1>2, <1>5, <2>1 DEF DrivenInv
<1>6. CASE Open(s) /\ i.pending[a] = "waiting"
  <2>1. checks' = checks
    BY <1>6 DEF Timer
  <2>2. s.pending = i.pending /\ Open(i)
    BY <1>3, <1>6
  <2>3. QED
    BY <1>1, <1>2, <1>6, <2>1, <2>2 DEF DrivenInv
<1>7. CASE Open(s) /\ i.pending[a] # "waiting"
  <2>1. Open(i) /\ i.pending[a] = "none"
    BY <1>3, <1>4, <1>7 DEF DrivenInv
  <2>2. checks' = checks \cup {t}
    BY <1>7 DEF Timer
  <2>3. \A b \in Actions : s.pending[b] = IF b = a THEN "waiting" ELSE i.pending[b]
    BY <1>3, <1>4, <1>7, <2>1
  <2>4. /\ \A c \in checks : c.incident = n => c.action # a
        /\ <<n, a>> \notin stranded
    BY <2>1 DEF DrivenInv
  <2>5. t.incident = n /\ t.action = a
    OBVIOUS
  <2> HIDE DEF s, t, i
  <2>6. \A m \in DOMAIN incidents', b \in Actions :
          Open(incidents'[m]) => incidents'[m].pending[b] # "resolved"
    BY <1>1, <2>1, <2>3 DEF DrivenInv, i
  <2>7. \A c \in checks' :
          Open(incidents'[c.incident]) => incidents'[c.incident].pending[c.action] = "waiting"
    BY <1>1, <1>2, <2>1, <2>2, <2>3, <2>5 DEF DrivenInv, i
  <2>8. \A c, d \in checks' :
          c.incident = d.incident /\ c.action = d.action /\ Open(incidents'[c.incident]) => c = d
    BY <1>1, <1>2, <2>1, <2>2, <2>4, <2>5 DEF DrivenInv, i
  <2>9. \A m \in DOMAIN incidents', b \in Actions :
          Open(incidents'[m]) /\ incidents'[m].pending[b] = "waiting" =>
              \/ <<m, b>> \in stranded
              \/ \E c \in checks' : c.incident = m /\ c.action = b
    BY <1>1, <2>1, <2>2, <2>3, <2>5 DEF DrivenInv, i
  <2>10. \A m, b : <<m, b>> \in stranded =>
          /\ m \in DOMAIN incidents' /\ b \in Actions
          /\ Open(incidents'[m]) => incidents'[m].pending[b] = "waiting"
    BY <1>1, <2>1, <2>3 DEF DrivenInv, i
  <2>11. \A c \in checks' :
          Open(incidents'[c.incident]) => <<c.incident, c.action>> \notin stranded
    BY <1>1, <1>2, <2>1, <2>2, <2>4, <2>5 DEF DrivenInv, i
  <2>12. QED
    BY <2>6, <2>7, <2>8, <2>9, <2>10, <2>11 DEF DrivenInv
<1>8. QED
  BY <1>5, <1>6, <1>7

\* A check goes on, or has closed its record.
LEMMA CheckingIsDriven ==
    ASSUME Inv, DrivenInv, NEW c \in checks, CheckDue(c) \/ \E r \in Readings : CheckAnswered(c, r)
    PROVE  DrivenInv'
<1> DEFINE n == c.incident
<1>1. /\ n \in DOMAIN incidents /\ c.action \in Actions /\ incidents[n] \in Records /\ n # 0
      /\ \A d \in checks : d \in Check /\ d.incident \in DOMAIN incidents
  BY Indices DEF Inv, ChecksInv, CheckRefers, Check, RecordOK
<1>2. server = "up" /\ server' = "up"
  BY DEF DrivenInv, CheckDue, CheckAnswered
<1>3. ASSUME NEW at \in {"timer", "asking"}, UNCHANGED <<incidents, stranded>>,
             checks' = (checks \ {c}) \cup {[c EXCEPT !.at = at]}
      PROVE  DrivenInv'
  <2> DEFINE e == [c EXCEPT !.at = at]
  <2>1. e.incident = n /\ e.action = c.action
    BY <1>1 DEF Check
  <2> HIDE DEF e
  <2>2. checks' = (checks \ {c}) \cup {e}
    BY <1>3 DEF e
  <2>3. QED
    BY <1>2, <1>3, <2>1, <2>2 DEF DrivenInv
<1>4. ASSUME NEW j, ~Open(j), Store(n, j), checks' = checks \ {c}, UNCHANGED stranded
      PROVE  DrivenInv'
  <2>1. /\ DOMAIN incidents' = DOMAIN incidents
        /\ incidents'[n] = j
        /\ \A m \in DOMAIN incidents \ {n} : incidents'[m] = incidents[m]
    BY <1>1, <1>4, Indices DEF Store
  <2>2. QED
    BY <1>1, <1>2, <1>4, <2>1 DEF DrivenInv
<1>5. CASE CheckDue(c)
  <2>1. ~Open(incidents[n]) => ~Open(resolvePendingAssertion(incidents[n], c.action))
    BY <1>1 DEF resolvePendingAssertion, Open, Records, Incident
  <2>2. QED
    BY <1>3, <1>4, <1>5, <2>1 DEF CheckDue
<1>6. ASSUME NEW r \in Readings, CheckAnswered(c, r) PROVE DrivenInv'
  <2>1. ~Open(recordPostActionAssertion(incidents[n], c.action, r = "inactive"))
    BY <1>1, AssertedCloses
  <2>2. CASE r # "unreadable"
    BY <1>3, <1>4, <1>6, <2>1, <2>2 DEF CheckAnswered
  <2>3. CASE r = "unreadable"
    <3>1. /\ checks' = checks \ {c} /\ UNCHANGED incidents
          /\ stranded' = stranded \cup {<<n, c.action>>}
      BY <1>6, <2>3 DEF CheckAnswered
    <3>2. \A d \in checks \ {c} :
            Open(incidents[d.incident]) => d.incident # n \/ d.action # c.action
      BY DEF DrivenInv
    <3>3. \A d \in checks' :
            Open(incidents[d.incident]) => <<d.incident, d.action>> \notin stranded'
      BY <3>1, <3>2 DEF DrivenInv
    <3>4. \A m, a : <<m, a>> \in stranded' =>
            /\ m \in DOMAIN incidents /\ a \in Actions
            /\ Open(incidents[m]) => incidents[m].pending[a] = "waiting"
      BY <1>1, <3>1 DEF DrivenInv
    <3>5. QED
      BY <1>1, <1>2, <3>1, <3>3, <3>4 DEF DrivenInv
  <2>4. QED
    BY <2>2, <2>3
<1>7. QED
  BY <1>5, <1>6

LEMMA FixTrailPending ==
    ASSUME NEW i, RecordOK(i), NEW a \in Actions, NEW success \in BOOLEAN
    PROVE  LET trail == FixTrail(i, a, success)
           IN  /\ Len(trail) \in Nat
               /\ \A k \in 1..(Len(trail) - 1) : KeepsPending(i, trail[k])
               /\ ~success => KeepsPending(i, trail[Len(trail)])
               /\ success => \E j \in Records :
                    KeepsPending(i, j) /\ trail[Len(trail)] = schedulePendingAssertion(j, a)
<1> DEFINE proposed == proposeAction(i, a)
           approved == approveAction(proposed, a)
           executed == recordActionResult(approved, a, success)
           scheduled == schedulePendingAssertion(executed, a)
<1>1. i \in Records
  BY DEF RecordOK
<1>2. proposed \in Records /\ KeepsPending(i, proposed)
  BY <1>1, EngineKeepsPending DEF proposeAction, Records, Incident
<1>3. approved \in Records /\ KeepsPending(proposed, approved)
  BY <1>2, EngineKeepsPending DEF approveAction, Records, Incident
<1>4. KeepsPending(approved, executed)
  BY <1>3, ResultKeepsPending
<1>5. executed \in Records
  BY <1>3, ResultKeepsPending
<1>6. KeepsPending(i, approved) /\ KeepsPending(i, executed)
  BY <1>2, <1>3, <1>4, PendingTrans
<1>7. FixTrail(i, a, success) =
        IF success THEN <<proposed, approved, executed, scheduled>>
        ELSE <<proposed, approved, executed>>
  BY DEF FixTrail
<1> HIDE DEF proposed, approved, executed
<1>8. QED
  BY <1>2, <1>5, <1>6, <1>7

LEMMA ToolTrailPending ==
    ASSUME NEW i, RecordOK(i), NEW a \in Actions, NEW success \in BOOLEAN
    PROVE  LET trail == ToolTrail(i, a, success)
           IN  /\ Len(trail) \in Nat
               /\ \A k \in 1..(Len(trail) - 1) : KeepsPending(i, trail[k])
               /\ ~success => KeepsPending(i, trail[Len(trail)])
               /\ success => \E j \in Records :
                    KeepsPending(i, j) /\ trail[Len(trail)] = schedulePendingAssertion(j, a)
<1> DEFINE executed == recordActionResult(i, a, success)
           scheduled == schedulePendingAssertion(executed, a)
<1>1. executed \in Records /\ KeepsPending(i, executed)
  BY ResultKeepsPending DEF RecordOK
<1>2. ToolTrail(i, a, success) = IF success THEN <<executed, scheduled>> ELSE <<executed>>
  BY DEF ToolTrail
<1> HIDE DEF executed
<1>3. QED
  BY <1>1, <1>2

LEMMA PollTrailPending ==
    ASSUME NEW i, RecordOK(i), NEW reading
    PROVE  /\ Len(PollTrail(i, reading)) \in Nat
           /\ Len(PollTrail(i, reading)) \in 1..Len(PollTrail(i, reading))
           /\ \A k \in 1..Len(PollTrail(i, reading)) : KeepsPending(i, PollTrail(i, reading)[k])
<1>1. i \in Records /\ recordRecovery(i) \in Records
  BY DEF RecordOK, recordRecovery, Records, Incident
<1>2. /\ KeepsPending(i, recordImpact(i)) /\ KeepsPending(i, recordRecovery(i))
      /\ KeepsPending(i, i)
      /\ KeepsPending(i, finalize(recordRecovery(i), "recovered"))
  <2>1. ~Open(finalize(recordRecovery(i), "recovered"))
    BY <1>1, EngineKeepsPending DEF Finals
  <2>2. QED
    BY <1>1, <2>1, EngineKeepsPending DEF KeepsPending
<1>3. \/ PollTrail(i, reading) = <<recordImpact(i)>>
      \/ PollTrail(i, reading) = <<recordRecovery(i), finalize(recordRecovery(i), "recovered")>>
      \/ PollTrail(i, reading) = <<i>>
  BY DEF PollTrail
<1>4. QED
  BY <1>2, <1>3

\* The end of a trail that a fix or a tool leaves: quiet, scheduled or torn.
LEMMA TrailIsDriven ==
    ASSUME Inv, DrivenInv, RecordsStep, NEW n \in DOMAIN incidents, NEW a \in Actions,
           NEW success \in BOOLEAN, NEW trail,
           Len(trail) \in Nat,
           \A k \in 1..(Len(trail) - 1) : KeepsPending(incidents[n], trail[k]),
           ~success => KeepsPending(incidents[n], trail[Len(trail)]),
           success => \E j \in Records :
               /\ KeepsPending(incidents[n], j)
               /\ trail[Len(trail)] = schedulePendingAssertion(j, a),
           \/ /\ StoreAll(n, trail)
              /\ checks' = checks \cup (IF success THEN Timer(n, a) ELSE {})
              /\ stranded' = stranded
              /\ server = "up" /\ server' = "up"
           \/ Torn(n, trail)
    PROVE  DrivenInv'
<1>1. n # 0 /\ n \in 0..Len(incidents)
  BY Indices
<1>2. CASE Torn(n, trail)
  BY <1>1, <1>2, TornKeepsPending, DeadIsDriven
<1>3. CASE /\ StoreAll(n, trail)
           /\ checks' = checks \cup (IF success THEN Timer(n, a) ELSE {})
           /\ stranded' = stranded
           /\ server = "up" /\ server' = "up"
  <2>1. CASE ~success
    <3>1. PendingKept
      BY <1>1, <1>3, <2>1, StoreKeepsPending DEF StoreAll
    <3>2. QED
      BY <1>3, <2>1, <3>1, QuietKeepsDriven
  <2>2. CASE success
    <3>1. PICK j \in Records :
            /\ KeepsPending(incidents[n], j)
            /\ trail[Len(trail)] = schedulePendingAssertion(j, a)
      BY <2>2
    <3>2. incidents' = [incidents EXCEPT ![n] = schedulePendingAssertion(j, a)]
      BY <1>1, <1>3, <3>1 DEF StoreAll, Store
    <3>3. QED
      BY <1>3, <2>2, <3>1, <3>2, SchedulingIsDriven
  <2>3. QED
    BY <2>1, <2>2
<1>4. QED
  BY <1>2, <1>3

LEMMA FixIsDriven ==
    ASSUME Inv, DrivenInv, RecordsStep, Fix \/ FixReturns
    PROVE  DrivenInv'
<1>1. UNCHANGED incidents => PendingKept
  BY PendingRefl DEF PendingKept
<1>2. CASE Fix
  BY <1>1, <1>2, QuietKeepsDriven DEF Fix
<1>3. CASE FixReturns
  <2>1. fixing /\ server = "up"
    BY <1>3 DEF FixReturns, DrivenInv
  <2>2. CASE Active = 0
    BY <1>1, <1>3, <2>1, <2>2, QuietKeepsDriven DEF FixReturns
  <2>3. CASE Active # 0
    <3>1. PICK success \in BOOLEAN, a \in Direct :
            \/ /\ StoreAll(Active, FixTrail(incidents[Active], a, success))
               /\ checks' = checks \cup (IF success THEN Timer(Active, a) ELSE {})
               /\ stranded' = stranded /\ server' = server
            \/ Torn(Active, FixTrail(incidents[Active], a, success))
      BY <1>3, <2>3 DEF FixReturns
    <3>2. Active \in DOMAIN incidents /\ RecordOK(incidents[Active]) /\ a \in Actions
      BY <2>3, Indices, ActiveIncident
    <3>3. QED
      BY <2>1, <3>1, <3>2, FixTrailPending, TrailIsDriven
  <2>4. QED
    BY <2>2, <2>3
<1>4. QED
  BY <1>2, <1>3

LEMMA ToolReturnIsDriven ==
    ASSUME Inv, DrivenInv, RecordsStep, NEW c \in calls, ToolReturns(c)
    PROVE  DrivenInv'
<1>1. server = "up"
  BY DEF DrivenInv
<1>2. CASE c.incident = 0
  <2>1. UNCHANGED <<incidents, checks, stranded, server>>
    BY <1>2 DEF ToolReturns
  <2>2. PendingKept
    BY <2>1, PendingRefl DEF PendingKept
  <2>3. QED
    BY <1>1, <2>1, <2>2, QuietKeepsDriven
<1>3. CASE c.incident # 0
  <2>1. PICK success \in BOOLEAN :
          \/ /\ StoreAll(c.incident, ToolTrail(incidents[c.incident], c.action, success))
             /\ checks' = checks \cup (IF success THEN Timer(c.incident, c.action) ELSE {})
             /\ stranded' = stranded /\ server' = server
          \/ Torn(c.incident, ToolTrail(incidents[c.incident], c.action, success))
    BY <1>3 DEF ToolReturns
  <2>2. c.incident \in DOMAIN incidents /\ RecordOK(incidents[c.incident]) /\ c.action \in Actions
    BY <1>3, Indices DEF Inv, CallsInv, CallRefers, Call
  <2>3. QED
    BY <1>1, <2>1, <2>2, ToolTrailPending, TrailIsDriven
<1>4. QED
  BY <1>2, <1>3

\* The poll, the approval routes and the agent's questions schedule nothing.
LEMMA QuietSteps ==
    ASSUME Inv, DrivenInv, RecordsStep,
           \/ \E s \in Scenarios : Break(s)
           \/ \E t \in Turns, a \in Tools : CallTool(t, a)
           \/ ApprovalExpires \/ Approve \/ Deny \/ PollTick
           \/ \E r \in Readings : PollAnswered(r)
    PROVE  DrivenInv'
<1>1. UNCHANGED incidents => PendingKept
  BY PendingRefl DEF PendingKept
<1>2. /\ Active \in 0..Len(incidents)
      /\ Active # 0 => Active \in DOMAIN incidents /\ incidents[Active] \in Records
  BY Indices, ActiveIncident DEF RecordOK
<1>3. ASSUME NEW s \in Scenarios, Break(s) PROVE DrivenInv'
  <2>1. PendingKept
    <3>1. CASE UNCHANGED incidents
      BY <1>1, <3>1
    <3>2. CASE incidents' = Append(incidents, Fresh(s))
      <4>1. /\ DOMAIN incidents' = DOMAIN incidents \cup {Len(incidents) + 1}
            /\ incidents'[Len(incidents) + 1] = Fresh(s)
            /\ \A n \in DOMAIN incidents : incidents'[n] = incidents[n]
        <5>1. Fresh(s) \in Records
          BY FreshOK DEF RecordOK
        <5>2. QED
          BY <3>2, <5>1, Indices
      <4>2. \A a \in Actions : Fresh(s).pending[a] = "none"
        BY DEF Fresh
      <4>3. QED
        BY <4>1, <4>2, PendingRefl, Indices DEF PendingKept
    <3>3. QED
      BY <1>3, <3>1, <3>2 DEF Break
  <2>2. QED
    BY <1>3, <2>1, QuietKeepsDriven DEF Break
<1>4. ASSUME NEW t \in Turns, NEW a \in Tools, CallTool(t, a) PROVE DrivenInv'
  <2>1. PendingKept
    BY <1>1, <1>2, <1>4, EngineKeepsPending, StoreKeepsPending DEF CallTool
  <2>2. QED
    BY <1>4, <2>1, QuietKeepsDriven DEF CallTool
<1>5. CASE ApprovalExpires
  BY <1>1, <1>5, QuietKeepsDriven DEF ApprovalExpires, DrivenInv
<1>6. CASE Approve
  <2>1. PendingKept
    BY <1>1, <1>2, <1>6, EngineKeepsPending, StoreKeepsPending DEF Approve
  <2>2. QED
    BY <1>6, <2>1, QuietKeepsDriven DEF Approve
<1>7. CASE Deny
  <2>1. PendingKept
    BY <1>1, <1>2, <1>7, EngineKeepsPending, StoreKeepsPending DEF Deny
  <2>2. QED
    BY <1>7, <2>1, QuietKeepsDriven DEF Deny
<1>8. CASE PollTick
  <2> DEFINE n == IF Overdue THEN approval.incident ELSE 0
  <2>1. n \in 0..Len(incidents) /\ (n # 0 => incidents[n] \in Records)
    BY Indices DEF Inv, ApprovalInv, RecordOK
  <2>2. Store(n, expireAction(incidents[n], approval.action))
    BY <1>8 DEF PollTick
  <2>3. PendingKept
    BY <2>1, <2>2, EngineKeepsPending, StoreKeepsPending
  <2>4. QED
    BY <1>8, <2>3, QuietKeepsDriven DEF PollTick, DrivenInv
<1>9. ASSUME NEW r \in Readings, PollAnswered(r) PROVE DrivenInv'
  <2> DEFINE i == incidents[poll]
             trail == IF Active = poll THEN PollTrail(i, r) ELSE <<i>>
  <2>1. \/ StoreAll(poll, trail) /\ UNCHANGED <<calls, fixing, checks, stranded, server>>
        \/ Torn(poll, trail)
    BY <1>9 DEF PollAnswered
  <2>2. poll \in 0..Len(incidents) /\ poll # 0 /\ RecordOK(i)
    BY <1>9, Indices DEF PollAnswered, Inv, PollInv
  <2>3. /\ Len(trail) \in Nat /\ Len(trail) \in 1..Len(trail)
        /\ \A k \in 1..Len(trail) : KeepsPending(i, trail[k])
    <3>1. Len(<<i>>) = 1 /\ \A k \in 1..1 : KeepsPending(i, <<i>>[k])
      BY PendingRefl
    <3>2. QED
      BY <2>2, <3>1, PollTrailPending
  <2> HIDE DEF trail
  <2>4. CASE Torn(poll, trail)
    BY <2>2, <2>3, <2>4, TornKeepsPending, DeadIsDriven
  <2>5. CASE StoreAll(poll, trail) /\ UNCHANGED <<calls, fixing, checks, stranded, server>>
    <3>1. PendingKept
      BY <2>2, <2>3, <2>5, StoreKeepsPending DEF StoreAll
    <3>2. QED
      BY <2>5, <3>1, QuietKeepsDriven DEF DrivenInv
  <2>6. QED
    BY <2>1, <2>4, <2>5
<1>10. QED
  BY <1>3, <1>4, <1>5, <1>6, <1>7, <1>8, <1>9

\* A start takes up what waits on file.
LEMMA ProcessIsDriven ==
    ASSUME Inv, DrivenInv, Crash \/ Restart \/ Rehydrate
    PROVE  DrivenInv'
<1>1. UNCHANGED incidents
  BY DEF Crash, Restart, Rehydrate
<1>2. PendingKept
  BY <1>1, PendingRefl DEF PendingKept
<1>3. CASE Crash
  BY <1>2, <1>3, DeadIsDriven DEF Crash
<1>4. CASE Restart
  BY <1>1, <1>4 DEF Restart, DrivenInv
<1>5. CASE Rehydrate
  <2> DEFINE Waiting == {c \in [incident : DOMAIN incidents, action : Actions, at : {"timer"}] :
                           /\ Open(incidents[c.incident])
                           /\ incidents[c.incident].pending[c.action] = "waiting"}
  <2>1. checks' = Waiting /\ server' = "up"
    BY <1>5 DEF Rehydrate
  <2>2. \A c \in Waiting : incidents[c.incident].pending[c.action] = "waiting"
    OBVIOUS
  <2>3. \A c, d \in Waiting : c.incident = d.incident /\ c.action = d.action => c = d
    OBVIOUS
  <2>4. ASSUME NEW n \in DOMAIN incidents, NEW a \in Actions,
               Open(incidents[n]), incidents[n].pending[a] = "waiting"
        PROVE  \E c \in Waiting : c.incident = n /\ c.action = a
    <3> DEFINE c == [incident |-> n, action |-> a, at |-> "timer"]
    <3>1. c \in Waiting
      BY <2>4
    <3>2. QED
      BY <3>1
  <2>5. stranded' = {}
    BY <1>5 DEF Rehydrate, DrivenInv
  <2> HIDE DEF Waiting
  <2>6. /\ \A n \in DOMAIN incidents', a \in Actions :
              Open(incidents'[n]) => incidents'[n].pending[a] # "resolved"
        /\ \A c \in checks' : incidents'[c.incident].pending[c.action] = "waiting"
        /\ \A c, d \in checks' : c.incident = d.incident /\ c.action = d.action => c = d
        /\ \A n \in DOMAIN incidents', a \in Actions :
              Open(incidents'[n]) /\ incidents'[n].pending[a] = "waiting" =>
                  \E c \in checks' : c.incident = n /\ c.action = a
    BY <1>1, <2>1, <2>2, <2>3, <2>4 DEF DrivenInv
  <2>7. QED
    BY <2>1, <2>5, <2>6 DEF DrivenInv
<1>6. QED
  BY <1>3, <1>4, <1>5

LEMMA DrivenStep == Inv /\ DrivenInv /\ [Next]_vars => DrivenInv'
<1> SUFFICES ASSUME Inv, DrivenInv, [Next]_vars PROVE DrivenInv'
  OBVIOUS
<1>1. RecordsStep
  BY NextStep
<1>2. CASE UNCHANGED vars
  BY <1>2 DEF vars, DrivenInv
<1>3. CASE Next
  BY <1>1, <1>3, FixIsDriven, ToolReturnIsDriven, CheckingIsDriven, QuietSteps, ProcessIsDriven
     DEF Next
<1>4. QED
  BY <1>2, <1>3

LEMMA DrivenInit == Init => DrivenInv
<1> SUFFICES ASSUME Init PROVE DrivenInv
  OBVIOUS
<1>1. /\ incidents = <<>> /\ DOMAIN incidents = {} /\ checks = {} /\ stranded = {}
      /\ server = "up"
  BY DEF Init
<1>2. QED
  BY <1>1 DEF DrivenInv

\* Each assertion that waits in an open incident is driven by exactly one timer
\* or running check, across crashes, retries and repeated calls, until its check
\* throws; then by none, until a restart takes it up.
THEOREM AssertionsAreDriven == Spec => []AssertionsDriven
<1>1. Inv /\ DrivenInv => AssertionsDriven
  <2> SUFFICES ASSUME Inv, DrivenInv, server = "up",
                      NEW n \in DOMAIN incidents, NEW a \in Actions,
                      Open(incidents[n]), Waits(n, a)
               PROVE  Cardinality({c \in checks : c.incident = n /\ c.action = a})
                          = IF <<n, a>> \in stranded THEN 0 ELSE 1
    BY DEF AssertionsDriven
  <2>1. CASE <<n, a>> \in stranded
    <3>1. {d \in checks : d.incident = n /\ d.action = a} = {}
      BY <2>1 DEF DrivenInv
    <3>2. QED
      BY <2>1, <3>1, FS_EmptySet
  <2>2. CASE <<n, a>> \notin stranded
    <3>1. PICK c \in checks : c.incident = n /\ c.action = a
      BY <2>2 DEF DrivenInv, Waits
    <3>2. {d \in checks : d.incident = n /\ d.action = a} = {c}
      BY <3>1 DEF DrivenInv
    <3>3. QED
      BY <2>2, <3>2, FS_Singleton
  <2>3. QED
    BY <2>1, <2>2
<1>2. QED
  BY <1>1, Invariant, DrivenInit, DrivenStep, PTL DEF Spec

-----------------------------------------------------------------------------
(* Refinement: whatever a callback does, and wherever it dies, is at most one*)
(* step of the promise.                                                      *)

outcomeBar == [n \in DOMAIN incidents |-> incidents[n].final]
actedBar == {n \in DOMAIN incidents : incidents[n].succeeded # {}}
verifiedBar == {n \in DOMAIN incidents : incidents[n].asserted # {}}

LEMMA ActivatedIsBegin ==
    ASSUME Inv, Activated
    PROVE  Outcome!Begin
<1>1. PICK s \in Scenarios : incidents' = Append(incidents, Fresh(s))
  BY DEF Activated
<1>2. Fresh(s) \in Records
  BY FreshOK DEF RecordOK
<1>3. /\ Len(incidents') = Len(incidents) + 1
      /\ DOMAIN incidents' = 1..(Len(incidents) + 1)
      /\ DOMAIN incidents = 1..Len(incidents) /\ Len(incidents) \in Nat
      /\ \A n \in 1..Len(incidents) : incidents'[n] = incidents[n]
      /\ incidents'[Len(incidents) + 1] = Fresh(s)
  BY <1>1, <1>2, Indices
<1>4. /\ Fresh(s).final = "open" /\ Fresh(s).succeeded = {} /\ Fresh(s).asserted = {}
  BY DEF Fresh
<1>5. \A n \in DOMAIN incidents : incidents[n].final # "open"
  BY ActiveIncident, Indices DEF Activated, Inv, RecordsInv, Open
<1>6. outcomeBar' = Append(outcomeBar, "open")
  <2> DEFINE Outcomes == {"open"} \cup Finals
  <2>1. outcomeBar \in Seq(Outcomes) /\ Len(outcomeBar) = Len(incidents)
    <3>1. \A n \in DOMAIN incidents : incidents[n].final \in Outcomes
      BY Indices DEF RecordOK, Records, Incident
    <3> HIDE DEF Outcomes
    <3>2. outcomeBar \in [1..Len(incidents) -> Outcomes]
      BY <1>3, <3>1 DEF outcomeBar
    <3>3. outcomeBar \in Seq(Outcomes)
      BY <1>3, <3>2, SeqDef
    <3>4. QED
      BY <1>3, <3>2, <3>3, LenProperties
  <2>2. "open" \in Outcomes
    OBVIOUS
  <2> HIDE DEF Outcomes
  <2> DEFINE appended == Append(outcomeBar, "open")
  <2>3. /\ appended \in Seq(Outcomes) /\ Len(appended) = Len(incidents) + 1
        /\ \A n \in 1..Len(incidents) : appended[n] = outcomeBar[n]
        /\ appended[Len(incidents) + 1] = "open"
    BY <2>1, <2>2, AppendProperties
  <2>4. appended \in [1..(Len(incidents) + 1) -> Outcomes]
    BY <2>3, LenProperties
  <2> HIDE DEF appended
  <2>5. appended = [n \in 1..(Len(incidents) + 1) |-> incidents'[n].final]
    BY <1>3, <1>4, <2>3, <2>4 DEF outcomeBar
  <2>6. QED
    BY <1>3, <2>5 DEF outcomeBar, appended
<1>7. actedBar' = actedBar /\ verifiedBar' = verifiedBar
  BY <1>3, <1>4 DEF actedBar, verifiedBar
<1>8. \A n \in DOMAIN outcomeBar : ~(n \in DOMAIN outcomeBar /\ outcomeBar[n] = "open")
  BY <1>5 DEF outcomeBar
<1>9. QED
  BY <1>6, <1>7, <1>8 DEF Outcome!Begin, Outcome!IsOpen, outcomeBar, actedBar, verifiedBar

LEMMA UpdatedIsStep ==
    ASSUME Inv, NEW n \in DOMAIN incidents, Updated(n)
    PROVE  Outcome!Next \/ UNCHANGED Outcome!vars
<1> DEFINE i == incidents[n]
<1>1. PICK j : Evolves(i, j) /\ incidents' = [incidents EXCEPT ![n] = j]
  BY DEF Updated
<1>2. /\ DOMAIN incidents' = DOMAIN incidents
      /\ \A m \in DOMAIN incidents : incidents'[m] = IF m = n THEN j ELSE incidents[m]
  BY <1>1, Indices DEF Evolves, RecordOK
<1>3. /\ outcomeBar' = [outcomeBar EXCEPT ![n] = j.final]
      /\ actedBar' = IF j.succeeded # {} THEN actedBar \cup {n} ELSE actedBar \ {n}
      /\ verifiedBar' = IF j.asserted # {} THEN verifiedBar \cup {n} ELSE verifiedBar \ {n}
  BY <1>2 DEF outcomeBar, actedBar, verifiedBar
<1>4. /\ n \in DOMAIN outcomeBar /\ outcomeBar[n] = i.final
      /\ n \in actedBar <=> i.succeeded # {}
      /\ n \in verifiedBar <=> i.asserted # {}
  BY DEF outcomeBar, actedBar, verifiedBar
<1>5. /\ Grows(i, j) /\ Verdict(i, j) /\ RecordOK(i)
      /\ Open(i) /\ j.final = i.final => i.succeeded \subseteq j.succeeded
  BY <1>1, Indices DEF Evolves, Grows, Open
<1> HIDE DEF i
<1> DEFINE bars == <<outcomeBar, actedBar, verifiedBar>>
<1>bars. ASSUME UNCHANGED bars PROVE UNCHANGED Outcome!vars
  BY <1>bars DEF Outcome!vars, outcomeBar, actedBar, verifiedBar
<1>6. CASE /\ j.final = i.final /\ j.asserted = i.asserted
           /\ Open(i) \/ j.succeeded = i.succeeded
  <2>1. outcomeBar' = outcomeBar /\ verifiedBar' = verifiedBar
    <3>1. outcomeBar = [m \in DOMAIN outcomeBar |-> outcomeBar[m]]
      BY DEF outcomeBar
    <3>2. QED
      BY <1>3, <1>4, <1>6, <3>1
  <2>2. CASE j.succeeded = {} <=> i.succeeded = {}
    <3>1. actedBar' = actedBar
      BY <1>3, <1>4, <2>2
    <3>2. QED
      BY <1>bars, <2>1, <3>1
  <2>3. CASE ~(j.succeeded = {} <=> i.succeeded = {})
    <3>1. actedBar' = actedBar \cup {n} /\ Open(i)
      BY <1>3, <1>5, <1>6, <2>3
    <3>2. Outcome!Act(n)
      BY <1>4, <2>1, <3>1 DEF outcomeBar, actedBar, verifiedBar, Outcome!Act, Outcome!IsOpen, Open
    <3>3. QED
      BY <1>4, <3>2 DEF Outcome!Next, outcomeBar
  <2>4. QED
    BY <2>2, <2>3
<1>7. CASE /\ Open(i) /\ j.succeeded \subseteq i.succeeded
           /\ j.final \in {"failed", "denied", "expired"} /\ j.asserted = i.asserted
  <2>1. actedBar' \in {actedBar, actedBar \ {n}} /\ verifiedBar' = verifiedBar
    BY <1>3, <1>4, <1>7
  <2>2. Outcome!GiveUp(n)
    BY <1>3, <1>4, <1>7, <2>1 DEF outcomeBar, actedBar, verifiedBar, Outcome!GiveUp, Outcome!Close, Outcome!IsOpen, Open
  <2>3. QED
    BY <1>4, <2>2 DEF Outcome!Next, outcomeBar
<1>8. CASE /\ Open(i) /\ j.succeeded = i.succeeded
           /\ i.succeeded # {} /\ j.asserted # {}
           /\ j.final \in {"recovered", "partial_recovery"}
  <2>1. actedBar' = actedBar /\ verifiedBar' = verifiedBar \cup {n} /\ n \in actedBar
    BY <1>3, <1>4, <1>8
  <2>2. Outcome!Verify(n)
    BY <1>3, <1>4, <1>8, <2>1 DEF outcomeBar, actedBar, verifiedBar, Outcome!Verify, Outcome!Close, Outcome!IsOpen, Open
  <2>3. QED
    BY <1>4, <2>2 DEF Outcome!Next, outcomeBar
<1>9. CASE /\ Open(i) /\ j.succeeded = i.succeeded
           /\ i.succeeded = {} /\ j.final = "recovered" /\ j.asserted = i.asserted
  <2>1. actedBar' = actedBar /\ verifiedBar' = verifiedBar /\ n \notin actedBar
    BY <1>3, <1>4, <1>9
  <2>2. Outcome!ClearUp(n)
    BY <1>3, <1>4, <1>9, <2>1 DEF outcomeBar, actedBar, verifiedBar, Outcome!ClearUp, Outcome!Close, Outcome!IsOpen, Open
  <2>3. QED
    BY <1>4, <2>2 DEF Outcome!Next, outcomeBar
<1>10. QED
  BY <1>5, <1>6, <1>7, <1>8, <1>9 DEF Verdict

\* The records, the approval slot, the timers and the polls together implement
\* the promise made to whoever reads an incident: one incident at a time, one
\* verdict each, and no recovery claimed without grounds.
THEOREM OutcomeImplemented == Spec => OutcomeSpec
<1>1. Init => Outcome!Init
  <2> SUFFICES ASSUME Init PROVE Outcome!Init
    OBVIOUS
  <2>1. incidents = <<>> /\ DOMAIN incidents = {}
    BY DEF Init
  <2>2. [n \in DOMAIN incidents |-> incidents[n].final] = <<>>
    BY <2>1
  <2>3. QED
    BY <2>1, <2>2 DEF Outcome!Init
<1>2. Inv /\ [Next]_vars => [Outcome!Next]_(Outcome!vars)
  <2> SUFFICES ASSUME Inv, [Next]_vars PROVE Outcome!Next \/ UNCHANGED Outcome!vars
    OBVIOUS
  <2>1. CASE UNCHANGED incidents
    BY <2>1 DEF Outcome!vars
  <2>2. CASE Activated
    BY <2>2, ActivatedIsBegin DEF Outcome!Next
  <2>3. CASE \E n \in DOMAIN incidents : Updated(n)
    BY <2>3, UpdatedIsStep
  <2>4. QED
    BY <2>1, <2>2, <2>3, NextStep DEF RecordsStep
<1>3. QED
  BY <1>1, <1>2, Invariant, PTL DEF Spec, OutcomeSpec, Outcome!Spec
=============================================================================
