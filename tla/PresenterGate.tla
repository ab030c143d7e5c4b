---------------------------- MODULE PresenterGate ----------------------------
(***************************************************************************)
(* tools/mission-control/presenter-mode.js: when a step of a presenter     *)
(* track may be left, given the presenter's state p and a server proof     *)
(* (presenter-trust.js).                                                   *)
(*                                                                         *)
(* A proof carries whether the baseline was verified and the incident the  *)
(* server looked up.  The incident is a reference into the store, so its   *)
(* milestones are those of the moment the gate is evaluated; here it is    *)
(* the number of a record of incidents.  Of a record the gates read the    *)
(* proposals in their order and, per action, whether it was approved (with *)
(* the approved flag that the approval route sets), refused (denied or     *)
(* expired), carried out, and confirmed by a post-action assertion.        *)
(*                                                                         *)
(* Scenario ids are left out: they follow the incident, whose identity is  *)
(* compared anyway.                                                        *)
(***************************************************************************)
EXTENDS Naturals, Sequences

CONSTANTS
    Track,      \* the gate kinds of a track's steps, in order
    Actions,    \* actionKeys
    Runs,       \* correlation ids of presenter runs
    Nothing     \* null

GateKinds == {"readiness", "baseline", "approval", "remediation", "recovery"}

Steps == 1..Len(Track)

NoStep == 0
NoIncident == 0

OnAction(step) == Track[step] \in {"approval", "remediation", "recovery"}

FirstStep == 1

Presenter ==
    [status : {"none", "idle", "running", "paused", "complete", "aborted"},
     step : Steps \cup {NoStep},            \* currentStepId
     completed : SUBSET Steps,              \* completedSteps
     run : Runs \cup {Nothing},             \* correlationId
     incident : Nat,                        \* incidentCorrelationId
     key : Actions \cup {Nothing},          \* expectedActionKey
     keyRun : Runs \cup {Nothing},          \* expectedActionKeyRunCorrelationId
     keyIncident : Nat,                     \* expectedActionKeyIncidentCorrelationId
     keyStep : Steps \cup {NoStep}]         \* expectedActionKeyStepId

\* trackId is null exactly when the status is "none".
defaultPresenterState ==
    [status |-> "none", step |-> NoStep, completed |-> {},
     run |-> Nothing, incident |-> NoIncident,
     key |-> Nothing, keyRun |-> Nothing, keyIncident |-> NoIncident, keyStep |-> NoStep]

Unbind(p) ==
    [p EXCEPT !.key = Nothing, !.keyRun = Nothing,
              !.keyIncident = NoIncident, !.keyStep = NoStep]

\* Mutant of TrustedIncident: the incident of the proof, whoever it belongs to.
TrustedIncidentAny(p, proof) == proof.incident

\* getIncidentForTrustContext: the proof's incident, unless the run is bound to another.
TrustedIncident(p, proof) ==
    IF p.incident \in {NoIncident, proof.incident} THEN proof.incident ELSE NoIncident

\* The action proposed last in the trusted incident, for a gate on an action.
ExpectedKey(step, p, proof, incidents) ==
    LET i == TrustedIncident(p, proof)
    IN  IF OnAction(step) /\ i # NoIncident /\ incidents[i].proposals # <<>>
        THEN incidents[i].proposals[Len(incidents[i].proposals)]
        ELSE Nothing

\* Mutant of BindingFits: the key may be another one by now.
BindingFitsLoosely(step, p, proof, incidents) ==
    /\ p.keyRun \in {Nothing, p.run} \/ p.run = Nothing
    /\ \/ NoIncident \in {p.keyIncident, TrustedIncident(p, proof)}
       \/ p.keyIncident = TrustedIncident(p, proof)
    /\ p.keyStep \in {NoStep, step}
    /\ p.key # Nothing => ExpectedKey(step, p, proof, incidents) # Nothing

\* The stored binding is of this run, this incident, this step and this action.
BindingFits(step, p, proof, incidents) ==
    /\ p.keyRun \in {Nothing, p.run} \/ p.run = Nothing
    /\ \/ NoIncident \in {p.keyIncident, TrustedIncident(p, proof)}
       \/ p.keyIncident = TrustedIncident(p, proof)
    /\ p.keyStep \in {NoStep, step}
    /\ p.key # Nothing => ExpectedKey(step, p, proof, incidents) = p.key

\* Mutant of Evidence: any recovery of the incident will do.
EvidenceAny(step, key, i, baseline) ==
    CASE Track[step] \in {"readiness", "baseline"} -> baseline
      [] Track[step] = "approval" -> key \in i.approved \ i.refused
      [] Track[step] = "remediation" -> key \in i.succeeded
      [] Track[step] = "recovery" -> i.passed # {}

\* What the milestones of incident i, or the cluster, must show.
Evidence(step, key, i, baseline) ==
    CASE Track[step] \in {"readiness", "baseline"} -> baseline
      [] Track[step] = "approval" -> key \in i.approved \ i.refused
      [] Track[step] = "remediation" -> key \in i.succeeded
      [] Track[step] = "recovery" -> key \in i.passed

resolveTrustedPresenterGate(step, p, proof, incidents) ==
    LET key == ExpectedKey(step, p, proof, incidents)
    IN  /\ BindingFits(step, p, proof, incidents)
        /\ IF OnAction(step)
           THEN key # Nothing
                /\ Evidence(step, key, incidents[TrustedIncident(p, proof)], proof.baseline)
           ELSE proof.baseline

\* p with the action of the trusted incident bound to step, if there is one and
\* it is no other than the one bound before.
bindExpectedActionKey(step, p, proof, incidents) ==
    LET key == ExpectedKey(step, p, proof, incidents)
    IN  IF key = Nothing \/ p.key \notin {Nothing, key}
        THEN p
        ELSE [p EXCEPT !.key = key, !.keyRun = p.run,
                       !.keyIncident = TrustedIncident(p, proof),
                       !.keyStep = step]
=============================================================================
