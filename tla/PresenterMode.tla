---------------------------- MODULE PresenterMode ----------------------------
(***************************************************************************)
(* Mission Control's presenter mode: the state machine of presenter-mode.js*)
(* behind the mutation routes of server.js, the buttons of public/app.js,  *)
(* and the incident records its gates read.                                *)
(*                                                                         *)
(* handlePresenterMutation looks up an incident, awaits a snapshot of the  *)
(* cluster, and only then runs the operation on the state it finds: a      *)
(* request is sent and looked up in one action and performed in a later    *)
(* one, and other requests come in between.  One operation is synchronous. *)
(* A snapshot may find the baseline verified or not.                       *)
(*                                                                         *)
(* The incident store appears by the engine calls the gates depend on (the *)
(* engine has its own model, IncidentTimeline).  An action's key comes from*)
(* its tool and parameters and may return in another incident; the keys of *)
(* recordOperatorDirectAction (Direct) are fresh.                          *)
(***************************************************************************)
EXTENDS PresenterGate, FiniteSets

CONSTANTS
    Direct,         \* keys of operator-direct actions
    Requests,       \* bound: requests under way at a time
    MaxIncidents,   \* bound: incidents opened
    MaxProposals,   \* bound: actions proposed, in all incidents together
    Clients         \* "page": the buttons; "api": a caller that binds the run

\* In both shipped tracks the steps about an action are the last ones.
ASSUME PresenterAssumption ==
    /\ Track \in Seq(GateKinds) /\ Track # <<>>
    /\ \A s \in Steps : OnAction(s) /\ s + 1 \in Steps => OnAction(s + 1)
    /\ Direct \subseteq Actions
    /\ Nothing \notin Actions \cup Runs
    /\ \A held \in [Requests -> Runs \cup {Nothing}] :     \* ids do not run out
          \E r \in Runs : \A q \in Requests : held[q] # r
    /\ MaxIncidents \in Nat
    /\ MaxProposals \in Nat

VARIABLES
    presenter,  \* presenterStateStore
    request,    \* what each request under way asks and has looked up
    incidents,  \* records of the incident store, in order of activation
    proved,     \* history: the incident and action that let a step be completed
    forgotten   \* history: the bound action was given up since the track was started

vars == <<presenter, request, incidents, proved, forgotten>>

Operations == {"start", "continue", "pause", "resume", "abort", "reset"}

Request ==
    [op : Operations,
     run : Runs \cup {Nothing},     \* correlationId of the body
     bind : Nat,                    \* incidentCorrelationId of the body
     incident : Nat]                \* activeIncident of the proof

Incident ==
    [open : BOOLEAN,
     proposals : Seq(Actions),
     approved : SUBSET Actions,
     refused : SUBSET Actions,
     succeeded : SUBSET Actions,
     passed : SUBSET Actions]

Basis == [incident : Nat, key : Actions \cup {Nothing}]

NoBasis == [incident |-> NoIncident, key |-> Nothing]

Init ==
    /\ presenter = defaultPresenterState
    /\ request = [q \in Requests |-> Nothing]
    /\ incidents = <<>>
    /\ proved = [s \in Steps |-> NoBasis]
    /\ forgotten = FALSE

(***************************************************************************)
(* Incidents                                                               *)
(***************************************************************************)
\* The newest incident is the only one that can be open.
getActive ==
    IF incidents # <<>> /\ incidents[Len(incidents)].open THEN Len(incidents) ELSE NoIncident

Proposed(i) == {incidents[i].proposals[n] : n \in 1..Len(incidents[i].proposals)}

Proposals == {p \in (1..Len(incidents)) \X Actions : p[2] \in Proposed(p[1])}

activate ==
    /\ getActive = NoIncident
    /\ Len(incidents) < MaxIncidents
    /\ incidents' = Append(incidents, [open |-> TRUE, proposals |-> <<>>, approved |-> {},
                                       refused |-> {}, succeeded |-> {}, passed |-> {}])

proposeAction(a) ==
    /\ getActive # NoIncident
    /\ a \notin Proposed(getActive)
    /\ Cardinality(Proposals) < MaxProposals
    /\ incidents' = [incidents EXCEPT ![getActive].proposals = Append(@, a)]

approveAction(a) ==
    /\ getActive # NoIncident
    /\ a \in Proposed(getActive)
    /\ incidents' = [incidents EXCEPT ![getActive].approved = @ \cup {a}]

\* An action that was approved once may be asked for again, and denied.
denyAction(a) ==
    /\ getActive # NoIncident
    /\ a \in Proposed(getActive)
    /\ incidents' = [incidents EXCEPT ![getActive].refused = @ \cup {a},
                                      ![getActive].open = FALSE]

expireAction(a) ==
    /\ getActive # NoIncident
    /\ a \in Proposed(getActive) \ incidents[getActive].approved
    /\ incidents' = [incidents EXCEPT ![getActive].refused = @ \cup {a},
                                      ![getActive].open = FALSE]

\* A tool runs once it is approved; a failure closes the incident, and takes the
\* place of an earlier success of the same action.
recordActionResult(a) ==
    /\ getActive # NoIncident
    /\ a \in incidents[getActive].approved
    /\ \/ incidents' = [incidents EXCEPT ![getActive].succeeded = @ \cup {a}]
       \/ incidents' = [incidents EXCEPT ![getActive].succeeded = @ \ {a},
                                         ![getActive].open = FALSE]

\* Proposed and carried out at once, and approved without the approved flag.
recordOperatorDirectAction(a) ==
    /\ getActive # NoIncident
    /\ \A i \in 1..Len(incidents) : a \notin Proposed(i)
    /\ Cardinality(Proposals) < MaxProposals
    /\ \/ incidents' = [incidents EXCEPT ![getActive].proposals = Append(@, a),
                                         ![getActive].succeeded = @ \cup {a}]
       \/ incidents' = [incidents EXCEPT ![getActive].proposals = Append(@, a),
                                         ![getActive].open = FALSE]

recordPostActionAssertion(a) ==
    /\ getActive # NoIncident
    /\ a \in incidents[getActive].succeeded
    /\ \/ incidents' = [incidents EXCEPT ![getActive].passed = @ \cup {a},
                                         ![getActive].open = FALSE]
       \/ incidents' = [incidents EXCEPT ![getActive].open = FALSE]

\* The health poll closes an incident without an action to assert.
pollActiveIncident ==
    /\ getActive # NoIncident
    /\ incidents[getActive].succeeded = {}
    /\ incidents' = [incidents EXCEPT ![getActive].open = FALSE]

IncidentEvent ==
    /\ \/ activate
       \/ \E a \in Actions \ Direct :
             \/ proposeAction(a)
             \/ approveAction(a)
             \/ denyAction(a)
             \/ expireAction(a)
             \/ recordActionResult(a)
       \/ \E a \in Direct : recordOperatorDirectAction(a)
       \/ \E a \in Actions : recordPostActionAssertion(a)
       \/ pollActiveIncident
    /\ UNCHANGED <<presenter, request, proved, forgotten>>

(***************************************************************************)
(* Requests                                                                *)
(***************************************************************************)
\* Mutant of getIncident: only an incident that is still open is found.
getIncidentActive(id) == getActive

\* The incident the presenter is bound to, open or closed, else the active one.
getIncident(id) == IF id # NoIncident THEN id ELSE getActive

\* The buttons that renderPresenterState enables.
Enabled(op) ==
    CASE op = "start" -> presenter.status \in {"none", "idle", "complete", "aborted"}
      [] op \in {"continue", "pause"} -> presenter.status = "running"
      [] op = "resume" -> presenter.status = "paused"
      [] op = "abort" -> presenter.status \notin {"none", "aborted"}
      [] op = "reset" -> presenter.status # "none"

\* The operations that read the proof and the correlation id.
Gated(op) == op \in {"start", "continue"}

\* The page repeats the correlation id it knows; a caller of the API that starts
\* a run may name an incident to bind it to.
Send(q, op, bind) ==
    /\ request[q] = Nothing
    /\ Enabled(op)
    /\ bind # NoIncident => op = "start" /\ "api" \in Clients
    /\ request' = [request EXCEPT ![q] =
           [op |-> op,
            run |-> IF Gated(op) THEN presenter.run ELSE Nothing,
            bind |-> bind,
            incident |-> IF Gated(op)
                         THEN getIncident(IF presenter.incident # NoIncident
                                          THEN presenter.incident ELSE bind)
                         ELSE NoIncident]]
    /\ UNCHANGED <<presenter, incidents, proved, forgotten>>

Proof(q, baseline) == [incident |-> request[q].incident, baseline |-> baseline]

Answer(q) ==
    /\ request' = [request EXCEPT ![q] = Nothing]
    /\ UNCHANGED incidents

Refuse(q) ==
    /\ Answer(q)
    /\ UNCHANGED <<presenter, proved, forgotten>>

Held == {presenter.run} \cup {request[q].run : q \in {r \in Requests : request[r] # Nothing}}

\* generateCorrelationId: an id that nobody holds.
RunOf(q) ==
    IF request[q].run # Nothing THEN request[q].run ELSE CHOOSE r \in Runs : r \notin Held

\* applyTrack, unless a track is running; the first gate is checked, not passed.
handleStart(q, baseline) ==
    LET fresh == [defaultPresenterState EXCEPT !.status = "running", !.step = FirstStep,
                                               !.run = RunOf(q), !.incident = request[q].bind]
        proof == Proof(q, baseline)
    IN  /\ request[q].op = "start"
        /\ IF presenter.status # "running"
              /\ resolveTrustedPresenterGate(FirstStep, fresh, proof, incidents)
           THEN /\ presenter' = bindExpectedActionKey(FirstStep, fresh, proof, incidents)
                /\ proved' = [s \in Steps |-> NoBasis]
                /\ forgotten' = FALSE
                /\ Answer(q)
           ELSE Refuse(q)

\* Without a current step (a completed track) the first gate counts, and the
\* first step is next.
Current == IF presenter.step = NoStep THEN FirstStep ELSE presenter.step

\* Mutant of continued: the step before the one just left is completed.
continuedLate(proof) ==
    LET next == presenter.step + 1
        done == [presenter EXCEPT !.completed = @ \cup ({presenter.step - 1} \cap Steps)]
    IN  IF next \in Steps
        THEN bindExpectedActionKey(next, [done EXCEPT !.status = "running", !.step = next],
                                   proof, incidents)
        ELSE Unbind([done EXCEPT !.status = "complete", !.step = NoStep])

\* Mutant of continued: a completed track stays on the step after its last.
continuedOn(proof) ==
    LET next == presenter.step + 1
        done == [presenter EXCEPT !.completed = @ \cup ({presenter.step} \ {NoStep})]
    IN  IF next \in Steps
        THEN bindExpectedActionKey(next, [done EXCEPT !.status = "running", !.step = next],
                                   proof, incidents)
        ELSE Unbind([done EXCEPT !.status = "complete", !.step = next])

\* The state after a step was left: its successor, and the action it is about.
continued(proof) ==
    LET next == presenter.step + 1
        done == [presenter EXCEPT !.completed = @ \cup ({presenter.step} \ {NoStep})]
    IN  IF next \in Steps
        THEN bindExpectedActionKey(next, [done EXCEPT !.status = "running", !.step = next],
                                   proof, incidents)
        ELSE Unbind([done EXCEPT !.status = "complete", !.step = NoStep])

\* A request of another run is rejected; the status of this one is not looked at.
handleContinue(q, baseline) ==
    LET proof == Proof(q, baseline)
        key == ExpectedKey(Current, presenter, proof, incidents)
    IN  /\ request[q].op = "continue"
        /\ IF /\ presenter.status # "none"
              /\ Nothing \in {request[q].run, presenter.run} \/ request[q].run = presenter.run
              /\ resolveTrustedPresenterGate(Current, presenter, proof, incidents)
           THEN /\ presenter' = continued(proof)
                /\ proved' = IF presenter.step # NoStep
                             THEN [proved EXCEPT ![presenter.step] =
                                     [incident |-> IF key = Nothing THEN NoIncident
                                                   ELSE TrustedIncident(presenter, proof),
                                      key |-> key]]
                             ELSE proved
                /\ forgotten' = (forgotten \/ presenter.step = NoStep)
                /\ Answer(q)
           ELSE Refuse(q)

handlePause(q) ==
    /\ request[q].op = "pause"
    /\ presenter' = IF presenter.status = "none" THEN presenter
                    ELSE [presenter EXCEPT !.status = "paused"]
    /\ Answer(q)
    /\ UNCHANGED <<proved, forgotten>>

\* Whatever the status was.
handleResume(q) ==
    /\ request[q].op = "resume"
    /\ presenter' = IF presenter.status = "none" THEN presenter
                    ELSE [presenter EXCEPT !.status = "running"]
    /\ Answer(q)
    /\ UNCHANGED <<proved, forgotten>>

\* The action is forgotten; the run and the completed steps stay.
handleAbort(q) ==
    /\ request[q].op = "abort"
    /\ presenter' = IF presenter.status = "none" THEN presenter
                    ELSE [Unbind(presenter) EXCEPT !.status = "aborted"]
    /\ forgotten' = (forgotten \/ presenter.status # "none")
    /\ Answer(q)
    /\ UNCHANGED proved

\* The body names the track, so the track is kept.
handleReset(q) ==
    /\ request[q].op = "reset"
    /\ presenter' = [defaultPresenterState EXCEPT !.status = "idle", !.step = FirstStep,
                                                  !.incident = request[q].bind]
    /\ proved' = [s \in Steps |-> NoBasis]
    /\ forgotten' = FALSE
    /\ Answer(q)

\* The snapshot is there and the operation runs.
Perform(q) ==
    /\ request[q] # Nothing
    /\ \/ \E baseline \in BOOLEAN : handleStart(q, baseline) \/ handleContinue(q, baseline)
       \/ handlePause(q)
       \/ handleResume(q)
       \/ handleAbort(q)
       \/ handleReset(q)
       \/ Refuse(q)     \* the state could not be written and stays

\* The server restarts: requests are lost, the presenter's file is read again; a
\* file that was being written is not readable and counts as no track.
Restart ==
    /\ request' = [q \in Requests |-> Nothing]
    /\ \/ UNCHANGED <<presenter, proved, forgotten>>
       \/ /\ \E q \in Requests : request[q] # Nothing
          /\ presenter' = defaultPresenterState
          /\ proved' = [s \in Steps |-> NoBasis]
          /\ forgotten' = FALSE
    /\ UNCHANGED incidents

Next ==
    \/ IncidentEvent
    \/ \E q \in Requests, op \in Operations, bind \in {NoIncident, getActive} : Send(q, op, bind)
    \/ \E q \in Requests : Perform(q)
    \/ Restart

Spec == Init /\ [][Next]_vars

(***************************************************************************)
(* Properties                                                              *)
(***************************************************************************)
\* Every variable has its type.
TypeOK ==
    /\ presenter \in Presenter
    /\ request \in [Requests -> {Nothing} \cup Request]
    /\ incidents \in Seq(Incident)
    /\ proved \in [Steps -> Basis]
    /\ forgotten \in BOOLEAN

\* No step is reached, in whatever order requests are sent, overtake each other
\* and are repeated, before every earlier step of the track was completed.
InSequence == \A s \in Steps : s < presenter.step => s \in presenter.completed

CompletedOnAction == {s \in presenter.completed : OnAction(s)}

\* What was approved is what was carried out and what was verified: the steps
\* completed since the track was started are about one action of one incident,
\* unless the bound action was given up (abort, or going on after the end).
OneAction ==
    ~forgotten => \A s, t \in CompletedOnAction : proved[s] = proved[t]

\* A run bound to an incident never moves on by another incident's milestones,
\* not even by a request that was looked up for the run before it.
BoundToOneIncident ==
    presenter.incident # NoIncident =>
        \A s \in CompletedOnAction : proved[s].incident = presenter.incident

\* Completed steps were earned: every step of a completed track, and those about
\* an action by one that was approved in its incident, or by one that was carried
\* out and confirmed by its own assertion there, whatever became of the run since.
CompletedIsEarned ==
    /\ presenter.status = "complete" => presenter.completed = Steps
    /\ \A s \in CompletedOnAction :
          LET i == incidents[proved[s].incident]
              key == proved[s].key
          IN  /\ Track[s] = "approval" => key \in i.approved
              /\ Track[s] = "recovery" => key \in i.passed \cap i.succeeded

\* The bound action, the last one proposed, is confirmed and the last step is on.
RecoveryVerified ==
    /\ presenter.step # NoStep
    /\ Track[presenter.step] = "recovery"
    /\ presenter.key # Nothing
    /\ LET i == incidents[presenter.keyIncident]
       IN  presenter.key \in i.passed /\ i.proposals[Len(i.proposals)] = presenter.key

\* What a request sent now would find.
GateOpens ==
    resolveTrustedPresenterGate(
        presenter.step, presenter,
        [incident |-> getIncident(presenter.incident), baseline |-> FALSE], incidents)

\* A run that is bound to an incident sees its recovery: whatever happened to the
\* run, its binding is still one that the gate accepts.
BoundRecoveryIsSeen ==
    RecoveryVerified /\ presenter.incident # NoIncident => GateOpens

\* presenter-trust.js:50 - "the 'recovery' gate's whole job is to confirm the BOUND
\* incident reached finalState === 'recovered', which requires seeing it even after
\* incidentStore.getActive() stops returning it" - of every run, also of one that
\* the page started, which names no incident.
RecoveryIsSeen == RecoveryVerified => GateOpens
=============================================================================
