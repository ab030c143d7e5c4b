------------------------- MODULE PresenterModeProofs -------------------------
(***************************************************************************)
(* Theorems about PresenterMode, for any track whose steps about an action *)
(* are its last ones, any actions, runs and number of requests and         *)
(* incidents.                                                              *)
(***************************************************************************)
EXTENDS PresenterMode, TLAPS

(***************************************************************************)
(* The invariant                                                           *)
(***************************************************************************)
\* A record of the store: only a success is asserted, an assertion closes the
\* record, and nothing happens to an action that was not proposed.
Sound(i) ==
    /\ i.passed \subseteq i.succeeded
    /\ i.open => i.passed = {}
    /\ i.approved \cup i.succeeded # {} => i.proposals # <<>>

\* What a record loses and keeps: a closed one stays, an open one keeps approvals.
Grows(i, j) ==
    /\ i.approved \subseteq j.approved
    /\ ~i.open => j = i

Known == 1..Len(incidents)

SoundInv == \A n \in Known : Sound(incidents[n])

\* Whoever names an incident names one that was opened.
RefsInv ==
    /\ presenter.incident \in Known \cup {NoIncident}
    /\ \A q \in Requests : request[q] # Nothing =>
          /\ request[q].incident \in Known \cup {NoIncident}
          /\ request[q].bind \in Known \cup {NoIncident}

\* The binding of p is whole: it is of the current run and step, which is about an
\* action, and of an incident that was opened, the bound one if there is one.
Bound(p) ==
    IF p.key = Nothing
    THEN p.keyRun = Nothing /\ p.keyIncident = NoIncident /\ p.keyStep = NoStep
    ELSE /\ p.step # NoStep
         /\ OnAction(p.step)
         /\ p.keyStep = p.step
         /\ p.keyRun = p.run
         /\ p.keyIncident \in Known
         /\ p.incident # NoIncident => p.keyIncident = p.incident

BindingInv == Bound(presenter)

\* The binding is the memory of the action the completed steps were about.
LinkInv ==
    ~forgotten =>
        /\ \A s, t \in CompletedOnAction : proved[s] = proved[t]
        /\ presenter.step # NoStep => \A s \in CompletedOnAction :
              /\ presenter.key # Nothing
              /\ proved[s] = [incident |-> presenter.keyIncident, key |-> presenter.key]

ProvedInv == \A s \in CompletedOnAction : proved[s].incident \in Known

Inv ==
    /\ TypeOK
    /\ SoundInv
    /\ RefsInv
    /\ BindingInv
    /\ InSequence
    /\ LinkInv
    /\ ProvedInv
    /\ CompletedIsEarned
    /\ BoundToOneIncident

(***************************************************************************)
(* Gates                                                                   *)
(***************************************************************************)
LEMMA LengthIs == Len(Track) \in Nat \ {0}
BY PresenterAssumption

LEMMA StepsAre ==
    /\ Steps \subseteq Nat
    /\ NoStep \notin Steps
    /\ FirstStep \in Steps
    /\ \A s \in Steps : s + 1 \notin Steps => s = Len(Track)
    /\ \A s \in Steps : OnAction(s) /\ s + 1 \in Steps => OnAction(s + 1)
    /\ \A s \in Steps : s \in 1..Len(Track)
    /\ \A s \in Steps : Track[s] \in GateKinds
BY PresenterAssumption DEF Steps, NoStep, FirstStep

\* An action a gate is about is the one proposed last in an incident that was
\* opened, which is the bound one if there is one.
LEMMA ExpectedKeyIs ==
    ASSUME TypeOK, NEW p, p.incident \in Nat, NEW proof,
           proof.incident \in Known \cup {NoIncident}, NEW step \in Steps
    PROVE  /\ ExpectedKey(step, p, proof, incidents) \in Actions \cup {Nothing}
           /\ TrustedIncident(p, proof) \in Known \cup {NoIncident}
           /\ ExpectedKey(step, p, proof, incidents) # Nothing =>
                /\ OnAction(step)
                /\ TrustedIncident(p, proof) \in Known
                /\ p.incident # NoIncident => TrustedIncident(p, proof) = p.incident
<1> DEFINE i == TrustedIncident(p, proof)
           list == incidents[i].proposals
<1>1. i \in Known \cup {NoIncident}
  BY DEF TrustedIncident
<1>2. ASSUME i \in Known, list # <<>>
      PROVE  list[Len(list)] \in Actions
  <2>1. incidents[i] \in Incident
    BY <1>2 DEF TypeOK, Known
  <2>0. list \in Seq(Actions)
    BY <2>1 DEF Incident
  <2>2. QED
    BY <1>2, <2>0
<1>3. i # NoIncident => i \in Known /\ (p.incident # NoIncident => i = p.incident)
  BY <1>1 DEF TrustedIncident, NoIncident
<1>4. ExpectedKey(step, p, proof, incidents) =
        IF OnAction(step) /\ i # NoIncident /\ list # <<>> THEN list[Len(list)] ELSE Nothing
  BY DEF ExpectedKey
<1> HIDE DEF i, list
<1>5. QED
  BY <1>1, <1>2, <1>3, <1>4, PresenterAssumption DEF i

\* Binding keeps all but the binding, and leaves a whole one.
LEMMA BindIs ==
    ASSUME TypeOK, NEW p \in Presenter, NEW proof,
           proof.incident \in Known \cup {NoIncident}, NEW step \in Steps,
           p.step = step, p.key = Nothing => Bound(p)
    PROVE  LET b == bindExpectedActionKey(step, p, proof, incidents)
               key == ExpectedKey(step, p, proof, incidents)
           IN  /\ b \in Presenter
               /\ b.status = p.status /\ b.step = p.step /\ b.completed = p.completed
               /\ b.run = p.run /\ b.incident = p.incident
               /\ key # Nothing /\ p.key \in {Nothing, key} =>
                     b.key = key /\ b.keyIncident = TrustedIncident(p, proof)
               /\ key = Nothing => b = p
               /\ p.key \in {Nothing, key} => Bound(b)
<1> DEFINE b == bindExpectedActionKey(step, p, proof, incidents)
           key == ExpectedKey(step, p, proof, incidents)
<1>1. p.incident \in Nat
  BY DEF Presenter
<1>2. /\ key \in Actions \cup {Nothing}
      /\ key # Nothing => /\ OnAction(step)
                          /\ TrustedIncident(p, proof) \in Known
                          /\ p.incident # NoIncident => TrustedIncident(p, proof) = p.incident
  BY <1>1, ExpectedKeyIs
<1>3. CASE key = Nothing \/ p.key \notin {Nothing, key}
  BY <1>2, <1>3 DEF bindExpectedActionKey
<1>4. CASE key # Nothing /\ p.key \in {Nothing, key}
  <2>1. b = [p EXCEPT !.key = key, !.keyRun = p.run,
                      !.keyIncident = TrustedIncident(p, proof), !.keyStep = step]
    BY <1>4 DEF bindExpectedActionKey
  <2> HIDE DEF b, key
  <2>2. /\ b \in Presenter
        /\ b.status = p.status /\ b.step = p.step /\ b.completed = p.completed
        /\ b.run = p.run /\ b.incident = p.incident
        /\ b.key = key /\ b.keyIncident = TrustedIncident(p, proof)
        /\ b.keyRun = p.run /\ b.keyStep = step
    <3>1. /\ TrustedIncident(p, proof) \in Nat
          /\ key \in Actions \cup {Nothing}
          /\ p.run \in Runs \cup {Nothing}
      BY <1>2, <1>4 DEF Presenter, Known
    <3>2. QED
      BY <2>1, <3>1 DEF Presenter
  <2>3. Bound(b)
    BY <1>2, <1>4, <2>2, StepsAre DEF Bound
  <2>4. QED
    BY <1>4, <2>2, <2>3 DEF b, key
<1>5. QED
  BY <1>3, <1>4

\* The gate of a step about an action opens for the bound action only, on its
\* own evidence.
LEMMA GateIs ==
    ASSUME TypeOK, NEW p \in Presenter, Bound(p), NEW proof,
           proof.incident \in Known \cup {NoIncident}, NEW step \in Steps,
           resolveTrustedPresenterGate(step, p, proof, incidents)
    PROVE  LET key == ExpectedKey(step, p, proof, incidents)
               i == TrustedIncident(p, proof)
           IN  /\ p.key \in {Nothing, key}
               /\ p.key # Nothing => p.keyIncident = i
               /\ OnAction(step) => /\ key \in Actions
                                    /\ i \in Known
                                    /\ p.incident # NoIncident => i = p.incident
                                    /\ Track[step] = "approval" => key \in incidents[i].approved
                                    /\ Track[step] = "recovery" => key \in incidents[i].passed
<1> DEFINE key == ExpectedKey(step, p, proof, incidents)
           i == TrustedIncident(p, proof)
<1>1. /\ key \in Actions \cup {Nothing}
      /\ key # Nothing => /\ OnAction(step)
                          /\ i \in Known
                          /\ p.incident # NoIncident => i = p.incident
  <2>1. p.incident \in Nat
    BY DEF Presenter
  <2>2. QED
    BY <2>1, ExpectedKeyIs
<1>2. /\ NoIncident \in {p.keyIncident, i} \/ p.keyIncident = i
      /\ p.key # Nothing => key = p.key
  BY DEF resolveTrustedPresenterGate, BindingFits
<1>3. OnAction(step) => key # Nothing /\ Evidence(step, key, incidents[i], proof.baseline)
  BY DEF resolveTrustedPresenterGate
<1> HIDE DEF key, i
<1>4. p.key # Nothing => p.keyIncident = i
  BY <1>1, <1>2 DEF Bound, Known, NoIncident
<1>5. OnAction(step) => /\ Track[step] = "approval" => key \in incidents[i].approved
                        /\ Track[step] = "recovery" => key \in incidents[i].passed
  BY <1>3 DEF Evidence
<1>6. QED
  BY <1>1, <1>2, <1>3, <1>4, <1>5 DEF key, i

\* Where a Continue leads.  Without a step (a completed track) the first is next.
LEMMA ContinuedIs ==
    ASSUME TypeOK, BindingInv, NEW proof, proof.incident \in Known \cup {NoIncident},
           resolveTrustedPresenterGate(Current, presenter, proof, incidents)
    PROVE  LET c == continued(proof)
               key == ExpectedKey(Current, presenter, proof, incidents)
               i == TrustedIncident(presenter, proof)
           IN  /\ c \in Presenter
               /\ c.run = presenter.run /\ c.incident = presenter.incident
               /\ c.completed = presenter.completed \cup ({presenter.step} \ {NoStep})
               /\ \/ presenter.step + 1 \in Steps /\ c.step = presenter.step + 1
                     /\ c.status = "running"
                  \/ presenter.step + 1 \notin Steps /\ c.step = NoStep
                     /\ c.status = "complete"
               /\ Bound(c)
               /\ c.step # NoStep /\ presenter.step # NoStep /\ OnAction(presenter.step) =>
                     c.key = key /\ c.keyIncident = i
<1> DEFINE p == presenter
           c == continued(proof)
           next == p.step + 1
           done == [p EXCEPT !.completed = @ \cup ({p.step} \ {NoStep})]
           moved == [done EXCEPT !.status = "running", !.step = next]
           key == ExpectedKey(Current, p, proof, incidents)
           i == TrustedIncident(p, proof)
<1>1. p \in Presenter /\ p.step \in Steps \cup {NoStep}
  BY DEF TypeOK, Presenter
<1>2. Current \in Steps /\ (p.step # NoStep => Current = p.step)
  BY <1>1, StepsAre DEF Current
<1>3. /\ p.key \in {Nothing, key}
      /\ p.key # Nothing => p.keyIncident = i
      /\ OnAction(Current) => key \in Actions
  BY <1>1, <1>2, GateIs DEF BindingInv
<1>4. /\ done \in Presenter
      /\ done.completed = p.completed \cup ({p.step} \ {NoStep})
      /\ done.run = p.run /\ done.incident = p.incident /\ done.key = p.key
      /\ done.keyRun = p.keyRun /\ done.keyIncident = p.keyIncident /\ done.keyStep = p.keyStep
  BY <1>1 DEF Presenter
<1>5. CASE next \in Steps
  <2>1. c = bindExpectedActionKey(next, moved, proof, incidents)
    BY <1>5 DEF continued
  <2>2. /\ moved \in Presenter
        /\ moved.status = "running" /\ moved.step = next
        /\ moved.completed = done.completed /\ moved.run = done.run
        /\ moved.incident = done.incident /\ moved.key = done.key
        /\ moved.keyRun = done.keyRun /\ moved.keyIncident = done.keyIncident
        /\ moved.keyStep = done.keyStep
    <3> HIDE DEF done, next
    <3>1. QED
      BY <1>4, <1>5 DEF Presenter
  <2> HIDE DEF moved
  <2>3. TrustedIncident(moved, proof) = i
    BY <1>4, <2>2 DEF TrustedIncident
  <2>4. moved.key = Nothing => Bound(moved)
    BY <1>4, <2>2 DEF Bound, BindingInv
  <2>5. p.step # NoStep /\ OnAction(p.step) =>
           ExpectedKey(next, moved, proof, incidents) = key
    <3>1. SUFFICES ASSUME p.step # NoStep, OnAction(p.step)
                   PROVE  ExpectedKey(next, moved, proof, incidents) = key
      OBVIOUS
    <3>2. OnAction(next) /\ OnAction(Current)
      BY <1>1, <1>2, <1>5, <3>1, StepsAre
    <3>3. QED
      BY <2>3, <3>2 DEF ExpectedKey
  <2>6. p.key # Nothing => p.step # NoStep /\ OnAction(p.step)
    BY DEF BindingInv, Bound
  <2> DEFINE b == bindExpectedActionKey(next, moved, proof, incidents)
             e == ExpectedKey(next, moved, proof, incidents)
  <2>7. /\ b \in Presenter
        /\ b.status = moved.status /\ b.step = moved.step /\ b.completed = moved.completed
        /\ b.run = moved.run /\ b.incident = moved.incident
        /\ e # Nothing /\ moved.key \in {Nothing, e} =>
              b.key = e /\ b.keyIncident = TrustedIncident(moved, proof)
        /\ moved.key \in {Nothing, e} => Bound(b)
    <3> HIDE DEF next
    <3>1. QED
      BY <1>5, <2>2, <2>4, BindIs
  <2>8. moved.key \in {Nothing, e}
    BY <1>3, <1>4, <2>2, <2>5, <2>6
  <2>9. p.step # NoStep /\ OnAction(p.step) => b.key = key /\ b.keyIncident = i
    <3> HIDE DEF b, e, i, key
    <3>1. p.step # NoStep /\ OnAction(p.step) => e = key /\ key # Nothing
      BY <1>2, <1>3, <2>5, PresenterAssumption DEF e
    <3>2. QED
      BY <2>3, <2>7, <2>8, <3>1
  <2> HIDE DEF b, e, i, key
  <2>10. QED
    BY <1>4, <1>5, <2>1, <2>2, <2>7, <2>8, <2>9 DEF b, i, key
<1>6. CASE next \notin Steps
  <2>1. c = Unbind([done EXCEPT !.status = "complete", !.step = NoStep])
    BY <1>6 DEF continued
  <2> HIDE DEF done, c
  <2>2. /\ c \in Presenter
        /\ c.status = "complete" /\ c.step = NoStep /\ c.completed = done.completed
        /\ c.run = done.run /\ c.incident = done.incident
        /\ c.key = Nothing /\ c.keyRun = Nothing
        /\ c.keyIncident = NoIncident /\ c.keyStep = NoStep
    BY <1>4, <2>1 DEF Unbind, Presenter, NoIncident
  <2>3. Bound(c)
    BY <2>2 DEF Bound
  <2>4. QED
    BY <1>4, <1>6, <2>2, <2>3 DEF c
<1>7. QED
  BY <1>5, <1>6

(***************************************************************************)
(* The incident store                                                      *)
(***************************************************************************)
LEMMA ActiveIs ==
    ASSUME TypeOK, getActive # NoIncident
    PROVE  /\ getActive \in Known
           /\ incidents[getActive].open
           /\ incidents[getActive] \in Incident
BY DEF TypeOK, getActive, Known, NoIncident

\* Records stay sound, and know no less, when the active one becomes j.
LEMMA ActiveBecomes ==
    ASSUME TypeOK, SoundInv, getActive # NoIncident,
           NEW j \in Incident, Sound(j),
           incidents[getActive].approved \subseteq j.approved,
           incidents' = [incidents EXCEPT ![getActive] = j]
    PROVE  /\ incidents' \in Seq(Incident)
           /\ Known' = Known
           /\ \A n \in Known : Grows(incidents[n], incidents'[n])
           /\ SoundInv'
<1>1. getActive \in Known /\ incidents[getActive].open
  BY ActiveIs
<1>2. incidents \in Seq(Incident)
  BY DEF TypeOK
<1>3. incidents' \in Seq(Incident) /\ Known' = Known
  BY <1>1, <1>2 DEF Known
<1>4. \A n \in Known : incidents'[n] = IF n = getActive THEN j ELSE incidents[n]
  BY <1>1, <1>2 DEF Known
<1>5. \A n \in Known : Grows(incidents[n], incidents'[n])
  BY <1>1, <1>4 DEF Grows
<1>6. SoundInv'
  BY <1>3, <1>4 DEF SoundInv, Sound
<1>7. QED
  BY <1>3, <1>5, <1>6

LEMMA StoreGrows ==
    ASSUME TypeOK, SoundInv, IncidentEvent
    PROVE  /\ incidents' \in Seq(Incident)
           /\ Known \subseteq Known'
           /\ \A n \in Known : Grows(incidents[n], incidents'[n])
           /\ SoundInv'
<1> DEFINE Goal == /\ incidents' \in Seq(Incident)
                   /\ Known \subseteq Known'
                   /\ \A n \in Known : Grows(incidents[n], incidents'[n])
                   /\ SoundInv'
           k == getActive
           i == incidents[k]
<1>1. ASSUME activate
      PROVE  Goal
  <2> DEFINE j == [open |-> TRUE, proposals |-> <<>>, approved |-> {},
                   refused |-> {}, succeeded |-> {}, passed |-> {}]
  <2>1. j \in Incident /\ Sound(j)
    BY DEF Incident, Sound
  <2>2. incidents \in Seq(Incident) /\ incidents' = Append(incidents, j)
    BY <1>1 DEF TypeOK, activate
  <2> HIDE DEF j
  <2>3. /\ incidents' \in Seq(Incident)
        /\ Len(incidents') = Len(incidents) + 1
        /\ \A n \in Known : incidents'[n] = incidents[n]
        /\ incidents'[Len(incidents) + 1] = j
    BY <2>1, <2>2 DEF Known
  <2>4. Len(incidents) \in Nat
    BY <2>2
  <2>5. Known \subseteq Known' /\ Known' = Known \cup {Len(incidents) + 1}
    BY <2>3, <2>4 DEF Known
  <2>6. SoundInv'
    BY <2>1, <2>3, <2>5 DEF SoundInv, Sound
  <2>7. QED
    BY <2>3, <2>5, <2>6 DEF Grows
<1>2. ASSUME k # NoIncident, NEW j \in Incident, Sound(j), i.approved \subseteq j.approved,
             incidents' = [incidents EXCEPT ![k] = j]
      PROVE  Goal
  BY <1>2, ActiveBecomes
<1>3. k # NoIncident => i \in Incident /\ Sound(i) /\ i.open /\ i.passed = {}
  BY ActiveIs DEF SoundInv, Sound
<1>4. k # NoIncident => \A a \in Proposed(k) : i.proposals # <<>> /\ a \in Actions
  <2>1. SUFFICES ASSUME k # NoIncident, NEW a \in Proposed(k)
                 PROVE  i.proposals # <<>> /\ a \in Actions
    OBVIOUS
  <2>2. i.proposals \in Seq(Actions)
    BY <1>3, <2>1 DEF Incident
  <2>3. PICK n \in 1..Len(i.proposals) : a = i.proposals[n]
    BY <2>1 DEF Proposed
  <2> HIDE DEF i
  <2>4. QED
    BY <2>2, <2>3
<1>5. k # NoIncident => \A a \in Actions : /\ Append(i.proposals, a) \in Seq(Actions)
                                           /\ Append(i.proposals, a) # <<>>
  <2>1. SUFFICES ASSUME k # NoIncident, NEW a \in Actions
                 PROVE  /\ Append(i.proposals, a) \in Seq(Actions)
                        /\ Append(i.proposals, a) # <<>>
    OBVIOUS
  <2>2. i.proposals \in Seq(Actions)
    BY <1>3, <2>1 DEF Incident
  <2> HIDE DEF i
  <2>3. QED
    BY <2>2
<1> HIDE DEF Goal
<1>6. ASSUME NEW a \in Actions, proposeAction(a)
      PROVE  Goal
  <2> DEFINE j == [i EXCEPT !.proposals = Append(@, a)]
  <2>1. k # NoIncident /\ incidents' = [incidents EXCEPT ![k] = j]
    BY <1>6 DEF proposeAction
  <2>2. j \in Incident /\ Sound(j) /\ i.approved \subseteq j.approved
    <3> HIDE DEF i
    <3>1. QED
      BY <1>3, <1>5, <2>1 DEF Incident, Sound
  <2>3. QED
    BY <1>2, <2>1, <2>2
<1>7. ASSUME NEW a \in Actions, approveAction(a)
      PROVE  Goal
  <2> DEFINE j == [i EXCEPT !.approved = @ \cup {a}]
  <2>1. /\ k # NoIncident /\ i.proposals # <<>>
        /\ incidents' = [incidents EXCEPT ![k] = j]
    BY <1>4, <1>7 DEF approveAction
  <2>2. j \in Incident /\ Sound(j) /\ i.approved \subseteq j.approved
    <3> HIDE DEF i
    <3>1. QED
      BY <1>3, <2>1 DEF Incident, Sound
  <2>3. QED
    BY <1>2, <2>1, <2>2
<1>8. ASSUME NEW a \in Actions, denyAction(a) \/ expireAction(a)
      PROVE  Goal
  <2> DEFINE j == [i EXCEPT !.refused = @ \cup {a}, !.open = FALSE]
  <2>1. k # NoIncident /\ incidents' = [incidents EXCEPT ![k] = j]
    BY <1>8 DEF denyAction, expireAction
  <2>2. j \in Incident /\ Sound(j) /\ i.approved \subseteq j.approved
    <3> HIDE DEF i
    <3>1. QED
      BY <1>3, <2>1 DEF Incident, Sound
  <2>3. QED
    BY <1>2, <2>1, <2>2
<1>9. ASSUME NEW a \in Actions, recordActionResult(a)
      PROVE  Goal
  <2> DEFINE ok == [i EXCEPT !.succeeded = @ \cup {a}]
             ko == [i EXCEPT !.succeeded = @ \ {a}, !.open = FALSE]
  <2>1. /\ k # NoIncident /\ a \in i.approved
        /\ \/ incidents' = [incidents EXCEPT ![k] = ok]
           \/ incidents' = [incidents EXCEPT ![k] = ko]
    BY <1>9 DEF recordActionResult
  <2>2. /\ ok \in Incident /\ Sound(ok) /\ i.approved \subseteq ok.approved
        /\ ko \in Incident /\ Sound(ko) /\ i.approved \subseteq ko.approved
    <3> HIDE DEF i
    <3>1. QED
      BY <1>3, <2>1 DEF Incident, Sound
  <2>3. QED
    BY <1>2, <2>1, <2>2
<1>10. ASSUME NEW a \in Actions, recordOperatorDirectAction(a)
       PROVE  Goal
  <2> DEFINE ok == [i EXCEPT !.proposals = Append(@, a), !.succeeded = @ \cup {a}]
             ko == [i EXCEPT !.proposals = Append(@, a), !.open = FALSE]
  <2>1. /\ k # NoIncident
        /\ \/ incidents' = [incidents EXCEPT ![k] = ok]
           \/ incidents' = [incidents EXCEPT ![k] = ko]
    BY <1>10 DEF recordOperatorDirectAction
  <2>2. /\ ok \in Incident /\ Sound(ok) /\ i.approved \subseteq ok.approved
        /\ ko \in Incident /\ Sound(ko) /\ i.approved \subseteq ko.approved
    <3> HIDE DEF i
    <3>1. QED
      BY <1>3, <1>5, <2>1 DEF Incident, Sound
  <2>3. QED
    BY <1>2, <2>1, <2>2
<1>11. ASSUME NEW a \in Actions, recordPostActionAssertion(a)
       PROVE  Goal
  <2> DEFINE ok == [i EXCEPT !.passed = @ \cup {a}, !.open = FALSE]
             ko == [i EXCEPT !.open = FALSE]
  <2>1. /\ k # NoIncident /\ a \in i.succeeded
        /\ \/ incidents' = [incidents EXCEPT ![k] = ok]
           \/ incidents' = [incidents EXCEPT ![k] = ko]
    BY <1>11 DEF recordPostActionAssertion
  <2>2. /\ ok \in Incident /\ Sound(ok) /\ i.approved \subseteq ok.approved
        /\ ko \in Incident /\ Sound(ko) /\ i.approved \subseteq ko.approved
    <3> HIDE DEF i
    <3>1. QED
      BY <1>3, <2>1 DEF Incident, Sound
  <2>3. QED
    BY <1>2, <2>1, <2>2
<1>12. ASSUME pollActiveIncident
       PROVE  Goal
  <2> DEFINE j == [i EXCEPT !.open = FALSE]
  <2>1. k # NoIncident /\ incidents' = [incidents EXCEPT ![k] = j]
    BY <1>12 DEF pollActiveIncident
  <2>2. j \in Incident /\ Sound(j) /\ i.approved \subseteq j.approved
    <3> HIDE DEF i
    <3>1. QED
      BY <1>3, <2>1 DEF Incident, Sound
  <2>3. QED
    BY <1>2, <2>1, <2>2
<1>13. Direct \subseteq Actions
  BY PresenterAssumption
<1>14. Goal
  BY <1>1, <1>6, <1>7, <1>8, <1>9, <1>10, <1>11, <1>12, <1>13 DEF IncidentEvent
<1>15. QED
  BY <1>14 DEF Goal

(***************************************************************************)
(* Requests                                                                *)
(***************************************************************************)
\* What is under way names incidents that were opened.
RequestsOK ==
    /\ request \in [Requests -> {Nothing} \cup Request]
    /\ \A q \in Requests : request[q] # Nothing =>
          /\ request[q].incident \in Known \cup {NoIncident}
          /\ request[q].bind \in Known \cup {NoIncident}

\* Answering one request leaves the store and the others alone.
LEMMA Answered ==
    ASSUME Inv, NEW q \in Requests, Answer(q)
    PROVE  /\ RequestsOK'
           /\ incidents' \in Seq(Incident)
           /\ Known' = Known
           /\ SoundInv'
<1>1. incidents' = incidents /\ Known' = Known
  BY DEF Answer, Known
<1>2. SoundInv'
  BY <1>1 DEF Inv, SoundInv
<1>3. RequestsOK'
  BY <1>1 DEF Inv, TypeOK, RefsInv, RequestsOK, Answer
<1>4. QED
  BY <1>1, <1>2, <1>3 DEF Inv, TypeOK

\* A request that is performed: it is one, and its proof refers to the store.
LEMMA PerformedIs ==
    ASSUME Inv, NEW q \in Requests, request[q] # Nothing, NEW baseline \in BOOLEAN
    PROVE  /\ request[q] \in Request
           /\ Proof(q, baseline).incident \in Known \cup {NoIncident}
           /\ request[q].bind \in Known \cup {NoIncident}
BY DEF Inv, TypeOK, RefsInv, Proof

\* There is a new correlation id for every run.
LEMMA RunIs ==
    ASSUME Inv, NEW q \in Requests, request[q] # Nothing
    PROVE  RunOf(q) \in Runs
<1>1. request[q] \in Request
  BY DEF Inv, TypeOK
<1>2. CASE request[q].run # Nothing
  BY <1>1, <1>2 DEF RunOf, Request
<1>3. CASE request[q].run = Nothing
  <2> DEFINE held == [r \in Requests |->
                        IF r = q THEN presenter.run
                        ELSE IF request[r] # Nothing THEN request[r].run ELSE Nothing]
  <2>1. \A r \in Requests : request[r] # Nothing => request[r].run \in Runs \cup {Nothing}
    BY DEF Inv, TypeOK, Request
  <2>2. presenter.run \in Runs \cup {Nothing}
    BY DEF Inv, TypeOK, Presenter
  <2>3. held \in [Requests -> Runs \cup {Nothing}]
    BY <2>1, <2>2
  <2>4. PICK r \in Runs : \A s \in Requests : held[s] # r
    BY <2>3, PresenterAssumption
  <2>5. r # Nothing
    BY PresenterAssumption
  <2>6. r \notin Held
    BY <1>3, <2>4, <2>5 DEF Held
  <2>7. QED
    BY <1>3, <2>6 DEF RunOf
<1>4. QED
  BY <1>2, <1>3

(***************************************************************************)
(* What the presenter may become                                           *)
(***************************************************************************)
\* It stays, while the store grows.
LEMMA PresenterStays ==
    ASSUME Inv, RequestsOK', incidents' \in Seq(Incident), SoundInv', Known \subseteq Known',
           \A n \in Known : Grows(incidents[n], incidents'[n]),
           UNCHANGED <<presenter, proved, forgotten>>
    PROVE  Inv'
<1>1. TypeOK' /\ RefsInv'
  BY DEF Inv, TypeOK, RefsInv, RequestsOK
<1>2. BindingInv'
  BY DEF Inv, BindingInv, Bound
<1>3. CompletedOnAction' = CompletedOnAction
  BY DEF CompletedOnAction
<1>4. InSequence' /\ LinkInv' /\ ProvedInv' /\ BoundToOneIncident'
  BY <1>3 DEF Inv, InSequence, LinkInv, ProvedInv, BoundToOneIncident
<1>5. CompletedIsEarned'
  <2>1. presenter'.status = "complete" => presenter'.completed = Steps
    BY DEF Inv, CompletedIsEarned
  <2>2. ASSUME NEW s \in CompletedOnAction
        PROVE  LET i == incidents'[proved[s].incident]
                   key == proved[s].key
               IN  /\ Track[s] = "approval" => key \in i.approved
                   /\ Track[s] = "recovery" => key \in i.passed \cap i.succeeded
    <3> DEFINE n == proved[s].incident
               key == proved[s].key
    <3>1. n \in Known /\ Grows(incidents[n], incidents'[n]) /\ Sound(incidents[n])
      BY DEF Inv, ProvedInv, SoundInv
    <3>2. /\ Track[s] = "approval" => key \in incidents[n].approved
          /\ Track[s] = "recovery" => key \in incidents[n].passed \cap incidents[n].succeeded
      BY DEF Inv, CompletedIsEarned
    <3>3. Track[s] = "recovery" => incidents'[n] = incidents[n]
      <4>1. incidents[n] \in Incident
        BY <3>1 DEF Inv, TypeOK, Known
      <4>2. QED
        BY <3>1, <3>2, <4>1 DEF Grows, Sound, Incident
    <3>4. QED
      BY <3>1, <3>2, <3>3 DEF Grows
  <2>3. QED
    BY <1>3, <2>1, <2>2 DEF CompletedIsEarned
<1>6. QED
  BY <1>1, <1>2, <1>4, <1>5 DEF Inv

\* It is at the beginning of a run, or at rest.
LEMMA PresenterBegins ==
    ASSUME Inv, RequestsOK', incidents' = incidents,
           presenter' \in Presenter, presenter'.completed = {},
           presenter'.step \in {FirstStep, NoStep}, presenter'.status # "complete",
           presenter'.incident \in Known \cup {NoIncident}, Bound(presenter'),
           proved' = [s \in Steps |-> NoBasis], forgotten' \in BOOLEAN
    PROVE  Inv'
<1>1. Known' = Known /\ CompletedOnAction' = {}
  BY DEF Known, CompletedOnAction
<1>2. TypeOK'
  BY DEF Inv, TypeOK, RequestsOK, Basis, NoBasis, NoIncident
<1>3. RefsInv' /\ SoundInv'
  BY <1>1 DEF Inv, RefsInv, RequestsOK, SoundInv
<1>4. BindingInv'
  BY <1>1 DEF BindingInv, Bound
<1>5. InSequence'
  BY StepsAre DEF InSequence, Steps, FirstStep, NoStep
<1>6. LinkInv' /\ ProvedInv' /\ BoundToOneIncident'
  BY <1>1 DEF LinkInv, ProvedInv, BoundToOneIncident
<1>7. CompletedIsEarned'
  BY <1>1 DEF CompletedIsEarned
<1>8. QED
  BY <1>2, <1>3, <1>4, <1>5, <1>6, <1>7 DEF Inv

\* It stays where it is; only the status changes, or the action is forgotten too.
LEMMA PresenterHalts ==
    ASSUME Inv, RequestsOK', incidents' = incidents,
           NEW status \in {"running", "paused", "aborted"},
           \/ presenter' = [presenter EXCEPT !.status = status] /\ forgotten' = forgotten
           \/ presenter' = [Unbind(presenter) EXCEPT !.status = status] /\ forgotten' = TRUE,
           proved' = proved
    PROVE  Inv'
<1>1. presenter \in Presenter
  BY DEF Inv, TypeOK
<1>2. /\ presenter' \in Presenter
      /\ presenter'.status = status /\ presenter'.step = presenter.step
      /\ presenter'.completed = presenter.completed
      /\ presenter'.run = presenter.run /\ presenter'.incident = presenter.incident
  <2>1. CASE presenter' = [presenter EXCEPT !.status = status]
    BY <1>1, <2>1 DEF Presenter
  <2>2. CASE presenter' = [Unbind(presenter) EXCEPT !.status = status]
    <3>1. Unbind(presenter) \in Presenter
      BY <1>1 DEF Unbind, Presenter, NoIncident
    <3>2. /\ Unbind(presenter).step = presenter.step
          /\ Unbind(presenter).completed = presenter.completed
          /\ Unbind(presenter).run = presenter.run
          /\ Unbind(presenter).incident = presenter.incident
      BY <1>1 DEF Unbind, Presenter
    <3>3. QED
      BY <2>2, <3>1, <3>2 DEF Presenter
  <2>3. QED
    BY <2>1, <2>2
<1>3. Known' = Known /\ CompletedOnAction' = CompletedOnAction
  BY <1>2 DEF Known, CompletedOnAction
<1>4. TypeOK' /\ RefsInv' /\ SoundInv'
  BY <1>2, <1>3 DEF Inv, TypeOK, RefsInv, RequestsOK, SoundInv
<1>5. \/ /\ presenter'.key = presenter.key /\ presenter'.keyRun = presenter.keyRun
         /\ presenter'.keyIncident = presenter.keyIncident
         /\ presenter'.keyStep = presenter.keyStep /\ forgotten' = forgotten
      \/ /\ presenter'.key = Nothing /\ presenter'.keyRun = Nothing
         /\ presenter'.keyIncident = NoIncident /\ presenter'.keyStep = NoStep
         /\ forgotten' = TRUE
  BY <1>1 DEF Unbind, Presenter
<1>6. BindingInv'
  BY <1>2, <1>3, <1>5 DEF Inv, BindingInv, Bound
<1>7. InSequence' /\ ProvedInv' /\ BoundToOneIncident' /\ CompletedIsEarned'
  BY <1>2, <1>3 DEF Inv, InSequence, ProvedInv, BoundToOneIncident, CompletedIsEarned
<1>8. LinkInv'
  BY <1>2, <1>3, <1>5 DEF Inv, LinkInv
<1>9. QED
  BY <1>4, <1>6, <1>7, <1>8 DEF Inv

\* It goes on, through a gate that opened.
LEMMA PresenterGoesOn ==
    ASSUME Inv, NEW q \in Requests, request[q] # Nothing, NEW baseline \in BOOLEAN,
           RequestsOK', incidents' = incidents,
           resolveTrustedPresenterGate(Current, presenter, Proof(q, baseline), incidents),
           presenter' = continued(Proof(q, baseline)),
           proved' = IF presenter.step # NoStep
                     THEN [proved EXCEPT ![presenter.step] =
                             [incident |->
                                IF ExpectedKey(Current, presenter, Proof(q, baseline),
                                               incidents) = Nothing
                                THEN NoIncident
                                ELSE TrustedIncident(presenter, Proof(q, baseline)),
                              key |-> ExpectedKey(Current, presenter, Proof(q, baseline),
                                                  incidents)]]
                     ELSE proved,
           forgotten' = (forgotten \/ presenter.step = NoStep)
    PROVE  Inv'
<1> DEFINE p == presenter
           proof == Proof(q, baseline)
           key == ExpectedKey(Current, p, proof, incidents)
           i == TrustedIncident(p, proof)
           basis == [incident |-> IF key = Nothing THEN NoIncident ELSE i, key |-> key]
<1>1. /\ p \in Presenter /\ p.step \in Steps \cup {NoStep} /\ p.incident \in Nat
      /\ proved \in [Steps -> Basis] /\ p.completed \subseteq Steps
  BY DEF Inv, TypeOK, Presenter
<1>2. Current \in Steps /\ (p.step # NoStep => Current = p.step)
  BY <1>1, StepsAre DEF Current
<1>3. proof.incident \in Known \cup {NoIncident}
  BY PerformedIs
<1>4. /\ key \in Actions \cup {Nothing}
      /\ key # Nothing => i \in Known
  BY <1>1, <1>2, <1>3, ExpectedKeyIs DEF Inv
<1>5. /\ p.key \in {Nothing, key}
      /\ p.key # Nothing => p.keyIncident = i
      /\ OnAction(Current) =>
            /\ key \in Actions
            /\ i \in Known
            /\ p.incident # NoIncident => i = p.incident
            /\ Track[Current] = "approval" => key \in incidents[i].approved
            /\ Track[Current] = "recovery" => key \in incidents[i].passed
  BY <1>1, <1>2, <1>3, GateIs DEF Inv, BindingInv
<1>6. /\ presenter' \in Presenter
      /\ presenter'.run = p.run /\ presenter'.incident = p.incident
      /\ presenter'.completed = p.completed \cup ({p.step} \ {NoStep})
      /\ \/ p.step + 1 \in Steps /\ presenter'.step = p.step + 1
            /\ presenter'.status = "running"
         \/ p.step + 1 \notin Steps /\ presenter'.step = NoStep
            /\ presenter'.status = "complete"
      /\ Bound(presenter')
      /\ presenter'.step # NoStep /\ p.step # NoStep /\ OnAction(p.step) =>
            presenter'.key = key /\ presenter'.keyIncident = i
  BY <1>3, ContinuedIs DEF Inv
<1>7. basis \in Basis
  BY <1>4 DEF Basis, Known, NoIncident
<1>8. proved' = IF p.step # NoStep THEN [proved EXCEPT ![p.step] = basis] ELSE proved
  OBVIOUS
<1> HIDE DEF p, proof, key, i
<1>9. /\ proved' \in [Steps -> Basis]
      /\ \A s \in Steps : proved'[s] = IF s = p.step THEN basis ELSE proved[s]
  BY <1>1, <1>7, <1>8, StepsAre
<1>10. Known' = Known
  BY DEF Known
<1>11. /\ CompletedOnAction' \subseteq Steps
       /\ \A s \in CompletedOnAction' : s # p.step => s \in CompletedOnAction
       /\ \A s \in CompletedOnAction' : OnAction(s)
  BY <1>1, <1>6 DEF CompletedOnAction, Presenter, p
<1>12. ASSUME p.step \in CompletedOnAction'
       PROVE  /\ p.step # NoStep /\ OnAction(p.step) /\ Current = p.step
              /\ proved'[p.step] = [incident |-> i, key |-> key]
              /\ key \in Actions /\ i \in Known
  <2>1. p.step \in Steps /\ OnAction(p.step) /\ p.step # NoStep
    BY <1>11, <1>12, StepsAre
  <2>2. key \in Actions /\ i \in Known /\ key # Nothing
    BY <1>2, <1>5, <2>1, PresenterAssumption
  <2>3. proved'[p.step] = basis
    BY <1>9, <2>1
  <2>4. QED
    BY <1>2, <2>1, <2>2, <2>3
<1>13. TypeOK' /\ RefsInv' /\ SoundInv'
  BY <1>6, <1>9, <1>10 DEF Inv, TypeOK, RefsInv, RequestsOK, SoundInv, p
<1>14. BindingInv'
  BY <1>6, <1>10 DEF BindingInv, Bound
<1>15. InSequence'
  <2>1. SUFFICES ASSUME NEW s \in Steps, s < presenter'.step
                 PROVE  s \in presenter'.completed
    BY DEF InSequence
  <2>2. p.step + 1 \in Steps /\ presenter'.step = p.step + 1
    BY <1>6, <2>1, StepsAre DEF NoStep
  <2>3. s = p.step \/ s < p.step
    BY <1>1, <2>1, <2>2, LengthIs DEF Steps, NoStep
  <2>4. s \in p.completed \/ s = p.step
    BY <2>3 DEF Inv, InSequence, p
  <2>5. QED
    BY <1>6, <2>4, StepsAre
<1>16. ProvedInv'
  <2>1. SUFFICES ASSUME NEW s \in CompletedOnAction'
                 PROVE  proved'[s].incident \in Known
    BY <1>10 DEF ProvedInv
  <2>2. CASE s = p.step
    BY <1>12, <2>2
  <2>3. CASE s # p.step
    BY <1>9, <1>11, <2>3 DEF Inv, ProvedInv
  <2>4. QED
    BY <2>2, <2>3
<1>17. BoundToOneIncident'
  <2>1. SUFFICES ASSUME p.incident # NoIncident, NEW s \in CompletedOnAction'
                 PROVE  proved'[s].incident = p.incident
    BY <1>6 DEF BoundToOneIncident
  <2>2. CASE s = p.step
    BY <1>5, <1>12, <2>1, <2>2
  <2>3. CASE s # p.step
    BY <1>9, <1>11, <2>1, <2>3 DEF Inv, BoundToOneIncident, p
  <2>4. QED
    BY <2>2, <2>3
<1>18. CompletedIsEarned'
  <2>1. presenter'.status = "complete" => presenter'.completed = Steps
    <3>1. SUFFICES ASSUME p.step + 1 \notin Steps
                   PROVE  presenter'.completed = Steps
      BY <1>6
    <3>2. p.step \in Steps /\ p.step = Len(Track)
      BY <1>1, <3>1, LengthIs DEF Steps, NoStep
    <3>3. \A s \in Steps : s = p.step \/ s < p.step
      BY <3>2, StepsAre
    <3>4. \A s \in Steps : s \in p.completed \/ s = p.step
      BY <3>3 DEF Inv, InSequence, p
    <3>5. QED
      BY <1>1, <1>6, <3>2, <3>4, StepsAre
  <2>2. ASSUME NEW s \in CompletedOnAction'
        PROVE  LET j == incidents[proved'[s].incident]
               IN  /\ Track[s] = "approval" => proved'[s].key \in j.approved
                   /\ Track[s] = "recovery" => proved'[s].key \in j.passed \cap j.succeeded
    <3>1. CASE s = p.step
      <4>1. /\ proved'[s].incident = i /\ proved'[s].key = key /\ i \in Known
            /\ Current = s /\ OnAction(Current)
        BY <1>12, <2>2, <3>1
      <4>2. Sound(incidents[i])
        BY <4>1 DEF Inv, SoundInv
      <4>3. QED
        BY <1>5, <4>1, <4>2 DEF Sound
    <3>2. CASE s # p.step
      <4>1. s \in CompletedOnAction /\ proved'[s] = proved[s]
        BY <1>9, <1>11, <2>2, <3>2
      <4>2. QED
        BY <4>1 DEF Inv, CompletedIsEarned
    <3>3. QED
      BY <3>1, <3>2
  <2>3. QED
    BY <2>1, <2>2 DEF CompletedIsEarned
<1>19. LinkInv'
  <2>1. SUFFICES ASSUME ~forgotten, p.step # NoStep
                 PROVE  /\ \A s, t \in CompletedOnAction' : proved'[s] = proved'[t]
                        /\ presenter'.step # NoStep => \A s \in CompletedOnAction' :
                              /\ presenter'.key # Nothing
                              /\ proved'[s] = [incident |-> presenter'.keyIncident,
                                              key |-> presenter'.key]
    BY DEF LinkInv, p
  <2>2. \A s \in CompletedOnAction :
           p.key # Nothing /\ proved[s] = [incident |-> p.keyIncident, key |-> p.key]
    BY <2>1 DEF Inv, LinkInv, p
  <2>3. p.key # Nothing => p.key = key /\ p.keyIncident = i /\ OnAction(p.step)
    BY <1>5 DEF Inv, BindingInv, Bound, p
  <2>4. ASSUME NEW s \in CompletedOnAction'
        PROVE  /\ proved'[s] = [incident |-> i, key |-> key]
               /\ key # Nothing /\ OnAction(p.step)
    <3>1. CASE s = p.step
      BY <1>12, <2>4, <3>1, PresenterAssumption
    <3>2. CASE s # p.step
      <4>1. s \in CompletedOnAction /\ proved'[s] = proved[s]
        BY <1>9, <1>11, <2>4, <3>2
      <4>2. QED
        BY <2>2, <2>3, <4>1
    <3>3. QED
      BY <3>1, <3>2
  <2>5. QED
    BY <1>6, <2>1, <2>4
<1>20. QED
  BY <1>13, <1>14, <1>15, <1>16, <1>17, <1>18, <1>19 DEF Inv

(***************************************************************************)
(* Steps                                                                   *)
(***************************************************************************)
LEMMA InitOK ==
    ASSUME Init
    PROVE  Inv
<1>1. /\ presenter = defaultPresenterState /\ incidents = <<>>
      /\ proved = [s \in Steps |-> NoBasis] /\ forgotten = FALSE
      /\ request = [q \in Requests |-> Nothing]
  BY DEF Init
<1>2. TypeOK
  <2>1. presenter \in Presenter
    BY <1>1 DEF Presenter, defaultPresenterState, NoIncident
  <2>2. incidents \in Seq(Incident)
    BY <1>1
  <2>3. proved \in [Steps -> Basis]
    BY <1>1 DEF Basis, NoBasis, NoIncident
  <2>4. QED
    BY <1>1, <2>1, <2>2, <2>3 DEF TypeOK
<1>3. Known = {} /\ CompletedOnAction = {}
  BY <1>1 DEF Known, CompletedOnAction, defaultPresenterState
<1>4. SoundInv /\ RefsInv /\ BindingInv
  BY <1>1, <1>3 DEF SoundInv, RefsInv, BindingInv, Bound, defaultPresenterState, NoStep,
                    NoIncident
<1>5. InSequence
  BY <1>1, LengthIs DEF InSequence, Steps, defaultPresenterState, NoStep
<1>6. LinkInv /\ ProvedInv /\ BoundToOneIncident /\ CompletedIsEarned
  BY <1>1, <1>3 DEF LinkInv, ProvedInv, BoundToOneIncident, CompletedIsEarned,
                    defaultPresenterState
<1>7. QED
  BY <1>2, <1>4, <1>5, <1>6 DEF Inv

LEMMA NothingChanges ==
    ASSUME Inv, UNCHANGED <<presenter, incidents, proved, forgotten>>, RequestsOK'
    PROVE  Inv'
<1>1. Known' = Known /\ incidents' \in Seq(Incident)
  BY DEF Known, Inv, TypeOK
<1>2. SoundInv' /\ \A n \in Known : Grows(incidents[n], incidents'[n])
  BY <1>1 DEF Inv, SoundInv, Grows
<1>3. QED
  BY <1>1, <1>2, PresenterStays

LEMMA IncidentEventOK ==
    ASSUME Inv, IncidentEvent
    PROVE  Inv'
<1>1. /\ incidents' \in Seq(Incident)
      /\ Known \subseteq Known'
      /\ \A n \in Known : Grows(incidents[n], incidents'[n])
      /\ SoundInv'
  BY StoreGrows DEF Inv
<1>2. UNCHANGED <<presenter, request, proved, forgotten>>
  BY DEF IncidentEvent
<1>3. RequestsOK'
  BY <1>1, <1>2 DEF Inv, TypeOK, RefsInv, RequestsOK
<1>4. QED
  BY <1>1, <1>2, <1>3, PresenterStays

LEMMA SendOK ==
    ASSUME Inv, NEW q \in Requests, NEW op \in Operations,
           NEW bind \in {NoIncident, getActive}, Send(q, op, bind)
    PROVE  Inv'
<1>1. getActive \in Known \cup {NoIncident}
  BY ActiveIs DEF Inv
<1>2. presenter.incident \in Known \cup {NoIncident}
  BY DEF Inv, RefsInv
<1> DEFINE sent == [op |-> op,
                    run |-> IF Gated(op) THEN presenter.run ELSE Nothing,
                    bind |-> bind,
                    incident |-> IF Gated(op)
                                 THEN getIncident(IF presenter.incident # NoIncident
                                                  THEN presenter.incident ELSE bind)
                                 ELSE NoIncident]
<1>3. sent.incident \in Known \cup {NoIncident} /\ sent.bind \in Known \cup {NoIncident}
  BY <1>1, <1>2 DEF getIncident
<1>4. presenter.run \in Runs \cup {Nothing}
  BY DEF Inv, TypeOK, Presenter
<1>5. sent \in Request
  BY <1>3, <1>4 DEF Request, Known, NoIncident
<1>6. request' = [request EXCEPT ![q] = sent]
  BY DEF Send
<1>7. UNCHANGED <<presenter, incidents, proved, forgotten>> /\ Known' = Known
  BY DEF Send, Known
<1> HIDE DEF sent
<1>8. RequestsOK'
  BY <1>3, <1>5, <1>6, <1>7 DEF Inv, TypeOK, RefsInv, RequestsOK
<1>9. QED
  BY <1>7, <1>8, NothingChanges

LEMMA RefuseOK ==
    ASSUME Inv, NEW q \in Requests, Refuse(q)
    PROVE  Inv'
<1>1. Answer(q) /\ UNCHANGED <<presenter, incidents, proved, forgotten>>
  BY DEF Refuse, Answer
<1>2. RequestsOK'
  BY <1>1, Answered
<1>3. QED
  BY <1>1, <1>2, NothingChanges

LEMMA StartOK ==
    ASSUME Inv, NEW q \in Requests, request[q] # Nothing, NEW baseline \in BOOLEAN,
           handleStart(q, baseline)
    PROVE  Inv'
<1> DEFINE fresh == [defaultPresenterState EXCEPT !.status = "running", !.step = FirstStep,
                                                  !.run = RunOf(q),
                                                  !.incident = request[q].bind]
           proof == Proof(q, baseline)
<1>1. CASE Refuse(q)
  BY <1>1, RefuseOK
<1>2. CASE /\ presenter' = bindExpectedActionKey(FirstStep, fresh, proof, incidents)
           /\ proved' = [s \in Steps |-> NoBasis]
           /\ forgotten' = FALSE
           /\ Answer(q)
  <2>1. /\ proof.incident \in Known \cup {NoIncident}
        /\ request[q].bind \in Known \cup {NoIncident}
    BY PerformedIs
  <2>2. RunOf(q) \in Runs
    BY RunIs
  <2>3. request[q].bind \in Nat /\ FirstStep \in Steps
    BY <2>1, StepsAre DEF Known, NoIncident
  <2>4. /\ fresh \in Presenter /\ fresh.key = Nothing /\ fresh.completed = {}
        /\ fresh.step = FirstStep /\ fresh.status = "running"
        /\ fresh.incident = request[q].bind
        /\ fresh.keyRun = Nothing /\ fresh.keyIncident = NoIncident /\ fresh.keyStep = NoStep
    BY <2>2, <2>3 DEF Presenter, defaultPresenterState, NoIncident
  <2> HIDE DEF fresh, proof
  <2>5. Bound(fresh)
    BY <2>4 DEF Bound
  <2>6. TypeOK
    BY DEF Inv
  <2>7. /\ presenter' \in Presenter /\ presenter'.completed = {}
        /\ presenter'.step = FirstStep /\ presenter'.status = "running"
        /\ presenter'.incident = request[q].bind /\ Bound(presenter')
    BY <1>2, <2>1, <2>3, <2>4, <2>5, <2>6, BindIs
  <2>8. RequestsOK' /\ incidents' = incidents
    BY <1>2, Answered DEF Answer
  <2>9. QED
    BY <1>2, <2>1, <2>7, <2>8, PresenterBegins
<1>3. QED
  BY <1>1, <1>2 DEF handleStart

LEMMA ContinueOK ==
    ASSUME Inv, NEW q \in Requests, request[q] # Nothing, NEW baseline \in BOOLEAN,
           handleContinue(q, baseline)
    PROVE  Inv'
<1>1. CASE Refuse(q)
  BY <1>1, RefuseOK
<1>2. CASE ~Refuse(q)
  <2>1. Answer(q)
    BY <1>2 DEF handleContinue
  <2>2. RequestsOK' /\ incidents' = incidents
    BY <2>1, Answered DEF Answer
  <2>3. QED
    BY <1>2, <2>2, PresenterGoesOn DEF handleContinue
<1>3. QED
  BY <1>1, <1>2

LEMMA HaltOK ==
    ASSUME Inv, NEW q \in Requests, handlePause(q) \/ handleResume(q) \/ handleAbort(q)
    PROVE  Inv'
<1>1. Answer(q) /\ proved' = proved /\ incidents' = incidents
  BY DEF handlePause, handleResume, handleAbort, Answer
<1>2. RequestsOK'
  BY <1>1, Answered
<1>3. forgotten \in BOOLEAN
  BY DEF Inv, TypeOK
<1>4. CASE presenter.status = "none"
  <2>1. presenter' = presenter /\ forgotten' = forgotten
    BY <1>3, <1>4 DEF handlePause, handleResume, handleAbort
  <2>2. QED
    BY <1>1, <1>2, <2>1, NothingChanges
<1>5. CASE presenter.status # "none"
  <2>1. \E status \in {"running", "paused", "aborted"} :
          \/ presenter' = [presenter EXCEPT !.status = status] /\ forgotten' = forgotten
          \/ presenter' = [Unbind(presenter) EXCEPT !.status = status] /\ forgotten' = TRUE
    BY <1>5 DEF handlePause, handleResume, handleAbort
  <2>2. QED
    BY <1>1, <1>2, <2>1, PresenterHalts
<1>6. QED
  BY <1>4, <1>5

LEMMA ResetOK ==
    ASSUME Inv, NEW q \in Requests, request[q] # Nothing, handleReset(q)
    PROVE  Inv'
<1>1. request[q].bind \in Known \cup {NoIncident}
  BY PerformedIs
<1>2. request[q].bind \in Nat /\ FirstStep \in Steps
  BY <1>1, StepsAre DEF Known, NoIncident
<1>3. presenter' = [defaultPresenterState EXCEPT !.status = "idle", !.step = FirstStep,
                                                 !.incident = request[q].bind]
  BY DEF handleReset
<1>4. /\ presenter' \in Presenter /\ presenter'.completed = {}
      /\ presenter'.step = FirstStep /\ presenter'.status = "idle"
      /\ presenter'.incident = request[q].bind
      /\ presenter'.key = Nothing /\ presenter'.keyRun = Nothing
      /\ presenter'.keyIncident = NoIncident /\ presenter'.keyStep = NoStep
  BY <1>2, <1>3 DEF Presenter, defaultPresenterState, NoIncident
<1>5. Bound(presenter')
  BY <1>4 DEF Bound
<1>6. RequestsOK' /\ incidents' = incidents
  BY Answered DEF handleReset, Answer
<1>7. QED
  BY <1>1, <1>4, <1>5, <1>6, PresenterBegins DEF handleReset

LEMMA RestartOK ==
    ASSUME Inv, Restart
    PROVE  Inv'
<1>1. incidents' = incidents /\ RequestsOK'
  BY DEF Restart, RequestsOK
<1>2. CASE UNCHANGED <<presenter, proved, forgotten>>
  BY <1>1, <1>2, NothingChanges
<1>3. CASE /\ presenter' = defaultPresenterState
           /\ proved' = [s \in Steps |-> NoBasis]
           /\ forgotten' = FALSE
  <2>1. /\ presenter' \in Presenter /\ presenter'.completed = {}
        /\ presenter'.step = NoStep /\ presenter'.status = "none"
        /\ presenter'.incident = NoIncident
        /\ presenter'.key = Nothing /\ presenter'.keyRun = Nothing
        /\ presenter'.keyIncident = NoIncident /\ presenter'.keyStep = NoStep
    BY <1>3 DEF Presenter, defaultPresenterState, NoIncident
  <2>2. Bound(presenter')
    BY <2>1 DEF Bound
  <2>3. QED
    BY <1>1, <1>3, <2>1, <2>2, PresenterBegins
<1>4. QED
  BY <1>2, <1>3 DEF Restart

LEMMA NextOK ==
    ASSUME Inv, [Next]_vars
    PROVE  Inv'
<1>1. CASE IncidentEvent
  BY <1>1, IncidentEventOK
<1>2. ASSUME NEW q \in Requests, NEW op \in Operations, NEW bind \in {NoIncident, getActive},
             Send(q, op, bind)
      PROVE  Inv'
  BY <1>2, SendOK
<1>3. ASSUME NEW q \in Requests, Perform(q)
      PROVE  Inv'
  <2>1. request[q] # Nothing
    BY <1>3 DEF Perform
  <2>2. CASE \E baseline \in BOOLEAN : handleStart(q, baseline)
    BY <2>1, <2>2, StartOK
  <2>3. CASE \E baseline \in BOOLEAN : handleContinue(q, baseline)
    BY <2>1, <2>3, ContinueOK
  <2>4. CASE handlePause(q) \/ handleResume(q) \/ handleAbort(q)
    BY <2>4, HaltOK
  <2>5. CASE handleReset(q)
    BY <2>1, <2>5, ResetOK
  <2>6. CASE Refuse(q)
    BY <2>6, RefuseOK
  <2>7. QED
    BY <1>3, <2>2, <2>3, <2>4, <2>5, <2>6 DEF Perform
<1>4. CASE Restart
  BY <1>4, RestartOK
<1>5. CASE UNCHANGED vars
  <2>1. UNCHANGED <<presenter, request, incidents, proved, forgotten>>
    BY <1>5 DEF vars
  <2>2. RequestsOK'
    BY <2>1 DEF Inv, TypeOK, RefsInv, RequestsOK, Known
  <2>3. QED
    BY <2>1, <2>2, NothingChanges
<1>6. QED
  BY <1>1, <1>2, <1>3, <1>4, <1>5 DEF Next

LEMMA Invariance == Spec => []Inv
<1>1. Init => Inv
  BY InitOK
<1>2. Inv /\ [Next]_vars => Inv'
  BY NextOK
<1>3. QED
  BY <1>1, <1>2, PTL DEF Spec

(***************************************************************************)
(* Theorems                                                                *)
(***************************************************************************)
\* Every variable has its type: no operation of presenter-mode.js leaves a state
\* that is not one, and correlation ids do not run out.
THEOREM TypeCorrect == Spec => []TypeOK
<1>1. Inv => TypeOK
  BY DEF Inv
<1>2. QED
  BY <1>1, Invariance, PTL

\* No step is reached before the earlier ones were completed, whichever requests
\* overtake each other during the snapshot of handlePresenterMutation.
THEOREM StepsInSequence == Spec => []InSequence
<1>1. Inv => InSequence
  BY DEF Inv
<1>2. QED
  BY <1>1, Invariance, PTL

\* The completed steps of a run whose binding was not given up are about one
\* action of one incident: bindExpectedActionKey hands the binding on.
THEOREM OneActionProved == Spec => []OneAction
<1>1. Inv => OneAction
  BY DEF Inv, LinkInv, OneAction
<1>2. QED
  BY <1>1, Invariance, PTL

\* A bound run moves on by the milestones of its own incident only.
THEOREM IncidentKept == Spec => []BoundToOneIncident
<1>1. Inv => BoundToOneIncident
  BY DEF Inv
<1>2. QED
  BY <1>1, Invariance, PTL

\* What the track shows as completed was approved, carried out and confirmed.
THEOREM Earned == Spec => []CompletedIsEarned
<1>1. Inv => CompletedIsEarned
  BY DEF Inv
<1>2. QED
  BY <1>1, Invariance, PTL

\* A run bound to an incident is never cut off from its recovery, by whatever
\* operations it got there: the binding the gate compares is always whole.
THEOREM RecoveryReachable == Spec => []BoundRecoveryIsSeen
<1>1. Inv => BoundRecoveryIsSeen
  <2>1. SUFFICES ASSUME Inv, RecoveryVerified, presenter.incident # NoIncident
                 PROVE  GateOpens
    BY DEF BoundRecoveryIsSeen
  <2> DEFINE p == presenter
             proof == [incident |-> getIncident(p.incident), baseline |-> FALSE]
             i == incidents[p.incident]
  <2>2. /\ p.step # NoStep /\ Track[p.step] = "recovery" /\ p.key # Nothing
        /\ p.keyIncident = p.incident /\ p.keyRun = p.run /\ p.keyStep = p.step
        /\ OnAction(p.step) /\ p.incident \in Known
    BY <2>1 DEF Inv, BindingInv, Bound, RecoveryVerified
  <2>3. p.key \in i.passed /\ i.proposals[Len(i.proposals)] = p.key
    <3>1. /\ p.key \in incidents[p.keyIncident].passed
          /\ incidents[p.keyIncident].proposals[Len(incidents[p.keyIncident].proposals)] = p.key
      BY <2>1 DEF RecoveryVerified
    <3>2. QED
      BY <2>2, <3>1
  <2>4. i.proposals # <<>>
    BY <2>1, <2>2, <2>3 DEF Inv, SoundInv, Sound
  <2>5. TrustedIncident(p, proof) = p.incident
    BY <2>1 DEF TrustedIncident, getIncident
  <2>6. ExpectedKey(p.step, p, proof, incidents) = p.key
    BY <2>1, <2>2, <2>3, <2>4, <2>5 DEF ExpectedKey
  <2>7. BindingFits(p.step, p, proof, incidents)
    BY <2>2, <2>5, <2>6 DEF BindingFits
  <2>8. Evidence(p.step, p.key, i, FALSE)
    BY <2>2, <2>3 DEF Evidence
  <2>9. QED
    BY <2>2, <2>5, <2>6, <2>7, <2>8 DEF GateOpens, resolveTrustedPresenterGate
<1>2. QED
  BY <1>1, Invariance, PTL
=============================================================================
