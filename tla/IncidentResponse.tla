-------------------------- MODULE IncidentResponse --------------------------
(***************************************************************************)
(* How Mission Control keeps the record of an incident truthful while it is*)
(* being remediated: the break, fix and approval routes and the health poll*)
(* of server.js, runTool of copilot-tools.js, assertion-scheduler.js, and  *)
(* the persistence of incident-store.js, on top of the engine              *)
(* (IncidentTimeline) and the approval slot (ApprovalGate).                *)
(*                                                                         *)
(* Node runs a callback to its end, so an action is one callback; awaits   *)
(* (a fix that runs, a health check, a poll) end an action, and other      *)
(* callbacks run before the next one.  The cluster answers a health check  *)
(* as it likes.  incident-store.js writes the file after every engine call,*)
(* so between callbacks the file is the memory; a process that dies within *)
(* a callback leaves the calls made so far ("torn").                       *)
(***************************************************************************)
EXTENDS IncidentTimeline, ApprovalGate, Integers, Sequences, FiniteSets

CONSTANTS
    Scenarios,      \* scenario catalog; each has a health indicator
    Direct,         \* keys of recordOperatorDirectAction, fresh for each call
    MaxIncidents,   \* bound: incidents opened
    Stacking,       \* TRUE when break requests may say allowStacking
    Faults          \* "crash", "torn", "unreachable", "unreadable"

ASSUME ResponseAssumption ==
    /\ Actions = Direct \cup Tools
    /\ Direct \cap Tools = {}
    /\ Nothing \notin Tools \cup Turns
    /\ MaxIncidents \in Nat
    /\ Stacking \in BOOLEAN

VARIABLES
    incidents,  \* the records in order of activation, on disk and in memory
    approval,   \* securityState.pendingApproval
    calls,      \* approved tool calls whose handler runs
    fixing,     \* a /api/fix request that awaits resetDemoBaseline
    credit,     \* history: answers "approve" minus the runs let through on them
    checks,     \* post-action assertions with a timer or a running check
    stranded,   \* history: assertions whose check threw in this life of the server
    poll,       \* the incident a poll tick asks the cluster about, or 0
    started,    \* scenarios started since the last reset of the baseline
    server      \* "down", "starting" (the poll runs already) or "up"

vars == <<incidents, approval, credit, calls, fixing, checks, stranded, poll,
          started, server>>

Call == [action : Tools, incident : Nat]
Question == [action : Tools, turn : Turns, incident : 0..MaxIncidents]
Check == [incident : Nat, action : Actions, at : {"timer", "asking"}]

Readings ==
    {"active", "inactive"} \cup ({"unreachable", "unreadable"} \cap Faults)

NoCredit == [q \in Question |-> 0]

Init ==
    /\ incidents = <<>>
    /\ approval = NoApproval
    /\ credit = NoCredit
    /\ calls = {}
    /\ fixing = FALSE
    /\ checks = {}
    /\ stranded = {}
    /\ poll = 0
    /\ started = {}
    /\ server = "up"

\* getActive: the newest incident is the only one that can be open.
Active ==
    LET n == Len(incidents) IN IF n # 0 /\ Open(incidents[n]) THEN n ELSE 0

\* An engine call on incident n; without an incident there is none.
Store(n, i) == incidents' = IF n = 0 THEN incidents ELSE [incidents EXCEPT ![n] = i]

\* The callback makes these engine calls one after the other.
StoreAll(n, trail) == Store(n, trail[Len(trail)])

\* What is in memory only is gone.
Die ==
    /\ server' = "down"
    /\ approval' = NoApproval
    /\ credit' = NoCredit
    /\ calls' = {}
    /\ fixing' = FALSE
    /\ checks' = {}
    /\ stranded' = {}
    /\ poll' = 0

\* The process dies in the middle of a callback.
Torn(n, trail) ==
    /\ "torn" \in Faults
    /\ \E k \in 1..(Len(trail) - 1) : Store(n, trail[k])
    /\ Die

-----------------------------------------------------------------------------
(* assertion-scheduler.js                                                    *)

\* schedule(): the timer that goes with schedulePendingAssertion.  The caller
\* may name an incident that was closed meanwhile.
Timer(n, a) ==
    IF incidents[n].pending[a] = "waiting" THEN {}
    ELSE {[incident |-> n, action |-> a, at |-> "timer"]}

\* runNow up to its await.
CheckDue(c) ==
    /\ c.at = "timer"
    /\ IF Open(incidents[c.incident])
       THEN /\ checks' = (checks \ {c}) \cup {[c EXCEPT !.at = "asking"]}
            /\ UNCHANGED incidents
       ELSE /\ checks' = checks \ {c}
            /\ Store(c.incident, resolvePendingAssertion(incidents[c.incident], c.action))
    /\ UNCHANGED <<approval, credit, calls, fixing, stranded, poll, server, started>>

\* Mutant of CheckAnswered: an unreachable cluster is not asked again.
CheckAnsweredOnce(c, reading) ==
    /\ c.at = "asking"
    /\ checks' = checks \ {c}
    /\ IF reading \in {"unreachable", "unreadable"} THEN UNCHANGED incidents
       ELSE Store(c.incident,
                  recordPostActionAssertion(incidents[c.incident], c.action,
                                            reading = "inactive"))
    /\ stranded' = IF reading = "unreadable" THEN stranded \cup {<<c.incident, c.action>>}
                   ELSE stranded
    /\ UNCHANGED <<approval, credit, calls, fixing, poll, server, started>>

\* runNow after it: retry later, assert, or, when the answer does not parse, end
\* in the catch, which leaves the descriptor waiting with no timer.
CheckAnswered(c, reading) ==
    /\ c.at = "asking"
    /\ \/ /\ reading = "unreachable"
          /\ checks' = (checks \ {c}) \cup {[c EXCEPT !.at = "timer"]}
          /\ UNCHANGED <<incidents, stranded>>
       \/ /\ reading = "unreadable"
          /\ checks' = checks \ {c}
          /\ stranded' = stranded \cup {<<c.incident, c.action>>}
          /\ UNCHANGED incidents
       \/ /\ reading \in {"active", "inactive"}
          /\ checks' = checks \ {c}
          /\ Store(c.incident,
                   recordPostActionAssertion(incidents[c.incident], c.action,
                                             reading = "inactive"))
          /\ UNCHANGED stranded
    /\ UNCHANGED <<approval, credit, calls, fixing, poll, server, started>>

-----------------------------------------------------------------------------
(* Break and fix routes                                                      *)

\* startDemoScenario returned ok, and activate keeps an incident that is open.
Break(s) ==
    /\ server = "up"
    /\ started = {} \/ Stacking
    /\ started' = started \cup {s}
    /\ IF Active # 0 THEN UNCHANGED incidents
       ELSE Len(incidents) < MaxIncidents /\ incidents' = Append(incidents, Fresh(s))
    /\ UNCHANGED <<approval, credit, calls, fixing, checks, stranded, poll, server>>

Fix ==
    /\ server = "up" /\ ~fixing
    /\ fixing' = TRUE
    /\ UNCHANGED <<incidents, approval, credit, calls, checks, stranded, poll, server, started>>

\* The engine calls of recordOperatorDirectAction.
FixTrail(i, a, success) ==
    LET proposed == proposeAction(i, a)
        approved == approveAction(proposed, a)
        executed == recordActionResult(approved, a, success)
    IN  IF success
        THEN <<proposed, approved, executed, schedulePendingAssertion(executed, a)>>
        ELSE <<proposed, approved, executed>>

\* resetDemoBaseline returned: what it did goes to the incident active by now.
FixReturns ==
    /\ fixing
    /\ \E success \in BOOLEAN :
          /\ started' = IF success THEN {} ELSE started
          /\ \/ /\ Active = 0
                /\ fixing' = FALSE
                /\ UNCHANGED <<incidents, approval, credit, calls, checks, stranded, poll, server>>
             \/ \E a \in Direct :
                   LET trail == FixTrail(incidents[Active], a, success)
                   IN  /\ Active # 0 /\ a \notin incidents[Active].proposed
                       /\ \/ /\ StoreAll(Active, trail)
                             /\ fixing' = FALSE
                             /\ checks' = checks
                                   \cup (IF success THEN Timer(Active, a) ELSE {})
                             /\ UNCHANGED <<approval, credit, calls, stranded, poll, server>>
                          \/ Torn(Active, trail)

-----------------------------------------------------------------------------
(* The agent's tool calls                                                    *)

\* runTool up to the handler, for the incident active now.  A refusal records
\* the action the slot asks about as proposed, be it this call's or not.
CallTool(t, a) ==
    /\ server = "up"
    /\ approval' = evaluateToolAccess(approval, a, t, Active)
    /\ IF Granted(approval, a, t, Active)
       THEN /\ calls' = calls \cup {[action |-> a, incident |-> Active]}
            /\ credit' = [credit EXCEPT ![[action |-> a, turn |-> t, incident |-> Active]] = @ - 1]
            /\ UNCHANGED incidents
       ELSE /\ Store(Active, proposeAction(incidents[Active], approval'.action))
            /\ UNCHANGED <<calls, credit>>
    /\ UNCHANGED <<fixing, checks, stranded, poll, server, started>>

ToolTrail(i, a, success) ==
    LET executed == recordActionResult(i, a, success)
    IN  IF success THEN <<executed, schedulePendingAssertion(executed, a)>> ELSE <<executed>>

\* The handler returned or threw: the result goes to the incident of the call.
ToolReturns(c) ==
    \/ /\ c.incident = 0
       /\ calls' = calls \ {c}
       /\ UNCHANGED <<incidents, approval, credit, fixing, checks, stranded, poll, server, started>>
    \/ /\ c.incident # 0
       /\ \E success \in BOOLEAN :
            LET n == c.incident
                trail == ToolTrail(incidents[n], c.action, success)
            IN  \/ /\ StoreAll(n, trail)
                   /\ calls' = calls \ {c}
                   /\ checks' = checks \cup (IF success THEN Timer(n, c.action) ELSE {})
                   /\ UNCHANGED <<approval, credit, fixing, stranded, poll, server, started>>
                \/ Torn(n, trail) /\ UNCHANGED started

-----------------------------------------------------------------------------
(* The approval routes                                                       *)

AskedBy(p) == [action |-> p.action, turn |-> p.turn, incident |-> p.incident]

\* Ten minutes pass, APPROVAL_TTL_MS.
ApprovalExpires ==
    /\ approval.status # "none" /\ ~approval.expired
    /\ approval' = [approval EXCEPT !.expired = TRUE]
    /\ UNCHANGED <<incidents, credit, calls, fixing, checks, stranded, poll, server, started>>

\* An earlier approval that nobody used has lapsed.
Approve ==
    /\ server = "up" /\ approval.status = "pending"
    /\ approval' = approvePendingApproval(approval, Active)
    /\ IF Answerable(approval, Active)
       THEN /\ Store(Active, approveAction(incidents[Active], approval.action))
            /\ credit' = [NoCredit EXCEPT ![AskedBy(approval)] = 1]
       ELSE UNCHANGED <<incidents, credit>>
    /\ UNCHANGED <<calls, fixing, checks, stranded, poll, server, started>>

Deny ==
    /\ server = "up" /\ approval.status = "pending"
    /\ approval' = denyPendingApproval(approval, Active)
    /\ IF Answerable(approval, Active)
       THEN Store(Active, denyAction(incidents[Active], approval.action))
       ELSE UNCHANGED incidents
    /\ UNCHANGED <<credit, calls, fixing, checks, stranded, poll, server, started>>

-----------------------------------------------------------------------------
(* pollActiveIncidentOnce; createPoller never runs two ticks at a time       *)

Overdue == approval.status = "pending" /\ approval.expired

\* A question nobody answered in time counts against its own incident.
PollTick ==
    /\ server \in {"starting", "up"} /\ poll = 0
    /\ LET n == IF Overdue THEN approval.incident ELSE 0
       IN  Store(n, expireAction(incidents[n], approval.action))
    /\ approval' = IF Overdue THEN NoApproval ELSE approval
    /\ poll' = Active'
    /\ UNCHANGED <<credit, calls, fixing, checks, stranded, server, started>>

\* Mutant of Recovers: the poll does not wait for the assertion of a fix.
RecoversAtOnce(i) == i.impact

\* The poll declares recovery where it saw the impact and no assertion is due.
Recovers(i) == i.impact /\ ~hasPendingAssertion(i)

\* The engine calls of a tick whose incident is still the active one.
PollTrail(i, reading) ==
    CASE reading = "active" -> <<recordImpact(i)>>
      [] reading = "inactive" /\ Recovers(i) ->
            <<recordRecovery(i), finalize(recordRecovery(i), "recovered")>>
      [] OTHER -> <<i>>

PollAnswered(reading) ==
    /\ poll # 0
    /\ LET i == incidents[poll]
           trail == IF Active = poll THEN PollTrail(i, reading) ELSE <<i>>
       IN  \/ /\ StoreAll(poll, trail)
              /\ poll' = 0
              /\ UNCHANGED <<approval, credit, calls, fixing, checks, stranded, server, started>>
           \/ Torn(poll, trail) /\ UNCHANGED started

-----------------------------------------------------------------------------
(* The process                                                               *)

Crash ==
    /\ "crash" \in Faults /\ server # "down"
    /\ Die
    /\ UNCHANGED <<incidents, started>>

Restart ==
    /\ server = "down"
    /\ server' = "starting"
    /\ UNCHANGED <<incidents, approval, credit, calls, fixing, checks, stranded, poll, started>>

\* Mutant of Rehydrate: what the file says is pending stays in the file.
RehydrateNothing ==
    /\ server = "starting"
    /\ server' = "up"
    /\ UNCHANGED <<incidents, approval, credit, calls, fixing, checks, stranded, poll, started>>

\* rehydrate(), after the preflight checks and before the routes listen.
Rehydrate ==
    /\ server = "starting"
    /\ server' = "up"
    /\ checks' = {c \in [incident : DOMAIN incidents, action : Actions, at : {"timer"}] :
                    /\ Open(incidents[c.incident])
                    /\ incidents[c.incident].pending[c.action] = "waiting"}
    /\ UNCHANGED <<incidents, approval, credit, calls, fixing, stranded, poll, started>>

Next ==
    \/ \E s \in Scenarios : Break(s)
    \/ Fix \/ FixReturns
    \/ \E t \in Turns, a \in Tools : CallTool(t, a)
    \/ \E c \in calls : ToolReturns(c)
    \/ ApprovalExpires \/ Approve \/ Deny
    \/ \E c \in checks : CheckDue(c) \/ \E r \in Readings : CheckAnswered(c, r)
    \/ PollTick \/ \E r \in Readings : PollAnswered(r)
    \/ Crash \/ Restart \/ Rehydrate

Spec == Init /\ [][Next]_vars

\* Timers fire, and a cluster that is asked again and again answers again; a
\* server that went down is started again.
FairSpec ==
    /\ Spec
    /\ WF_vars(Restart) /\ SF_vars(Rehydrate)
    /\ \A n \in 1..MaxIncidents, a \in Actions :
          LET timer == [incident |-> n, action |-> a, at |-> "timer"]
              asking == [incident |-> n, action |-> a, at |-> "asking"]
          IN  /\ SF_vars(timer \in checks /\ CheckDue(timer))
              /\ SF_vars(asking \in checks
                            /\ \E r \in {"active", "inactive"} : CheckAnswered(asking, r))

-----------------------------------------------------------------------------
(* Properties                                                                *)

\* Every variable has its type.
TypeOK ==
    /\ incidents \in Seq(Incident(Scenarios))
    /\ approval \in Approval
    /\ credit \in [Question -> Int]
    /\ calls \subseteq Call
    /\ fixing \in BOOLEAN
    /\ checks \subseteq Check
    /\ stranded \subseteq Nat \X Actions
    /\ poll \in Nat
    /\ started \subseteq Scenarios
    /\ server \in {"down", "starting", "up"}

\* "a fix is never marked successful without checking": an incident that is
\* recovered was seen broken and cleared up with no fix recorded as successful,
\* or an assertion of a fix confirmed it, whatever the poll saw meanwhile.
RecoveredIsTruthful ==
    \A n \in DOMAIN incidents :
        LET i == incidents[n]
        IN  i.final = "recovered" =>
                /\ i.recovery
                /\ i.asserted # {} \/ (i.impact /\ i.succeeded = {})

\* A mutating tool runs only on an approval of its own: the operator approved
\* this tool call, for this turn and this incident, since the server came up, and
\* no earlier run used that approval.  A run and a fix on record belong to an
\* incident whose timeline says that they were approved.
RunsOnlyApproved ==
    /\ \A q \in Question : credit[q] >= 0
    /\ \A c \in calls : c.incident # 0 => c.action \in incidents[c.incident].approved
    /\ \A n \in DOMAIN incidents : incidents[n].succeeded \subseteq incidents[n].approved

Waits(n, a) == n \in DOMAIN incidents /\ incidents[n].pending[a] = "waiting"

\* Across restarts, retries and repeated calls, a descriptor that waits in an
\* open incident is driven by one timer or running check, never none or two.
\* One whose check threw has none: no later fix of the same action brings it back
\* while this server runs, the rehydration of the next one does.
AssertionsDriven ==
    server = "up" =>
        \A n \in DOMAIN incidents, a \in Actions :
            Open(incidents[n]) /\ Waits(n, a) =>
                Cardinality({c \in checks : c.incident = n /\ c.action = a})
                    = IF <<n, a>> \in stranded THEN 0 ELSE 1

\* The records implement the promise made to their reader.
Outcome == INSTANCE IncidentOutcome WITH
    outcome <- [n \in DOMAIN incidents |-> incidents[n].final],
    acted <- {n \in DOMAIN incidents : incidents[n].succeeded # {}},
    verified <- {n \in DOMAIN incidents : incidents[n].asserted # {}}

OutcomeSpec == Outcome!Spec

\* However often the server restarts and the cluster cannot be reached, an
\* assertion that waits is carried out, or its incident is closed without it,
\* unless its check throws in the life of the server that is to make it.
AssertionEventuallyRuns ==
    \A n \in 1..MaxIncidents, a \in Actions :
        Waits(n, a) ~> ~Waits(n, a) \/ <<n, a>> \in stranded

\* "Every breakable scenario applied via Mission Control is tracked as a single,
\* per-run incident": what the break route started has an incident of its own.
EveryBreakIsTracked ==
    \A s \in started : \E n \in DOMAIN incidents : incidents[n].scenario = s

\* The timeline records "approval, denial, or expiry": what the agent proposed
\* in an open incident is approved, or the operator is still asked about it.
UndecidedIsPending ==
    \A n \in DOMAIN incidents :
        Open(incidents[n]) =>
            \A a \in (incidents[n].proposed \ incidents[n].approved) \cap Tools :
                approval.status # "none" /\ approval.action = a
=============================================================================
