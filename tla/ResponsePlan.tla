---------------------------- MODULE ResponsePlan ----------------------------
(***************************************************************************)
(* scripts/bootstrap-sre-agent-response-plan.ps1 against the agent's        *)
(* data-plane API: a custom agent, an incident filter that routes to it and *)
(* a handler that binds the two, and the quickstart plan that Azure may     *)
(* have created and that would route the same incidents a second time.      *)
(*                                                                         *)
(* The API is a preview.  A request may fail with or without effect, a      *)
(* write may be accepted and some of its fields ignored, a deletion may be  *)
(* accepted and do nothing, a list may be answered in a form that the       *)
(* script does not know, which it takes for an empty one.  The script stops *)
(* at the first failure it sees, and the operator runs it again.            *)
(***************************************************************************)
EXTENDS Integers

CONSTANTS
    MaxFaults,      \* how often the API misbehaves
    MaxChanges      \* how often the operator wants something else

ASSUME PlanAssumption == MaxFaults \in Nat /\ MaxChanges \in Nat

VARIABLES
    plan,           \* what the data plane holds of each part
    quickstart,     \* a conflicting quickstart filter is there
    wish,           \* the script's -Teardown switch, or not
    step,           \* where the script is
    faults, changes,
    misread,        \* history: this run took a list of the filters that it could
                    \* not read for one without the quickstart plan
    ignored         \* history: an accepted deletion of a part had no effect

planVars == <<plan, quickstart, wish, step, faults, changes, misread, ignored>>

Parts == {"agent", "filter", "handler"}

\* A part is absent, as the script would write it, or anything else.
PartStates == {"absent", "other", "wanted"}

Bootstrapping == {"probe", "putAgent", "putFilter", "putHandler", "findQuickstart",
                  "deleteQuickstart", "verifyAbsence"}
TearingDown == {"dropHandler", "dropFilter", "dropAgent"}
Ended == {"idle", "failed", "done"}   \* exit 1, exit 0

Start == IF wish = "bootstrap" THEN "probe" ELSE "dropHandler"

PlanInit ==
    /\ plan = [p \in Parts |-> "absent"]
    /\ quickstart \in BOOLEAN
    /\ wish \in {"bootstrap", "teardown"}
    /\ step = "idle"
    /\ faults = 0
    /\ changes = 0
    /\ misread = FALSE
    /\ ignored = FALSE

-----------------------------------------------------------------------------
Misbehaves ==
    /\ faults < MaxFaults
    /\ faults' = faults + 1

\* The script throws, or reports a structured failure, and exits with 1.
Fail == step' = "failed"

\* Test-ResponsePlanApiSupported: nothing is written unless both lists answer.
Probe ==
    /\ step = "probe"
    /\ \/ step' = "putAgent" /\ UNCHANGED faults
       \/ Misbehaves /\ Fail
    /\ UNCHANGED <<plan, quickstart, wish, changes, misread, ignored>>

\* What a run that fails at a part may leave of it.  An agent that matches is
\* never written; a list that failed lists nothing, unnoticed, so that a filter
\* or a handler that matched is written again.
Left(p) ==
    IF p = "agent" /\ plan[p] = "wanted" THEN {"wanted"}
    ELSE {plan[p], "other", "wanted"}

\* Mutant of Set: an accepted write counts as the part being configured.
SetTrustingWrite(p, at, next) ==
    /\ step = at
    /\ \/ /\ plan' = [plan EXCEPT ![p] = "wanted"]
          /\ step' = next
          /\ UNCHANGED faults
       \/ /\ Misbehaves /\ step' = next
          /\ \E v \in {plan[p], "other"} : plan' = [plan EXCEPT ![p] = v]
    /\ UNCHANGED <<quickstart, wish, changes, misread, ignored>>

\* Set-CustomAgent-, Set-IncidentFilter- and Set-IncidentHandlerDataPlaneIdempotent:
\* the part is left alone when it matches, otherwise written and read back; a
\* run goes on only when what it read is what it wanted.
Set(p, at, next) ==
    /\ step = at
    /\ \/ /\ plan' = [plan EXCEPT ![p] = "wanted"]
          /\ step' = next
          /\ UNCHANGED faults
       \/ /\ Misbehaves /\ Fail
          /\ \E v \in Left(p) : plan' = [plan EXCEPT ![p] = v]
    /\ UNCHANGED <<quickstart, wish, changes, misread, ignored>>

\* The first list after the writes: one that fails stops the script, one that
\* succeeds with content it cannot read is empty to Get-ListItems.
FindQuickstart ==
    /\ step = "findQuickstart"
    /\ \/ /\ step' = IF quickstart THEN "deleteQuickstart" ELSE "done"
          /\ UNCHANGED <<faults, misread>>
       \/ Misbehaves /\ Fail /\ UNCHANGED misread
       \/ Misbehaves /\ step' = "done" /\ misread' = TRUE
    /\ UNCHANGED <<plan, quickstart, wish, changes, ignored>>

\* A deletion that fails, with or without effect, makes the plan unremovable;
\* one that is accepted is checked, whatever it did.
DeleteQuickstart ==
    /\ step = "deleteQuickstart"
    /\ \/ quickstart' = FALSE /\ step' = "verifyAbsence" /\ UNCHANGED faults
       \/ Misbehaves /\ step' = "verifyAbsence" /\ UNCHANGED quickstart
       \/ Misbehaves /\ Fail /\ (quickstart' = FALSE \/ UNCHANGED quickstart)
    /\ UNCHANGED <<plan, wish, changes, misread, ignored>>

\* The second list: one that fails, or cannot be read, lists nothing that is
\* still present.
VerifyAbsence ==
    /\ step = "verifyAbsence"
    /\ \/ /\ step' = IF quickstart THEN "failed" ELSE "done"
          /\ UNCHANGED <<faults, misread>>
       \/ Misbehaves /\ step' = "done" /\ misread' = TRUE
    /\ UNCHANGED <<plan, quickstart, wish, changes, ignored>>

\* Mutant of Drop: a part that is already gone stops the teardown.
DropPresent(p, at, next) ==
    /\ step = at
    /\ \/ /\ plan' = [plan EXCEPT ![p] = "absent"]
          /\ step' = IF plan[p] = "absent" THEN "failed" ELSE next
          /\ UNCHANGED <<faults, ignored>>
       \/ /\ Misbehaves
          /\ Fail /\ plan' \in {plan, [plan EXCEPT ![p] = "absent"]}
          /\ UNCHANGED ignored
    /\ UNCHANGED <<quickstart, wish, changes, misread>>

\* Invoke-SreAgentResponsePlanTeardown: a deletion, for which 404 is success
\* and nothing is read back.
Drop(p, at, next) ==
    /\ step = at
    /\ \/ /\ plan' = [plan EXCEPT ![p] = "absent"]
          /\ step' = next
          /\ UNCHANGED <<faults, ignored>>
       \/ /\ Misbehaves
          /\ \/ Fail /\ UNCHANGED <<plan, ignored>>
             \/ Fail /\ plan' = [plan EXCEPT ![p] = "absent"] /\ UNCHANGED ignored
             \/ step' = next /\ ignored' = TRUE /\ UNCHANGED plan
    /\ UNCHANGED <<quickstart, wish, changes, misread>>

Bootstrap ==
    \/ Probe
    \/ Set("agent", "putAgent", "putFilter")
    \/ Set("filter", "putFilter", "putHandler")
    \/ Set("handler", "putHandler", "findQuickstart")
    \/ FindQuickstart
    \/ DeleteQuickstart
    \/ VerifyAbsence

\* Mutant of Teardown: the custom agent goes first.
TeardownAgentFirst ==
    \/ Drop("agent", "dropHandler", "dropFilter")
    \/ Drop("filter", "dropFilter", "dropAgent")
    \/ Drop("handler", "dropAgent", "done")

\* The handler goes first, so that nothing routes to what is half removed.
Teardown ==
    \/ Drop("handler", "dropHandler", "dropFilter")
    \/ Drop("filter", "dropFilter", "dropAgent")
    \/ Drop("agent", "dropAgent", "done")

\* The operator runs the script, again when it failed, from the start.
Rerun ==
    /\ step \in {"idle", "failed"}
    /\ step' = Start
    /\ misread' = FALSE
    /\ UNCHANGED <<plan, quickstart, wish, faults, changes, ignored>>

\* Between runs the operator turns to the other script, or changes what the
\* agent and the filter are to say; the handler only binds their names.
ChangeWish ==
    /\ step \in Ended
    /\ changes < MaxChanges
    /\ changes' = changes + 1
    /\ \/ /\ wish' = IF wish = "bootstrap" THEN "teardown" ELSE "bootstrap"
          /\ UNCHANGED plan
       \/ /\ plan' = [p \in Parts |->
                         IF p # "handler" /\ plan[p] = "wanted" THEN "other" ELSE plan[p]]
          /\ UNCHANGED wish
    /\ step' = "idle"
    /\ UNCHANGED <<quickstart, faults, misread, ignored>>

PlanNext == Bootstrap \/ Teardown \/ Rerun \/ ChangeWish

PlanSpec == PlanInit /\ [][PlanNext]_planVars

\* The script goes on, and the operator does not give up.
PlanFairness == WF_planVars(Bootstrap \/ Teardown \/ Rerun)

-----------------------------------------------------------------------------
PlanTypeOK ==
    /\ plan \in [Parts -> PartStates]
    /\ quickstart \in BOOLEAN
    /\ wish \in {"bootstrap", "teardown"}
    /\ step \in Bootstrapping \cup TearingDown \cup Ended
    /\ faults \in 0..MaxFaults
    /\ changes \in 0..MaxChanges
    /\ misread \in BOOLEAN
    /\ ignored \in BOOLEAN

\* Whichever requests failed and wherever earlier runs stopped, a bootstrap
\* that reports success has configured all three parts as wanted.  It has also
\* removed a quickstart plan that it could see: the code promises nothing when
\* one of its two lists could not be read, as it takes a list in an unknown form
\* (lines 604-616) or a failed second list (line 1144) for one without the plan.
PlanIsRouted ==
    step = "done" /\ wish = "bootstrap" =>
        /\ \A p \in Parts : plan[p] = "wanted"
        /\ quickstart => misread

\* At no moment of a bootstrap or a teardown, failed and repeated in any
\* order, does a handler or a filter refer to a part that is not there, provided
\* that no deletion of a part was accepted without effect: the teardown reads
\* nothing back, and goes on to what that part refers to.
NothingRoutesNowhere ==
    ~ignored =>
        /\ plan["handler"] # "absent" => plan["filter"] # "absent"
        /\ plan["filter"] # "absent" => plan["agent"] # "absent"

\* Once the API behaves and the operator has settled on a wish, repeating the
\* script ends with success.  With PlanIsRouted that is a bootstrap's wish
\* fulfilled; of a teardown it says that all parts are gone, unless a deletion
\* was ever accepted without effect, after which nothing more is required.
PlanConverges ==
    <>[](step = "done" /\ (wish = "teardown" /\ ~ignored =>
                              \A p \in Parts : plan[p] = "absent"))
=============================================================================
