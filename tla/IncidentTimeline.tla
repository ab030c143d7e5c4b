-------------------------- MODULE IncidentTimeline --------------------------
(***************************************************************************)
(* tools/mission-control/incident-timeline.js: the engine that keeps the   *)
(* record of one incident.  Each operator maps a record to the record that *)
(* the function of the same name leaves behind.                            *)
(*                                                                         *)
(* record() merges a milestone with an earlier one of the same dedupeKey,  *)
(* so a milestone is there or it is not: milestones of one kind are the set*)
(* of the actions they are about.  Sequence numbers, timestamps, evidence  *)
(* and root cause steer nothing and are left out, as are the milestones    *)
(* "denied" and "expired", which come together with the final state of     *)
(* that name.                                                              *)
(***************************************************************************)
CONSTANT Actions    \* actionKeys

Finals == {"recovered", "partial_recovery", "failed", "denied", "expired"}

Incident(Scenarios) ==
    [scenario : Scenarios,
     final : {"open"} \cup Finals,
     impact : BOOLEAN,                  \* impact_detected
     recovery : BOOLEAN,
     proposed : SUBSET Actions,
     approved : SUBSET Actions,
     succeeded : SUBSET Actions,        \* action_executed with success: true
     asserted : SUBSET Actions,         \* post_action_assertion
     pending : [Actions -> {"none", "waiting", "resolved"}]]

\* activate, when no incident is open.
Fresh(s) ==
    [scenario |-> s, final |-> "open", impact |-> FALSE, recovery |-> FALSE,
     proposed |-> {}, approved |-> {}, succeeded |-> {}, asserted |-> {},
     pending |-> [a \in Actions |-> "none"]]

Open(i) == i.final = "open"

\* Mutant of finalize: the last verdict wins.
finalizeAgain(i, f) ==
    [i EXCEPT !.final = f,
              !.pending = [a \in Actions |-> IF @[a] = "waiting" THEN "resolved" ELSE @[a]]]

\* The first verdict stays, and nothing is left to assert.
finalize(i, f) ==
    IF Open(i)
    THEN [i EXCEPT !.final = f,
                   !.pending = [a \in Actions |-> IF @[a] = "waiting" THEN "resolved" ELSE @[a]]]
    ELSE i

recordImpact(i) == IF Open(i) THEN [i EXCEPT !.impact = TRUE] ELSE i

recordRecovery(i) == IF Open(i) THEN [i EXCEPT !.recovery = TRUE] ELSE i

proposeAction(i, a) == IF Open(i) THEN [i EXCEPT !.proposed = @ \cup {a}] ELSE i

approveAction(i, a) ==
    IF Open(i) /\ a \in i.proposed THEN [i EXCEPT !.approved = @ \cup {a}] ELSE i

denyAction(i, a) == IF a \in i.proposed THEN finalize(i, "denied") ELSE i

expireAction(i, a) ==
    IF a \in i.proposed \ i.approved THEN finalize(i, "expired") ELSE i

\* Mutant of recordActionResult: a final state the engine does not know.
recordActionResultError(i, a, success) ==
    IF Open(i) /\ a \in i.proposed
    THEN IF success THEN [i EXCEPT !.succeeded = @ \cup {a}]
         ELSE finalize([i EXCEPT !.succeeded = @ \ {a}], "error")
    ELSE i

\* A failure takes the place of an earlier success of the same action.
recordActionResult(i, a, success) ==
    IF Open(i) /\ a \in i.proposed
    THEN IF success THEN [i EXCEPT !.succeeded = @ \cup {a}]
         ELSE finalize([i EXCEPT !.succeeded = @ \ {a}], "failed")
    ELSE i

hasPendingAssertion(i) == i.succeeded \ i.asserted # {}

schedulePendingAssertion(i, a) ==
    IF Open(i) /\ i.pending[a] = "none" THEN [i EXCEPT !.pending[a] = "waiting"] ELSE i

resolvePendingAssertion(i, a) ==
    IF i.pending[a] = "waiting" THEN [i EXCEPT !.pending[a] = "resolved"] ELSE i

recordPostActionAssertion(i, a, passed) ==
    IF Open(i)
    THEN LET asserted == [resolvePendingAssertion(i, a) EXCEPT !.asserted = @ \cup {a}]
         IN  IF passed THEN finalize(recordRecovery(asserted), "recovered")
             ELSE finalize(asserted, "partial_recovery")
    ELSE i
=============================================================================
