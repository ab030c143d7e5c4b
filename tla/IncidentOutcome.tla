-------------------------- MODULE IncidentOutcome --------------------------
(***************************************************************************)
(* What the incident record promises its reader: incidents come one at a   *)
(* time; each is closed once, for good; "recovered" is said of an incident *)
(* either after an assertion that followed its fix, or when it cleared up  *)
(* with no fix recorded as successful.                                     *)
(***************************************************************************)
EXTENDS Naturals, Sequences

VARIABLES
    outcome,    \* outcome[n] of the n-th incident, "open" at first
    acted,      \* incidents with an action recorded as successful
    verified    \* incidents with a post-action assertion

vars == <<outcome, acted, verified>>

Init == outcome = <<>> /\ acted = {} /\ verified = {}

IsOpen(n) == n \in DOMAIN outcome /\ outcome[n] = "open"

Begin ==
    /\ \A n \in DOMAIN outcome : ~IsOpen(n)
    /\ outcome' = Append(outcome, "open")
    /\ UNCHANGED <<acted, verified>>

Act(n) ==
    /\ IsOpen(n)
    /\ acted' = acted \cup {n}
    /\ UNCHANGED <<outcome, verified>>

Close(n, how) == IsOpen(n) /\ \E f \in how : outcome' = [outcome EXCEPT ![n] = f]

Verify(n) ==
    /\ n \in acted
    /\ Close(n, {"recovered", "partial_recovery"})
    /\ verified' = verified \cup {n}
    /\ UNCHANGED acted

ClearUp(n) ==
    /\ n \notin acted
    /\ Close(n, {"recovered"})
    /\ UNCHANGED <<acted, verified>>

\* The action that succeeded may be the one that now failed.
GiveUp(n) ==
    /\ Close(n, {"failed", "denied", "expired"})
    /\ acted' \in {acted, acted \ {n}}
    /\ UNCHANGED verified

Next == Begin \/ \E n \in DOMAIN outcome : Act(n) \/ Verify(n) \/ ClearUp(n) \/ GiveUp(n)

Spec == Init /\ [][Next]_vars
============================================================================
