---------------------------- MODULE ApprovalGate ----------------------------
(***************************************************************************)
(* tools/mission-control/security-policy.js: the one slot                  *)
(* securityState.pendingApproval through which every mutating tool of the  *)
(* Copilot agent must pass.  An operator maps the slot to what the function*)
(* of the same name leaves in it.                                          *)
(*                                                                         *)
(* An action stands for the signature of a tool and its parameters, a      *)
(* session for one chat turn, and an incident is its number, 0 for none.   *)
(* Whether expiresAt has passed is a flag, which time sets.                *)
(***************************************************************************)
EXTENDS Naturals

CONSTANTS
    Tools,      \* signatures of approval-required tool calls
    Turns,      \* sessionIds
    Nothing     \* null

NoApproval ==
    [status |-> "none", action |-> Nothing, turn |-> Nothing, incident |-> 0,
     expired |-> FALSE]

NewApproval(a, t, n) ==
    [status |-> "pending", action |-> a, turn |-> t, incident |-> n, expired |-> FALSE]

Approval ==
    {NoApproval}
    \cup [status : {"pending", "approved"}, action : Tools, turn : Turns,
          incident : Nat, expired : BOOLEAN]

\* An approval that lets the call of `a` in turn t, incident n, run.
Granted(p, a, t, n) ==
    p.status = "approved" /\ ~p.expired
    /\ p.action = a /\ p.turn = t /\ p.incident = n

\* Mutant of evaluateToolAccess: the grant stays in the slot.
evaluateToolAccessKept(p, a, t, n) ==
    IF Granted(p, a, t, n) \/ (p.status = "pending" /\ ~p.expired) THEN p
    ELSE NewApproval(a, t, n)

\* A grant is used up; an unexpired question stays, whoever asks; anything
\* else, a grant for another call included, makes room for a new question.
evaluateToolAccess(p, a, t, n) ==
    CASE Granted(p, a, t, n) -> NoApproval
      [] p.status = "pending" /\ ~p.expired -> p
      [] OTHER -> NewApproval(a, t, n)

\* The operator names the pending question, and is answered in the context of
\* the incident n that is active by then.
Answerable(p, n) == p.status = "pending" /\ ~p.expired /\ p.incident = n

approvePendingApproval(p, n) ==
    CASE p.status = "pending" /\ p.expired -> NoApproval
      [] Answerable(p, n) -> [p EXCEPT !.status = "approved"]
      [] OTHER -> p

denyPendingApproval(p, n) ==
    IF (p.status = "pending" /\ p.expired) \/ Answerable(p, n) THEN NoApproval ELSE p
=============================================================================
