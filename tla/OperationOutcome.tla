-------------------------- MODULE OperationOutcome --------------------------
(***************************************************************************)
(* What operation-lifecycle.js promises about a long-running operation:    *)
(* one outcome, which never changes; `completed` only after the process    *)
(* ended with exit code 0 and `failed` only after it did not; `cancelled`  *)
(* never once the server has seen the process exit.                        *)
(***************************************************************************)
CONSTANT Ops

VARIABLES
    outcome,    \* "none" before the operation exists
    exit,       \* of its process: "alive", then "zero" or "other"
    seen        \* the server knows that the process exited

vars == <<outcome, exit, seen>>

Init ==
    /\ outcome = [o \in Ops |-> "none"]
    /\ exit = [o \in Ops |-> "alive"]
    /\ seen = [o \in Ops |-> FALSE]

Start(o) ==
    /\ outcome[o] = "none"
    /\ outcome' = [outcome EXCEPT ![o] = "running"]
    /\ UNCHANGED <<exit, seen>>

\* The process cannot even be spawned.
StartFails(o) ==
    /\ outcome[o] = "none"
    /\ outcome' = [outcome EXCEPT ![o] = "failed"]
    /\ exit' = [exit EXCEPT ![o] = "other"]
    /\ seen' = [seen EXCEPT ![o] = TRUE]

End(o) ==
    /\ outcome[o] # "none" /\ exit[o] = "alive"
    /\ \E c \in {"zero", "other"} : exit' = [exit EXCEPT ![o] = c]
    /\ UNCHANGED <<outcome, seen>>

See(o) ==
    /\ exit[o] # "alive" /\ ~seen[o]
    /\ seen' = [seen EXCEPT ![o] = TRUE]
    /\ UNCHANGED <<outcome, exit>>

Finish(o) ==
    /\ outcome[o] = "running" /\ seen[o]
    /\ outcome' = [outcome EXCEPT ![o] = IF exit[o] = "zero" THEN "completed" ELSE "failed"]
    /\ UNCHANGED <<exit, seen>>

Cancel(o) ==
    /\ outcome[o] = "running" /\ ~seen[o]
    /\ outcome' = [outcome EXCEPT ![o] = "cancelled"]
    /\ UNCHANGED <<exit, seen>>

Next ==
    \E o \in Ops :
        \/ Start(o) \/ StartFails(o) \/ End(o) \/ See(o) \/ Finish(o) \/ Cancel(o)

Spec == Init /\ [][Next]_vars
=============================================================================
