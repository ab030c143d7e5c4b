------------------------- MODULE OperationLifecycle -------------------------
(***************************************************************************)
(* tools/mission-control/operation-lifecycle.js and the routes of server.js*)
(* that own it: the records of deploy, destroy and validate operations, the*)
(* pwsh child of each, and the Server-Sent-Events stream of its log.       *)
(*                                                                         *)
(* Node runs one callback at a time, so every action is one callback or    *)
(* one request handler.  What interleaves are the callbacks: data, exit and*)
(* close events of the children, and the requests of the browser, which    *)
(* OperationTransport adds.                                                *)
(*                                                                         *)
(* One page follows an operation at most once over SSE, so the operation   *)
(* names the connection.  A log line is its kind; on the wire it is its    *)
(* position in the log.                                                    *)
(***************************************************************************)
EXTENDS Naturals, Sequences

CONSTANTS
    Ops,        \* operation ids
    Mutating,   \* the deploy and destroy operations; the others validate
    MaxOutput   \* bound: lines each script prints

ASSUME OperationAssumption == Mutating \subseteq Ops /\ MaxOutput \in [Ops -> Nat]

VARIABLES
    status,         \* op.status, "none" before the operation exists
    log,            \* op.log
    child,          \* the process: "none", "alive", "dead", "closed"
    code,           \* its exit code: "alive", "zero", "other" (or a signal)
    childExited,    \* op.childExited
    subscribed,     \* the stream's response is in op.subscribers
    wire            \* events written to the stream, not yet received

records == <<status, log, subscribed, wire>>
process == <<child, code, childExited>>
server == <<status, log, child, code, childExited, subscribed, wire>>

Terminal == {"completed", "failed", "cancelled"}

LineAt(n) == [line |-> n]
DoneWith(s) == [done |-> s]

ServerInit ==
    /\ status = [o \in Ops |-> "none"]
    /\ log = [o \in Ops |-> <<>>]
    /\ child = [o \in Ops |-> "none"]
    /\ code = [o \in Ops |-> "alive"]
    /\ childExited = [o \in Ops |-> FALSE]
    /\ subscribed = [o \in Ops |-> FALSE]
    /\ wire = [o \in Ops |-> <<>>]

\* What appending `lines`, and then `events`, puts on the stream.
Sent(o, lines, events) ==
    IF subscribed[o]
    THEN [wire EXCEPT ![o] =
            @ \o [i \in 1..Len(lines) |-> LineAt(Len(log[o]) + i)] \o events]
    ELSE wire

appendLog(o, line) ==
    /\ log' = [log EXCEPT ![o] = Append(@, line)]
    /\ wire' = Sent(o, <<line>>, <<>>)
    /\ UNCHANGED <<status, subscribed>>

\* Mutant of transitionToTerminal: the verdict goes to subscribers only.
transitionUnlogged(o, outcome) ==
    IF status[o] = "running"
    THEN /\ status' = [status EXCEPT ![o] = outcome]
         /\ wire' = Sent(o, <<>>, <<DoneWith(outcome)>>)
         /\ subscribed' = [subscribed EXCEPT ![o] = FALSE]
         /\ UNCHANGED log
    ELSE UNCHANGED records

\* transitionToTerminal and what its winner does: the verdict line (named
\* after the outcome), the done event, the end of every stream.  A loser
\* changes nothing.
transitionToTerminal(o, outcome) ==
    IF status[o] = "running"
    THEN /\ status' = [status EXCEPT ![o] = outcome]
         /\ log' = [log EXCEPT ![o] = Append(@, outcome)]
         /\ wire' = Sent(o, <<outcome>>, <<DoneWith(outcome)>>)
         /\ subscribed' = [subscribed EXCEPT ![o] = FALSE]
    ELSE UNCHANGED records

finishOperation(o, exitCode) ==
    transitionToTerminal(o, IF exitCode = "zero" THEN "completed" ELSE "failed")

-----------------------------------------------------------------------------
(* Request handlers                                                          *)

\* POST /api/deploy and /api/destroy exclude each other by op.status.
Conflict(o) ==
    o \in Mutating /\ \E p \in Mutating : status[p] = "running"

\* The handler logs a system line and spawns pwsh.  When pwsh cannot be
\* spawned the 'error' event comes before any other callback, and the 'close'
\* after it finds the operation finished.
CreateOperation(o) ==
    /\ status[o] = "none" /\ ~Conflict(o)
    /\ \/ /\ status' = [status EXCEPT ![o] = "running"]
          /\ log' = [log EXCEPT ![o] = <<"system">>]
          /\ child' = [child EXCEPT ![o] = "alive"]
          /\ UNCHANGED <<code, childExited>>
       \/ /\ status' = [status EXCEPT ![o] = "failed"]
          /\ log' = [log EXCEPT ![o] = <<"system", "stderr", "failed">>]
          /\ child' = [child EXCEPT ![o] = "closed"]
          /\ code' = [code EXCEPT ![o] = "other"]
          /\ childExited' = [childExited EXCEPT ![o] = TRUE]
    /\ UNCHANGED <<subscribed, wire>>

\* GET /api/operations/:id/stream replays the backlog and subscribes.
OpenStream(o) ==
    /\ LET backlog == [i \in 1..Len(log[o]) |-> LineAt(i)]
       IN  wire' = [wire EXCEPT ![o] =
                     IF status[o] = "running" THEN backlog
                     ELSE Append(backlog, DoneWith(status[o]))]
    /\ subscribed' = [subscribed EXCEPT ![o] = status[o] = "running"]
    /\ UNCHANGED <<status, log, process>>

\* Mutant of CancelWins: the window between exit and close is open.
CancelWinsLate(o) == status[o] = "running"

\* DELETE /api/operations/:id wins only while the process has not exited.
CancelWins(o) == status[o] = "running" /\ ~childExited[o]

\* The SIGTERM that follows shows in Die; a process may take its time.
CancelOperation(o) ==
    /\ IF CancelWins(o)
       THEN transitionToTerminal(o, "cancelled")
       ELSE UNCHANGED records
    /\ UNCHANGED process

\* The page closes the stream of o, or it breaks.  req.on('close') comes a
\* little later, but nobody sees what is written in between.
CloseStream(o) ==
    /\ subscribed' = [subscribed EXCEPT ![o] = FALSE]
    /\ wire' = [wire EXCEPT ![o] = <<>>]
    /\ UNCHANGED <<status, log, process>>

-----------------------------------------------------------------------------
(* The child process and its events                                         *)

Die(o) ==
    /\ child[o] = "alive"
    /\ child' = [child EXCEPT ![o] = "dead"]
    /\ \E c \in {"zero", "other"} : code' = [code EXCEPT ![o] = c]
    /\ UNCHANGED <<records, childExited>>

\* 'data' on stdout or stderr; the pipe may outlive the process.
DataEvent(o) ==
    /\ child[o] \in {"alive", "dead"}
    /\ Len(SelectSeq(log[o], LAMBDA line : line = "stdout")) < MaxOutput[o]
    /\ appendLog(o, "stdout")
    /\ UNCHANGED process

ExitEvent(o) ==
    /\ child[o] = "dead" /\ ~childExited[o]
    /\ childExited' = [childExited EXCEPT ![o] = TRUE]
    /\ UNCHANGED <<records, child, code>>

CloseEvent(o) ==
    /\ child[o] = "dead" /\ childExited[o]
    /\ child' = [child EXCEPT ![o] = "closed"]
    /\ finishOperation(o, code[o])
    /\ UNCHANGED <<code, childExited>>

ServerEvent(o) == DataEvent(o) \/ ExitEvent(o) \/ CloseEvent(o)

-----------------------------------------------------------------------------
(* Properties                                                                *)

ServerTypeOK ==
    /\ status \in [Ops -> {"none", "running"} \cup Terminal]
    /\ log \in [Ops -> Seq({"system", "stdout", "stderr"} \cup Terminal)]
    /\ child \in [Ops -> {"none", "alive", "dead", "closed"}]
    /\ code \in [Ops -> {"alive", "zero", "other"}]
    /\ childExited \in [Ops -> BOOLEAN]
    /\ subscribed \in [Ops -> BOOLEAN]
    /\ wire \in [Ops -> Seq([line : Nat] \cup [done : Terminal])]

\* The log tells the outcome that the record holds, once, and no other: a
\* cancel that lost leaves no trace, and a late 'close' adds no second verdict.
LogTellsOutcome ==
    \A o \in Ops :
        LET verdicts == {j \in DOMAIN log[o] : log[o][j] \in Terminal}
        IN  /\ \A j \in verdicts : log[o][j] = status[o] /\ verdicts = {j}
            /\ status[o] \in Terminal => verdicts # {}

\* The records implement the promise: one outcome, the true one.
Outcome == INSTANCE OperationOutcome WITH
    outcome <- status,
    exit <- code,
    seen <- childExited

OutcomeSpec == Outcome!Spec

\* "A deploy operation is already running": the routes let no deploy or
\* destroy script start while another one is at work on the subscription.
OneMutatingScript ==
    \A o, p \in Mutating : child[o] = "alive" /\ child[p] = "alive" => o = p
=============================================================================
