------------------------- MODULE OperationTransport -------------------------
(***************************************************************************)
(* The operation server together with one Mission Control page:            *)
(* public/app.js (streamOperation, startOperationPolling,                  *)
(* handleTerminalOperation, closeTerminal, cancelOperation, start...),     *)
(* public/operation-poller.js and public/cancel-response.js.               *)
(*                                                                         *)
(* The page starts an operation, follows its log over SSE, falls back to   *)
(* polling from the line it rendered last when the stream breaks, and may  *)
(* cancel.  A request takes effect when the server handles it; the answer is*)
(* a later step, after whatever else happened meanwhile.  A request lost on *)
(* the way to the server changes nothing there.                            *)
(***************************************************************************)
EXTENDS OperationLifecycle

CONSTANTS
    NoOp,           \* null
    MaxPollErrors   \* maxConsecutiveErrors, after which the poller gives up

ASSUME TransportAssumption == NoOp \notin Ops /\ MaxPollErrors \in Nat \ {0}

VARIABLES
    starting,   \* the POST whose answer is under way: [op, answer]
    cancelling, \* the DELETE whose answer is under way: [op, answer]
    currentOp,  \* currentOpId
    enabled,    \* the deploy, destroy and validate buttons
    visible,    \* the terminal panel
    shown,      \* the operation whose terminal-output this is
    badge,      \* terminal-status
    rendered,   \* the lines in terminal-output, as <<operation, position>>
    source,     \* the EventSource of each operation
    conn,       \* operation whose stream is currentEventSource
    poller      \* the poller of each operation

page == <<starting, cancelling, currentOp, enabled, visible, shown, badge,
          rendered, source, conn, poller>>
vars == <<server, page>>

Idle == [op |-> NoOp, answer |-> "none"]

\* createOperationPoller's local state; reply is the answer under way.
NoReply == [from |-> 0, to |-> 0, status |-> "none"]
NoPoller == [phase |-> "none", since |-> 0, errors |-> 0, reply |-> NoReply]

Init ==
    /\ ServerInit
    /\ starting = Idle
    /\ cancelling = Idle
    /\ currentOp = NoOp
    /\ enabled = TRUE
    /\ visible = FALSE
    /\ shown = NoOp
    /\ badge = "running"
    /\ rendered = <<>>
    /\ source = [o \in Ops |-> "none"]
    /\ conn = NoOp
    /\ poller = [o \in Ops |-> NoPoller]

-----------------------------------------------------------------------------
(* The page's helpers                                                        *)

\* The poller that still runs, currentOperationPoller.
Running(o) == poller[o].phase \in {"waiting", "answered"}

\* stop(): an answer under way is fenced off by the generation counter.
Stopped ==
    [o \in Ops |-> IF Running(o)
                   THEN [NoPoller EXCEPT !.phase = "stopped", !.reply = poller[o].reply]
                   ELSE poller[o]]

\* currentEventSource.close(), if there is one.
CloseSource ==
    IF conn = NoOp THEN UNCHANGED server ELSE CloseStream(conn)

Closed == [o \in Ops |-> IF o = conn THEN "closed" ELSE source[o]]

\* appendLogEntries: positions from..to of o's log.
appendLogEntries(o, from, to) ==
    rendered' = rendered \o [i \in 1..(to - from) |-> <<o, from + i>>]

handleTerminalOperation(s) ==
    /\ badge' = s
    /\ currentOp' = NoOp
    /\ enabled' = TRUE

-----------------------------------------------------------------------------
(* Starting an operation                                                     *)

\* startDeploy, executeDestroy, startValidate: the POST is handled.
Start(o) ==
    /\ enabled /\ starting = Idle /\ status[o] = "none"
    /\ enabled' = FALSE
    /\ \/ /\ CreateOperation(o)
          /\ starting' = [op |-> o, answer |-> "created"]
       \/ /\ Conflict(o)
          /\ starting' = [op |-> o, answer |-> "refused"]
          /\ UNCHANGED server
    /\ UNCHANGED <<cancelling, currentOp, visible, shown, badge, rendered, source,
                   conn, poller>>

\* The reply is an error, or is lost on the way: a toast.
StartFailed ==
    /\ starting # Idle
    /\ starting' = Idle
    /\ enabled' = TRUE
    /\ UNCHANGED <<server, cancelling, currentOp, visible, shown, badge, rendered,
                   source, conn, poller>>

\* The page turns to the new operation.
streamOperation ==
    /\ starting.answer = "created"
    /\ starting' = Idle
    /\ currentOp' = starting.op
    /\ shown' = starting.op
    /\ rendered' = <<>>
    /\ badge' = "running"
    /\ visible' = TRUE
    /\ source' = [Closed EXCEPT ![starting.op] = "connecting"]
    /\ conn' = starting.op
    /\ poller' = Stopped
    /\ CloseSource
    /\ UNCHANGED <<cancelling, enabled>>

-----------------------------------------------------------------------------
(* The stream                                                                *)

HandleStream(o) ==
    /\ source[o] = "connecting"
    /\ source' = [source EXCEPT ![o] = "open"]
    /\ OpenStream(o)
    /\ UNCHANGED <<starting, cancelling, currentOp, enabled, visible, shown, badge,
                   rendered, conn, poller>>

\* es.onmessage
ReceiveLine(o) ==
    /\ conn = o /\ source[o] = "open" /\ wire[o] # <<>>
    /\ "line" \in DOMAIN Head(wire[o])
    /\ LET n == Head(wire[o]).line IN appendLogEntries(o, n - 1, n)
    /\ wire' = [wire EXCEPT ![o] = Tail(@)]
    /\ UNCHANGED <<status, log, process, subscribed>>
    /\ UNCHANGED <<starting, cancelling, currentOp, enabled, visible, shown, badge,
                   source, conn, poller>>

\* es 'done'
ReceiveDone(o) ==
    /\ conn = o /\ source[o] = "open" /\ wire[o] # <<>>
    /\ "done" \in DOMAIN Head(wire[o])
    /\ handleTerminalOperation(Head(wire[o]).done)
    /\ wire' = [wire EXCEPT ![o] = Tail(@)]
    /\ source' = [source EXCEPT ![o] = "closed"]
    /\ conn' = NoOp
    /\ UNCHANGED <<status, log, process, subscribed>>
    /\ UNCHANGED <<starting, cancelling, visible, shown, rendered, poller>>

\* Mutant of StreamBreaks: the poller starts over from the first line.
StreamBreaksFromZero(o) ==
    /\ conn = o /\ source[o] \in {"connecting", "open"}
    /\ source' = [source EXCEPT ![o] = "closed"]
    /\ conn' = NoOp
    /\ poller' = [Stopped EXCEPT ![o] = [NoPoller EXCEPT !.phase = "waiting"]]
    /\ CloseSource
    /\ UNCHANGED <<starting, cancelling, currentOp, enabled, visible, shown, badge,
                   rendered>>

\* es.onerror, then startOperationPolling: what was on the wire is lost.
StreamBreaks(o) ==
    /\ conn = o /\ source[o] \in {"connecting", "open"}
    /\ source' = [source EXCEPT ![o] = "closed"]
    /\ conn' = NoOp
    /\ poller' = [Stopped EXCEPT ![o] = [NoPoller EXCEPT !.phase = "waiting",
                                                         !.since = Len(rendered)]]
    /\ CloseSource
    /\ UNCHANGED <<starting, cancelling, currentOp, enabled, visible, shown, badge,
                   rendered>>

-----------------------------------------------------------------------------
(* The polling fallback                                                      *)

PollOnly == <<starting, cancelling, visible, shown, source, conn>>

\* What was answered is shown, and the next poll is due.
PollAgain(o) ==
    poller' = [poller EXCEPT ![o] = [NoPoller EXCEPT !.phase = "waiting",
                                                     !.since = poller[o].reply.to]]

\* tick: GET /api/operations/:id?since= reaches the server, which reads the log
\* slice and the status together; the answer is under way from then on.
HandlePoll(o) ==
    /\ poller[o].phase = "waiting"
    /\ poller' = [poller EXCEPT ![o].phase = "answered",
                                ![o].reply = [from |-> poller[o].since, to |-> Len(log[o]),
                                              status |-> status[o]]]
    /\ UNCHANGED <<server, PollOnly, currentOp, enabled, badge, rendered>>

\* Mutant of PollAnswered: answers that come after stop() are still shown.
PollAnsweredUnfenced(o) ==
    /\ poller[o].phase \in {"answered", "stopped"} /\ poller[o].reply # NoReply
    /\ appendLogEntries(o, poller[o].reply.from, poller[o].reply.to)
    /\ IF poller[o].reply.status = "running"
       THEN /\ PollAgain(o)
            /\ UNCHANGED <<currentOp, enabled, badge>>
       ELSE /\ poller' = [poller EXCEPT ![o] = [NoPoller EXCEPT !.phase = "settled"]]
            /\ handleTerminalOperation(poller[o].reply.status)
    /\ UNCHANGED <<server, PollOnly>>

\* Mutant of PollAnswered: a terminal status is taken for another poll.
PollAnsweredNeverSettles(o) ==
    /\ poller[o].phase = "answered"
    /\ appendLogEntries(o, poller[o].reply.from, poller[o].reply.to)
    /\ PollAgain(o)
    /\ UNCHANGED <<server, PollOnly, currentOp, enabled, badge>>

\* onLogEntries, then onTerminal or the next timeout.
PollAnswered(o) ==
    /\ poller[o].phase = "answered"
    /\ appendLogEntries(o, poller[o].reply.from, poller[o].reply.to)
    /\ IF poller[o].reply.status = "running"
       THEN /\ PollAgain(o)
            /\ UNCHANGED <<currentOp, enabled, badge>>
       ELSE /\ poller' = [poller EXCEPT ![o] = [NoPoller EXCEPT !.phase = "settled"]]
            /\ handleTerminalOperation(poller[o].reply.status)
    /\ UNCHANGED <<server, PollOnly>>

\* Mutant of PollFails: giving up invents a status of its own.
PollFailsAsUnknown(o) ==
    /\ poller[o].phase \in {"waiting", "answered"}
    /\ poller' = [poller EXCEPT ![o] = [NoPoller EXCEPT !.phase = "gaveUp"]]
    /\ badge' = "unknown"
    /\ enabled' = TRUE
    /\ UNCHANGED <<server, PollOnly, currentOp, rendered>>

\* The request or its answer is lost: onError, and after too many onGiveUp,
\* which never makes an outcome up.
PollFails(o) ==
    /\ poller[o].phase \in {"waiting", "answered"}
    /\ IF poller[o].errors + 1 < MaxPollErrors
       THEN /\ poller' = [poller EXCEPT ![o].phase = "waiting", ![o].reply = NoReply,
                                        ![o].errors = @ + 1]
            /\ UNCHANGED enabled
       ELSE /\ poller' = [poller EXCEPT ![o] = [NoPoller EXCEPT !.phase = "gaveUp"]]
            /\ enabled' = TRUE
    /\ UNCHANGED <<server, PollOnly, currentOp, badge, rendered>>

-----------------------------------------------------------------------------
(* The operator                                                              *)

closeTerminal ==
    /\ visible
    /\ visible' = FALSE
    /\ source' = Closed
    /\ conn' = NoOp
    /\ poller' = Stopped
    /\ CloseSource
    /\ UNCHANGED <<starting, cancelling, currentOp, enabled, shown, badge, rendered>>

CancelOnly == <<starting, visible, shown, rendered, source, conn, poller>>

\* cancelOperation: the button shows while the badge says "running"; the
\* DELETE is handled.
Cancel ==
    /\ visible /\ badge = "running" /\ currentOp # NoOp /\ cancelling = Idle
    /\ CancelOperation(currentOp)
    /\ cancelling' = [op |-> currentOp,
                      answer |-> IF CancelWins(currentOp) THEN "won"
                                 ELSE status[currentOp]]
    /\ UNCHANGED <<CancelOnly, currentOp, enabled, badge>>

\* interpretCancelOperationResponse: only an operation that had ended before
\* the cancel, and is still the current one, is shown as ended.
CancelAnswered ==
    /\ cancelling # Idle
    /\ cancelling' = Idle
    /\ IF cancelling.answer \in Terminal /\ currentOp = cancelling.op
       THEN handleTerminalOperation(cancelling.answer)
       ELSE UNCHANGED <<currentOp, enabled, badge>>
    /\ UNCHANGED <<server, CancelOnly>>

\* The answer is lost: a toast.
CancelLost ==
    /\ cancelling # Idle
    /\ cancelling' = Idle
    /\ UNCHANGED <<server, CancelOnly, currentOp, enabled, badge>>

-----------------------------------------------------------------------------
Browser ==
    \/ \E o \in Ops : Start(o) \/ StreamBreaks(o) \/ PollFails(o)
    \/ StartFailed \/ streamOperation \/ closeTerminal
    \/ Cancel \/ CancelAnswered \/ CancelLost

\* What goes on by itself while the page is open and its requests get through.
Delivery(o) ==
    \/ HandleStream(o) \/ ReceiveLine(o) \/ ReceiveDone(o)
    \/ HandlePoll(o) \/ PollAnswered(o)

Server == (\E o \in Ops : Die(o) \/ ServerEvent(o)) /\ UNCHANGED page

Next == Browser \/ Server \/ \E o \in Ops : Delivery(o)

Spec == Init /\ [][Next]_vars

FairSpec == Spec /\ \A o \in Ops : WF_vars(Delivery(o))

-----------------------------------------------------------------------------
(* Properties                                                                *)

Request(answers) == {Idle} \cup [op : Ops, answer : answers]

\* Every variable has its type.
TypeOK ==
    /\ ServerTypeOK
    /\ starting \in Request({"created", "refused"})
    /\ cancelling \in Request({"won", "running"} \cup Terminal)
    /\ currentOp \in Ops \cup {NoOp}
    /\ enabled \in BOOLEAN
    /\ visible \in BOOLEAN
    /\ shown \in Ops \cup {NoOp}
    /\ badge \in {"running"} \cup Terminal
    /\ rendered \in Seq(Ops \X Nat)
    /\ source \in [Ops -> {"none", "connecting", "open", "closed"}]
    /\ conn \in Ops \cup {NoOp}
    /\ poller \in [Ops ->
         [phase : {"none", "waiting", "answered", "settled", "stopped", "gaveUp"},
          since : Nat, errors : Nat,
          reply : [from : Nat, to : Nat, status : {"none", "running"} \cup Terminal]]]

\* The terminal shows a prefix of one operation's log: across the hand-over
\* from SSE to polling, and whatever answers arrive late, no line is rendered
\* twice, skipped, or taken from an operation the operator left.
RenderedIsPrefix ==
    /\ rendered = [i \in 1..Len(rendered) |-> <<shown, i>>]
    /\ shown # NoOp => Len(rendered) <= Len(log[shown])

\* A final badge is the server's outcome of the operation shown: neither a
\* broken stream, nor a lost poll, nor a stale answer makes one up.
BadgeIsTruthful == badge \in Terminal => status[shown] = badge

\* An operation that ran to its end is eventually shown to have, with its whole
\* log, unless the operator left the terminal or the poller gave up.
EndIsShown ==
    \A o \in Ops :
        (shown = o /\ status[o] \in {"completed", "failed"})
            ~> \/ badge = status[o] /\ Len(rendered) = Len(log[o])
               \/ shown # o \/ ~visible \/ poller[o].phase = "gaveUp"
=============================================================================
