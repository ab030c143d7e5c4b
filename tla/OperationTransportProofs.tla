---------------------- MODULE OperationTransportProofs ----------------------
(***************************************************************************)
(* Theorems about OperationTransport, for any set of operations, scripts of *)
(* any length and any number of polling errors.                            *)
(***************************************************************************)
EXTENDS OperationTransport, SequenceTheorems, TLAPS

Lines == {"system", "stdout", "stderr"} \cup Terminal
Event == [line : Nat] \cup [done : Terminal]
IsLine(e) == "line" \in DOMAIN e

LEMMA EventKinds ==
    /\ \A n \in Nat : LineAt(n) \in Event /\ IsLine(LineAt(n)) /\ LineAt(n).line = n
    /\ \A s \in Terminal :
          DoneWith(s) \in Event /\ ~IsLine(DoneWith(s)) /\ DoneWith(s).done = s
    /\ \A e \in Event : IsLine(e) => e.line \in Nat
    /\ \A e \in Event : ~IsLine(e) => e.done \in Terminal /\ "done" \in DOMAIN e
    /\ \A e \in Event : "done" \in DOMAIN e => ~IsLine(e)
<1>1. \A e \in [line : Nat] : IsLine(e) /\ e.line \in Nat /\ "done" \notin DOMAIN e
  BY DEF IsLine
<1>2. \A e \in [done : Terminal] : ~IsLine(e) /\ e.done \in Terminal /\ "done" \in DOMAIN e
  BY DEF IsLine
<1>3. QED
  BY <1>1, <1>2 DEF Event, LineAt, DoneWith

\* The wire of a subscriber once a line and these events were published.
Followed(o, events) == (wire[o] \o <<LineAt(Len(log[o]) + 1)>>) \o events

LEMMA SentEvents ==
    ASSUME NEW o \in Ops, subscribed[o], wire \in [Ops -> Seq(Event)],
           Len(log[o]) \in Nat, NEW one, Len(one) = 1,
           NEW events \in Seq(Event)
    PROVE  /\ Sent(o, one, events) = [wire EXCEPT ![o] = Followed(o, events)]
           /\ Followed(o, events) \in Seq(Event)
           /\ Len(Followed(o, events)) = Len(wire[o]) + 1 + Len(events)
           /\ \A k \in 1..Len(wire[o]) : Followed(o, events)[k] = wire[o][k]
           /\ Followed(o, events)[Len(wire[o]) + 1] = LineAt(Len(log[o]) + 1)
           /\ \A k \in 1..Len(events) :
                 Followed(o, events)[Len(wire[o]) + 1 + k] = events[k]
<1> DEFINE next == LineAt(Len(log[o]) + 1)
           lines == [i \in 1..Len(one) |-> LineAt(Len(log[o]) + i)]
<1>1. next \in Event
  BY EventKinds
<1>2. lines = <<next>>
  OBVIOUS
<1>3. Sent(o, one, events) = [wire EXCEPT ![o] = (wire[o] \o lines) \o events]
  BY DEF Sent
<1> HIDE DEF lines, next
<1>4. <<next>> \in Seq(Event) /\ Len(<<next>>) = 1 /\ <<next>>[1] = next
  BY <1>1
<1>5. wire[o] \in Seq(Event)
  OBVIOUS
<1> DEFINE v == wire[o] \o <<next>>
<1>6. /\ v \in Seq(Event) /\ Len(v) = Len(wire[o]) + 1
      /\ \A k \in 1..Len(wire[o]) : v[k] = wire[o][k]
      /\ v[Len(wire[o]) + 1] = next
  BY <1>4, <1>5, ConcatProperties
<1> HIDE DEF v
<1> DEFINE w == v \o events
<1>7. /\ w \in Seq(Event) /\ Len(w) = Len(v) + Len(events)
      /\ \A k \in 1..Len(v) : w[k] = v[k]
      /\ \A k \in 1..Len(events) : w[Len(v) + k] = events[k]
  <2>1. Len(v) \in Nat /\ Len(events) \in Nat
    BY <1>6, LenProperties
  <2>2. /\ w \in Seq(Event) /\ Len(w) = Len(v) + Len(events)
        /\ \A i \in 1..(Len(v) + Len(events)) :
              w[i] = IF i <= Len(v) THEN v[i] ELSE events[i - Len(v)]
    BY <1>6, ConcatProperties
  <2> HIDE DEF w
  <2>3. \A k \in 1..Len(v) : w[k] = v[k]
    BY <2>1, <2>2
  <2>4. ASSUME NEW k \in 1..Len(events) PROVE w[Len(v) + k] = events[k]
    <3>1. /\ Len(v) + k \in 1..(Len(v) + Len(events)) /\ ~(Len(v) + k <= Len(v))
          /\ (Len(v) + k) - Len(v) = k
      BY <2>1
    <3>2. QED
      BY <2>2, <3>1
  <2>5. QED
    BY <2>2, <2>3, <2>4
<1> HIDE DEF w
<1>8. Sent(o, one, events) = [wire EXCEPT ![o] = w]
  BY <1>2, <1>3 DEF w, v
<1>9. Len(wire[o]) \in Nat
  BY <1>5, LenProperties
<1>10. \A k \in 1..Len(wire[o]) : w[k] = wire[o][k]
  BY <1>6, <1>7, <1>9
<1>11. w[Len(wire[o]) + 1] = next
  BY <1>6, <1>7, <1>9
<1>12. \A k \in 1..Len(events) : w[Len(wire[o]) + 1 + k] = events[k]
  BY <1>6, <1>7
<1>13. w \in Seq(Event) /\ Len(w) = Len(wire[o]) + 1 + Len(events)
  BY <1>6, <1>7
<1>14. QED
  BY <1>8, <1>10, <1>11, <1>12, <1>13 DEF next, w, v, Followed

-----------------------------------------------------------------------------
(* The server                                                                *)

\* What is decided stays decided, and the log of an operation only grows.
Growth ==
    \A o \in Ops :
        /\ status[o] \in Terminal => status'[o] = status[o]
        /\ status[o] # "none" => status'[o] # "none" /\ Len(log[o]) <= Len(log'[o])

LEMMA ServerTypes ==
    ASSUME ServerTypeOK
    PROVE  /\ wire \in [Ops -> Seq(Event)]
           /\ log \in [Ops -> Seq(Lines)]
           /\ \A o \in Ops : Len(log[o]) \in Nat /\ Len(wire[o]) \in Nat
           /\ \A o \in Ops : \A k \in 1..Len(wire[o]) : wire[o][k] \in Event
BY DEF ServerTypeOK, Event, Lines

\* The records after line was appended and events sent along.
LEMMA SentType ==
    ASSUME ServerTypeOK, NEW o \in Ops, NEW line \in Lines, NEW events \in Seq(Event)
    PROVE  /\ Sent(o, <<line>>, events) \in [Ops -> Seq(Event)]
           /\ [log EXCEPT ![o] = Append(@, line)] \in [Ops -> Seq(Lines)]
           /\ Len(Append(log[o], line)) = Len(log[o]) + 1
<1>0. log[o] \in Seq(Lines)
  BY ServerTypes
<1>1. wire \in [Ops -> Seq(Event)] /\ Len(log[o]) \in Nat
  BY ServerTypes
<1>2. Sent(o, <<line>>, events) \in [Ops -> Seq(Event)]
  <2> DEFINE one == <<line>>
  <2>0. Len(one) = 1
    OBVIOUS
  <2> HIDE DEF one
  <2>1. CASE subscribed[o]
    <3>1. Sent(o, one, events) = [wire EXCEPT ![o] = Followed(o, events)]
      BY <1>1, <2>0, <2>1, SentEvents
    <3>2. Followed(o, events) \in Seq(Event)
      BY <1>1, <2>0, <2>1, SentEvents
    <3>3. QED
      BY <1>1, <3>1, <3>2 DEF one
  <2>2. CASE ~subscribed[o]
    BY <1>1, <2>2 DEF Sent
  <2>3. QED
    BY <2>1, <2>2
<1>3. Append(log[o], line) \in Seq(Lines) /\ Len(Append(log[o], line)) = Len(log[o]) + 1
  BY <1>0, AppendProperties
<1>4. QED
  BY <1>2, <1>3, ServerTypes

LEMMA TransitionStep ==
    ASSUME ServerTypeOK, NEW o \in Ops, NEW outcome \in Terminal,
           transitionToTerminal(o, outcome), code' \in [Ops -> {"alive", "zero", "other"}],
           child' \in [Ops -> {"none", "alive", "dead", "closed"}],
           childExited' \in [Ops -> BOOLEAN]
    PROVE  ServerTypeOK' /\ Growth
<1>1. CASE status[o] # "running"
  BY <1>1 DEF transitionToTerminal, ServerTypeOK, Growth, records
<1>2. CASE status[o] = "running"
  <2>1. /\ status' = [status EXCEPT ![o] = outcome]
        /\ log' = [log EXCEPT ![o] = Append(@, outcome)]
        /\ wire' = Sent(o, <<outcome>>, <<DoneWith(outcome)>>)
        /\ subscribed' = [subscribed EXCEPT ![o] = FALSE]
    BY <1>2 DEF transitionToTerminal
  <2>2. <<DoneWith(outcome)>> \in Seq(Event) /\ outcome \in Lines
    BY EventKinds DEF Lines
  <2>3. /\ wire' \in [Ops -> Seq(Event)] /\ log' \in [Ops -> Seq(Lines)]
        /\ Len(Append(log[o], outcome)) = Len(log[o]) + 1
    BY <2>1, <2>2, SentType
  <2>4. status' \in [Ops -> {"none", "running"} \cup Terminal]
    BY <2>1 DEF ServerTypeOK
  <2>5. subscribed' \in [Ops -> BOOLEAN]
    BY <2>1 DEF ServerTypeOK
  <2>6. ServerTypeOK'
    BY <2>3, <2>4, <2>5 DEF ServerTypeOK, Event, Lines
  <2>7. Growth
    BY <1>2, <2>1, <2>3, ServerTypes DEF ServerTypeOK, Growth, Terminal
  <2>8. QED
    BY <2>6, <2>7
<1>3. QED
  BY <1>1, <1>2

LEMMA ServerSteps ==
    ASSUME ServerTypeOK, NEW o \in Ops,
           \/ CreateOperation(o) \/ CancelOperation(o) \/ CloseStream(o)
           \/ OpenStream(o) /\ status[o] # "none"
           \/ Die(o) \/ ServerEvent(o) \/ UNCHANGED server
    PROVE  ServerTypeOK' /\ Growth
<1>1. CASE UNCHANGED server
  BY <1>1 DEF server, ServerTypeOK, Growth
<1>2. CASE CreateOperation(o)
  <2>1. <<"system">> \in Seq(Lines) /\ <<"system", "stderr", "failed">> \in Seq(Lines)
    BY DEF Lines, Terminal
  <2>2. log' \in [Ops -> Seq(Lines)]
    BY <1>2, <2>1, ServerTypes DEF CreateOperation
  <2>3. /\ status' \in [Ops -> {"none", "running"} \cup Terminal]
        /\ code' \in [Ops -> {"alive", "zero", "other"}]
        /\ child' \in [Ops -> {"none", "alive", "dead", "closed"}]
    BY <1>2 DEF CreateOperation, ServerTypeOK, Terminal
  <2>4. /\ childExited' \in [Ops -> BOOLEAN]
        /\ subscribed' \in [Ops -> BOOLEAN]
        /\ wire' = wire
    BY <1>2 DEF CreateOperation, ServerTypeOK
  <2>5. ServerTypeOK'
    BY <2>2, <2>3, <2>4 DEF ServerTypeOK, Lines
  <2>6. \A p \in Ops : status[p] # "none" => status'[p] = status[p] /\ log'[p] = log[p]
    BY <1>2 DEF CreateOperation, ServerTypeOK
  <2>7. Growth
    BY <2>6, ServerTypes DEF Growth, Terminal
  <2>8. QED
    BY <2>5, <2>7
<1>3. CASE CancelOperation(o)
  <2>1. CASE CancelWins(o)
    BY <1>3, <2>1, TransitionStep DEF CancelOperation, process, ServerTypeOK, Terminal
  <2>2. CASE ~CancelWins(o)
    BY <1>3, <2>2 DEF CancelOperation, process, records, ServerTypeOK, Growth
  <2>3. QED
    BY <2>1, <2>2
<1>4. CASE CloseStream(o)
  BY <1>4 DEF CloseStream, process, ServerTypeOK, Growth
<1>5. CASE OpenStream(o) /\ status[o] # "none"
  <2> DEFINE backlog == [i \in 1..Len(log[o]) |-> LineAt(i)]
  <2>1. backlog \in Seq(Event)
    BY ServerTypes, EventKinds, SeqDef
  <2>2. status[o] # "running" => Append(backlog, DoneWith(status[o])) \in Seq(Event)
    BY <1>5, <2>1, EventKinds, AppendProperties DEF ServerTypeOK
  <2> HIDE DEF backlog
  <2>3. wire' \in [Ops -> Seq(Event)]
    BY <1>5, <2>1, <2>2, ServerTypes DEF OpenStream, backlog
  <2>4. UNCHANGED <<status, log, process>> /\ subscribed' \in [Ops -> BOOLEAN]
    BY <1>5 DEF OpenStream, ServerTypeOK
  <2>5. QED
    BY <2>3, <2>4 DEF process, ServerTypeOK, Event, Growth
<1>6. CASE Die(o)
  BY <1>6 DEF Die, records, ServerTypeOK, Growth
<1>7. CASE DataEvent(o)
  <2>1. /\ log' = [log EXCEPT ![o] = Append(@, "stdout")]
        /\ wire' = Sent(o, <<"stdout">>, <<>>)
        /\ UNCHANGED <<status, subscribed, process>>
    BY <1>7 DEF DataEvent, appendLog
  <2>2. <<>> \in Seq(Event) /\ "stdout" \in Lines
    BY DEF Lines
  <2>3. /\ wire' \in [Ops -> Seq(Event)] /\ log' \in [Ops -> Seq(Lines)]
        /\ Len(Append(log[o], "stdout")) = Len(log[o]) + 1
    BY <2>1, <2>2, SentType
  <2>4. ServerTypeOK'
    BY <2>1, <2>3 DEF ServerTypeOK, process, Event, Lines
  <2>5. Growth
    BY <2>1, <2>3, ServerTypes DEF Growth
  <2>6. QED
    BY <2>4, <2>5
<1>8. CASE ExitEvent(o)
  BY <1>8 DEF ExitEvent, records, ServerTypeOK, Growth
<1>9. CASE CloseEvent(o)
  <2>1. PICK outcome \in {"completed", "failed"} : transitionToTerminal(o, outcome)
    BY <1>9 DEF CloseEvent, finishOperation
  <2>2. /\ code' \in [Ops -> {"alive", "zero", "other"}]
        /\ child' \in [Ops -> {"none", "alive", "dead", "closed"}]
        /\ childExited' \in [Ops -> BOOLEAN]
    BY <1>9 DEF CloseEvent, ServerTypeOK
  <2>3. QED
    BY <2>1, <2>2, TransitionStep DEF Terminal
<1>10. QED
  BY <1>1, <1>2, <1>3, <1>4, <1>5, <1>6, <1>7, <1>8, <1>9 DEF ServerEvent

-----------------------------------------------------------------------------
(* The wire                                                                  *)

\* An outcome on the wire of o is the outcome of o.
WireTold(o) ==
    \A k \in 1..Len(wire[o]) : ~IsLine(wire[o][k]) => wire[o][k].done = status[o]

\* For a page that rendered n lines, the wire goes on with the next one, and a
\* subscriber misses none.
Aligned(o, n) ==
    /\ \A k \in 1..Len(wire[o]) : IsLine(wire[o][k]) =>
          wire[o][k].line = n + k /\ n + k <= Len(log[o])
    /\ subscribed[o] =>
          /\ \A k \in 1..Len(wire[o]) : IsLine(wire[o][k])
          /\ n + Len(wire[o]) = Len(log[o])

\* One more line at the end of those from n on.
LEMMA OneMoreLine ==
    ASSUME NEW v, NEW w, NEW L \in Nat, NEW n \in Nat,
           \A k \in 1..L : w[k] = v[k] /\ IsLine(v[k]) /\ v[k].line = n + k,
           IsLine(w[L + 1]), w[L + 1].line = n + (L + 1)
    PROVE  \A k \in 1..(L + 1) : IsLine(w[k]) /\ w[k].line = n + k
<1> TAKE k \in 1..(L + 1)
<1>1. CASE k \in 1..L
  BY <1>1
<1>2. CASE k = L + 1
  BY <1>2
<1>3. QED
  BY <1>1, <1>2

LEMMA Published ==
    ASSUME ServerTypeOK, NEW o \in Ops, NEW line \in Lines, NEW n \in Nat,
           subscribed[o], Aligned(o, n),
           NEW events \in Seq(Event), Len(events) \in {0, 1},
           Len(events) = 1 => ~IsLine(events[1]),
           log' = [log EXCEPT ![o] = Append(@, line)],
           wire' = Sent(o, <<line>>, events),
           subscribed'[o] => Len(events) = 0
    PROVE  /\ Aligned(o, n)'
           /\ \A k \in 1..Len(wire'[o]) :
                 ~IsLine(wire'[o][k]) => Len(events) = 1 /\ wire'[o][k] = events[1]
<1> DEFINE L == Len(wire[o])
           one == <<line>>
           v == wire[o]
           w == wire'[o]
           e == LineAt(Len(log[o]) + 1)
<1>1. wire \in [Ops -> Seq(Event)] /\ Len(log[o]) \in Nat /\ L \in Nat
  BY ServerTypes
<1>2. Len(one) = 1
  OBVIOUS
<1> HIDE DEF one
<1>3. Sent(o, one, events) = [wire EXCEPT ![o] = Followed(o, events)]
  BY <1>1, <1>2, SentEvents
<1>4. /\ Len(Followed(o, events)) = L + 1 + Len(events)
      /\ \A k \in 1..L : Followed(o, events)[k] = v[k]
      /\ Followed(o, events)[L + 1] = e
      /\ \A k \in 1..Len(events) : Followed(o, events)[L + 1 + k] = events[k]
  BY <1>1, <1>2, SentEvents
<1>5. w = Followed(o, events)
  BY <1>1, <1>3 DEF one
<1>6. Len(log'[o]) = Len(log[o]) + 1
  BY SentType, ServerTypes
<1>7. /\ n + L = Len(log[o])
      /\ \A k \in 1..L : IsLine(v[k]) /\ v[k].line = n + k
  BY DEF Aligned
<1>8. e.line = n + (L + 1) /\ IsLine(e)
  <2>1. Len(log[o]) + 1 \in Nat /\ Len(log[o]) + 1 = n + (L + 1)
    BY <1>1, <1>7
  <2> DEFINE next == Len(log[o]) + 1
  <2>2. next \in Nat /\ next = n + (L + 1)
    BY <2>1
  <2> HIDE DEF next, L
  <2>3. LineAt(next).line = next /\ IsLine(LineAt(next))
    BY <2>2, EventKinds
  <2>4. QED
    BY <2>2, <2>3 DEF next
<1>9. L \in Nat /\ Len(w) = L + 1 + Len(events)
  BY <1>1, <1>4, <1>5
<1>10. (\A k \in 1..L : w[k] = v[k]) /\ w[L + 1] = e
  BY <1>4, <1>5
<1>11. \A k \in 1..Len(events) : w[L + 1 + k] = events[k]
  BY <1>4, <1>5
<1>12. n + (L + 1) = Len(log'[o])
  BY <1>1, <1>6, <1>7
<1>13. Len(log'[o]) \in Nat
  BY <1>1, <1>6
<1>14. Aligned(o, n)' <=>
        /\ \A k \in 1..Len(w) : IsLine(w[k]) => w[k].line = n + k /\ n + k <= Len(log'[o])
        /\ subscribed'[o] => /\ \A k \in 1..Len(w) : IsLine(w[k])
                             /\ n + Len(w) = Len(log'[o])
  BY DEF Aligned
<1> HIDE DEF L, v, w, e
<1>15. \A k \in 1..(L + 1) : IsLine(w[k]) /\ w[k].line = n + k
  <2>1. \A k \in 1..L : w[k] = v[k] /\ IsLine(v[k]) /\ v[k].line = n + k
    BY <1>7, <1>10
  <2>2. IsLine(w[L + 1]) /\ w[L + 1].line = n + (L + 1) /\ L \in Nat
    BY <1>9, <1>8, <1>10
  <2> HIDE <1>9, <1>7, <1>8, <1>10
  <2>3. QED
    BY <2>1, <2>2, OneMoreLine
<1>16. \A k \in 1..(L + 1) : n + k <= Len(log'[o])
  BY <1>9, <1>12, <1>13
<1>17. CASE Len(events) = 0
  <2>1. Len(w) = L + 1
    BY <1>9, <1>17
  <2>2. Aligned(o, n)'
    BY <1>12, <1>14, <1>15, <1>16, <2>1
  <2>3. QED
    BY <1>15, <2>1, <2>2 DEF w
<1>18. CASE Len(events) = 1
  <2>1. Len(w) = L + 2 /\ w[L + 2] = events[1] /\ ~IsLine(w[L + 2])
    BY <1>9, <1>11, <1>18
  <2>2. \A k \in 1..(L + 2) : k \in 1..(L + 1) \/ k = L + 2
    BY <1>9
  <2>3. Aligned(o, n)'
    BY <1>14, <1>15, <1>16, <1>18, <2>1, <2>2
  <2>4. QED
    BY <1>15, <1>18, <2>1, <2>2, <2>3 DEF w
<1>19. QED
  BY <1>17, <1>18

\* A step that writes nothing to the stream of o, or nobody reads it.
Quiet(o) ==
    /\ wire'[o] = wire[o]
    /\ subscribed'[o] => subscribed[o] /\ log'[o] = log[o] /\ status'[o] = status[o]

\* The stream of o is in order: outcomes on it are the outcome, and a
\* subscriber waits for one.
InOrder(o) == WireTold(o) /\ (subscribed[o] => status[o] = "running")

LEMMA NoOutcomeYet ==
    ASSUME ServerTypeOK, NEW o \in Ops, WireTold(o), status[o] = "running",
           NEW k \in 1..Len(wire[o])
    PROVE  IsLine(wire[o][k])
BY ServerTypes, EventKinds DEF WireTold, Terminal

LEMMA QuietStep ==
    ASSUME ServerTypeOK, ServerTypeOK', Growth, NEW o \in Ops, Quiet(o),
           status[o] \in Terminal \/ status[o] = "running", InOrder(o)
    PROVE  InOrder(o)' /\ \A n \in Nat : Aligned(o, n) => Aligned(o, n)'
<1>1. WireTold(o)'
  <2>1. CASE status[o] \in Terminal
    BY <2>1 DEF Growth, Quiet, InOrder, WireTold
  <2>2. CASE status[o] = "running"
    BY <2>2, NoOutcomeYet DEF Quiet, InOrder, WireTold
  <2>3. QED
    BY <2>1, <2>2
<1>2. subscribed'[o] => status'[o] = "running"
  BY DEF Quiet, InOrder
<1>3. ASSUME NEW n \in Nat, Aligned(o, n) PROVE Aligned(o, n)'
  <2>1. status[o] # "none"
    BY DEF Terminal
  <2>2. Len(log[o]) <= Len(log'[o]) /\ Len(log[o]) \in Nat /\ Len(log'[o]) \in Nat
    BY <2>1, ServerTypes DEF Growth, ServerTypeOK
  <2>3. \A k \in 1..Len(wire[o]) : n + k <= Len(log[o]) => n + k <= Len(log'[o])
    BY <2>2, ServerTypes
  <2>4. QED
    BY <1>3, <2>3 DEF Aligned, Quiet
<1>4. QED
  BY <1>1, <1>2, <1>3 DEF InOrder

\* A subscriber of o is sent a line, or a line and the outcome.
SpokenStep(o, outcome) ==
    \E line \in Lines : \E events \in {<<>>, <<DoneWith(outcome)>>} :
        /\ log' = [log EXCEPT ![o] = Append(@, line)]
        /\ wire' = Sent(o, <<line>>, events)
        /\ IF events = <<>> THEN status'[o] = status[o] ELSE status'[o] = outcome
        /\ subscribed'[o] => events = <<>> /\ status'[o] = status[o]

LEMMA SpokenOrder ==
    ASSUME ServerTypeOK, NEW o \in Ops, subscribed[o], InOrder(o),
           NEW outcome \in Terminal, SpokenStep(o, outcome), NEW n \in Nat, Aligned(o, n)
    PROVE  InOrder(o)' /\ Aligned(o, n)'
<1>1. PICK line \in Lines, events \in {<<>>, <<DoneWith(outcome)>>} :
        /\ log' = [log EXCEPT ![o] = Append(@, line)]
        /\ wire' = Sent(o, <<line>>, events)
        /\ IF events = <<>> THEN status'[o] = status[o] ELSE status'[o] = outcome
        /\ subscribed'[o] => events = <<>> /\ status'[o] = status[o]
  BY DEF SpokenStep
<1>2. /\ DoneWith(outcome) \in Event /\ ~IsLine(DoneWith(outcome))
      /\ DoneWith(outcome).done = outcome
  BY EventKinds
<1> DEFINE one == <<DoneWith(outcome)>>
<1>3. /\ one \in Seq(Event) /\ Len(one) = 1 /\ one[1] = DoneWith(outcome)
      /\ <<>> \in Seq(Event) /\ Len(<<>>) = 0
  BY <1>2
<1> HIDE DEF one
<1>4. events = <<>> \/ events = one
  BY <1>1 DEF one
<1>5. events \in Seq(Event) /\ Len(events) \in {0, 1} /\ (Len(events) = 0 <=> events = <<>>)
  <2>1. CASE events = <<>>
    BY <1>3, <2>1
  <2>2. CASE events = one
    BY <1>3, <2>2
  <2>3. QED
    BY <1>4, <2>1, <2>2
<1>6. Len(events) = 1 => events[1] = DoneWith(outcome) /\ ~IsLine(events[1])
  BY <1>2, <1>3, <1>4
<1>7. /\ Aligned(o, n)'
      /\ \A k \in 1..Len(wire'[o]) :
            ~IsLine(wire'[o][k]) => Len(events) = 1 /\ wire'[o][k] = events[1]
  BY <1>1, <1>5, <1>6, Published
<1>8. Len(events) = 1 => status'[o] = outcome
  BY <1>1, <1>5
<1>9. WireTold(o)'
  BY <1>2, <1>6, <1>7, <1>8 DEF WireTold
<1>10. subscribed'[o] => status'[o] = "running"
  BY <1>1 DEF InOrder
<1>11. QED
  BY <1>7, <1>9, <1>10 DEF InOrder

LEMMA SentElsewhere ==
    ASSUME ServerTypeOK, NEW o \in Ops, NEW p \in Ops, p # o \/ ~subscribed[o],
           NEW lines, NEW events
    PROVE  Sent(o, lines, events)[p] = wire[p]
<1>1. wire \in [Ops -> Seq(Event)]
  BY ServerTypes
<1>2. CASE subscribed[o]
  <2>1. p # o
    BY <1>2
  <2>2. QED
    BY <1>1, <1>2, <2>1 DEF Sent
<1>3. CASE ~subscribed[o]
  BY <1>3 DEF Sent
<1>4. QED
  BY <1>2, <1>3

\* What a server step means for whoever reads the stream of p.
LEMMA WireStep ==
    ASSUME ServerTypeOK, ServerTypeOK', Growth, NEW o \in Ops,
           \/ CreateOperation(o) \/ CancelOperation(o)
           \/ Die(o) \/ ServerEvent(o) \/ UNCHANGED server,
           NEW p \in Ops, status[p] # "none"
    PROVE  \/ Quiet(p)
           \/ subscribed[p] /\ (\E outcome \in Terminal : SpokenStep(p, outcome))
<1>0. \/ wire'[p] = wire[p] /\ log'[p] = log[p] /\ status'[p] = status[p]
         /\ subscribed'[p] = subscribed[p]
      \/ \E outcome \in Terminal : transitionToTerminal(o, outcome) /\ status[o] = "running"
      \/ appendLog(o, "stdout")
  <2>1. CASE UNCHANGED server
    BY <2>1 DEF server
  <2>2. CASE CreateOperation(o)
    BY <2>2 DEF CreateOperation, ServerTypeOK
  <2>3. CASE CancelOperation(o)
    BY <2>3 DEF CancelOperation, CancelWins, Terminal, records
  <2>4. CASE Die(o)
    BY <2>4 DEF Die, records
  <2>5. CASE DataEvent(o)
    BY <2>5 DEF DataEvent
  <2>6. CASE ExitEvent(o)
    BY <2>6 DEF ExitEvent, records
  <2>7. CASE CloseEvent(o)
    <3>1. PICK outcome \in Terminal : transitionToTerminal(o, outcome)
      BY <2>7 DEF CloseEvent, finishOperation, Terminal
    <3>2. CASE status[o] = "running"
      BY <3>1, <3>2
    <3>3. CASE status[o] # "running"
      BY <3>1, <3>3 DEF transitionToTerminal, records
    <3>4. QED
      BY <3>2, <3>3
  <2>8. QED
    BY <2>1, <2>2, <2>3, <2>4, <2>5, <2>6, <2>7 DEF ServerEvent
<1>1. CASE /\ wire'[p] = wire[p] /\ log'[p] = log[p] /\ status'[p] = status[p]
           /\ subscribed'[p] = subscribed[p]
  BY <1>1 DEF Quiet
<1>2. ASSUME NEW outcome \in Terminal, transitionToTerminal(o, outcome), status[o] = "running"
      PROVE  Quiet(p) \/ (subscribed[p] /\ SpokenStep(p, outcome))
  <2>1. /\ status' = [status EXCEPT ![o] = outcome]
        /\ log' = [log EXCEPT ![o] = Append(@, outcome)]
        /\ wire' = Sent(o, <<outcome>>, <<DoneWith(outcome)>>)
        /\ subscribed' = [subscribed EXCEPT ![o] = FALSE]
    BY <1>2 DEF transitionToTerminal
  <2>2. CASE p # o
    <3>1. wire'[p] = wire[p]
      BY <2>1, <2>2, SentElsewhere
    <3>2. log'[p] = log[p] /\ status'[p] = status[p] /\ subscribed'[p] = subscribed[p]
      BY <2>1, <2>2 DEF ServerTypeOK
    <3>3. QED
      BY <3>1, <3>2 DEF Quiet
  <2>3. CASE p = o /\ ~subscribed[o]
    <3>1. wire'[p] = wire[p]
      BY <2>1, <2>3, SentElsewhere
    <3>2. ~subscribed'[p]
      BY <2>1, <2>3 DEF ServerTypeOK
    <3>3. QED
      BY <3>1, <3>2 DEF Quiet
  <2>4. CASE p = o /\ subscribed[o]
    <3>1. outcome \in Lines
      BY DEF Lines
    <3>2. status'[p] = outcome /\ ~subscribed'[p] /\ <<DoneWith(outcome)>> # <<>>
      BY <2>1, <2>4 DEF ServerTypeOK
    <3>3. QED
      BY <2>1, <2>4, <3>1, <3>2 DEF SpokenStep
  <2>5. QED
    BY <2>2, <2>3, <2>4
<1>3. CASE appendLog(o, "stdout")
  <2>1. /\ log' = [log EXCEPT ![o] = Append(@, "stdout")]
        /\ wire' = Sent(o, <<"stdout">>, <<>>)
        /\ UNCHANGED <<status, subscribed>>
    BY <1>3 DEF appendLog
  <2>2. CASE p # o
    <3>1. wire'[p] = wire[p]
      BY <2>1, <2>2, SentElsewhere
    <3>2. log'[p] = log[p] /\ status'[p] = status[p] /\ subscribed'[p] = subscribed[p]
      BY <2>1, <2>2 DEF ServerTypeOK
    <3>3. QED
      BY <3>1, <3>2 DEF Quiet
  <2>3. CASE p = o /\ ~subscribed[o]
    <3>1. wire'[p] = wire[p]
      BY <2>1, <2>3, SentElsewhere
    <3>2. QED
      BY <2>1, <2>3, <3>1 DEF Quiet
  <2>4. CASE p = o /\ subscribed[o]
    <3>1. "stdout" \in Lines /\ "failed" \in Terminal
      BY DEF Lines, Terminal
    <3>2. QED
      BY <2>1, <2>4, <3>1 DEF SpokenStep
  <2>5. QED
    BY <2>2, <2>3, <2>4
<1>4. QED
  BY <1>0, <1>1, <1>2, <1>3

LEMMA NoNewSubscriber ==
    ASSUME ServerTypeOK, NEW o \in Ops,
           \/ CreateOperation(o) \/ CancelOperation(o)
           \/ Die(o) \/ ServerEvent(o) \/ UNCHANGED server,
           NEW p \in Ops, subscribed'[p]
    PROVE  subscribed[p]
<1>1. CASE UNCHANGED subscribed
  BY <1>1
<1>2. CASE subscribed' = [subscribed EXCEPT ![o] = FALSE]
  BY <1>2 DEF ServerTypeOK
<1>3. QED
  BY <1>1, <1>2 DEF CreateOperation, CancelOperation, Die, ServerEvent, DataEvent, appendLog,
       ExitEvent, CloseEvent, finishOperation, transitionToTerminal, records, server

-----------------------------------------------------------------------------
(* The inductive invariant                                                   *)

\* The page is at one operation, which exists; the connection is to it, and
\* nobody else is subscribed.
AttachedInv ==
    /\ shown # NoOp => status[shown] # "none"
    /\ starting.answer = "created" => starting.op \in Ops /\ status[starting.op] # "none"
    /\ currentOp # NoOp => currentOp = shown
    /\ conn # NoOp => conn = shown /\ source[conn] \in {"connecting", "open"}
    /\ \A o \in Ops : source[o] \in {"connecting", "open"} => conn = o
    /\ \A o \in Ops : subscribed[o] => conn = o /\ source[o] = "open"

\* What was said of an outcome, and what is on its way, is the outcome.
ToldInv ==
    /\ badge \in Terminal => shown # NoOp /\ status[shown] = badge
    /\ cancelling.answer \in Terminal =>
          cancelling.op \in Ops /\ status[cancelling.op] = cancelling.answer

\* The lines rendered are the first lines of the operation shown.
RenderedInv ==
    /\ \A i \in 1..Len(rendered) : rendered[i] = <<shown, i>>
    /\ shown = NoOp => Len(rendered) = 0
    /\ shown # NoOp => Len(rendered) <= Len(log[shown])

\* An open stream goes on where the page is.
StreamInv ==
    conn # NoOp => IF source[conn] = "open"
                   THEN InOrder(conn) /\ Aligned(conn, Len(rendered))
                   ELSE Len(rendered) = 0

\* So does a poller that runs, and its answer.
PollerInv ==
    \A o \in Ops : Running(o) =>
        /\ shown = o /\ conn = NoOp /\ poller[o].since = Len(rendered)
        /\ poller[o].phase = "answered" =>
              /\ poller[o].reply.from = Len(rendered)
              /\ poller[o].reply.from <= poller[o].reply.to
              /\ poller[o].reply.to <= Len(log[o])
              /\ poller[o].reply.status # "none"
              /\ poller[o].reply.status \in Terminal => status[o] = poller[o].reply.status

Inv == TypeOK /\ AttachedInv /\ ToldInv /\ RenderedInv /\ StreamInv /\ PollerInv

\* A step of the server, from the outside.
Steps(o) ==
    \/ CreateOperation(o) \/ CancelOperation(o)
    \/ Die(o) \/ ServerEvent(o) \/ UNCHANGED server

\* What the terminal shows and where it gets it from.
view == <<shown, rendered, source, conn, poller>>

LEMMA TypeFacts ==
    ASSUME TypeOK
    PROVE  /\ ServerTypeOK
           /\ Len(rendered) \in Nat
           /\ shown \in Ops \cup {NoOp} /\ conn \in Ops \cup {NoOp}
           /\ \A o \in Ops :
                 /\ status[o] \in {"none", "running"} \cup Terminal
                 /\ Len(log[o]) \in Nat
                 /\ poller[o].since \in Nat
                 /\ poller[o].reply.from \in Nat /\ poller[o].reply.to \in Nat
                 /\ poller[o].reply.status \in {"none", "running"} \cup Terminal
<1>1. ServerTypeOK
  BY DEF TypeOK
<1>2. Len(rendered) \in Nat
  BY DEF TypeOK
<1>3. \A o \in Ops : status[o] \in {"none", "running"} \cup Terminal
  BY <1>1 DEF ServerTypeOK
<1>4. \A o \in Ops : Len(log[o]) \in Nat
  BY <1>1, ServerTypes
<1>5. QED
  BY <1>1, <1>2, <1>3, <1>4 DEF TypeOK

\* While the server takes a step, the page stays where it is.
LEMMA ServerKeepsView ==
    ASSUME Inv, NEW o \in Ops, Steps(o), UNCHANGED view
    PROVE  ServerTypeOK' /\ Growth /\ RenderedInv' /\ StreamInv' /\ PollerInv'
<1>1. ServerTypeOK /\ ServerTypeOK' /\ Growth
  BY TypeFacts, ServerSteps DEF Inv, Steps
<1>2. shown # NoOp => shown \in Ops /\ status[shown] # "none"
  BY TypeFacts DEF Inv, AttachedInv
<1>3. shown # NoOp => Len(log[shown]) <= Len(log'[shown])
  BY <1>1, <1>2 DEF Growth
<1>4. \A p \in Ops : Len(log[p]) \in Nat /\ Len(log'[p]) \in Nat
  BY <1>1, ServerTypes DEF ServerTypeOK
<1>5. RenderedInv'
  BY <1>2, <1>3, <1>4, TypeFacts DEF Inv, RenderedInv, view
<1>6. StreamInv'
  <2>1. CASE conn # NoOp /\ source[conn] = "open"
    <3>1. conn \in Ops /\ status[conn] # "none" /\ Len(rendered) \in Nat
      BY <1>2, <2>1, TypeFacts DEF Inv, AttachedInv
    <3>2. InOrder(conn) /\ Aligned(conn, Len(rendered))
      BY <2>1 DEF Inv, StreamInv
    <3>3. ASSUME NEW c \in Ops, NEW n \in Nat, c = conn, n = Len(rendered)
          PROVE  InOrder(c)' /\ Aligned(c, n)'
      <4>1. InOrder(c) /\ Aligned(c, n) /\ status[c] # "none"
        BY <3>1, <3>2, <3>3
      <4>2. status[c] \in Terminal \/ status[c] = "running"
        BY <4>1, TypeFacts DEF Inv
      <4>3. \/ Quiet(c)
            \/ subscribed[c] /\ (\E outcome \in Terminal : SpokenStep(c, outcome))
        BY <1>1, <4>1, WireStep DEF Steps
      <4>4. CASE Quiet(c)
        BY <1>1, <4>1, <4>2, <4>4, QuietStep
      <4>5. CASE subscribed[c] /\ (\E outcome \in Terminal : SpokenStep(c, outcome))
        BY <1>1, <4>1, <4>5, SpokenOrder
      <4>6. QED
        BY <4>3, <4>4, <4>5
    <3>4. conn' = conn /\ Len(rendered') = Len(rendered)
      BY DEF view
    <3>5. InOrder(conn)' /\ Aligned(conn, Len(rendered))'
      BY <3>1, <3>3, <3>4
    <3>6. QED
      BY <3>5, <2>1 DEF StreamInv, view
  <2>2. CASE ~(conn # NoOp /\ source[conn] = "open")
    BY <2>2 DEF Inv, StreamInv, view
  <2>3. QED
    BY <2>1, <2>2
<1>7. PollerInv'
  <2>1. poller' = poller /\ shown' = shown /\ conn' = conn /\ Len(rendered') = Len(rendered)
    BY DEF view
  <2>2. SUFFICES ASSUME NEW p \in Ops, Running(p)
                 PROVE  /\ shown = p /\ conn = NoOp /\ poller[p].since = Len(rendered)
                        /\ poller[p].phase = "answered" =>
                              /\ poller[p].reply.from = Len(rendered)
                              /\ poller[p].reply.from <= poller[p].reply.to
                              /\ poller[p].reply.to <= Len(log'[p])
                              /\ poller[p].reply.status # "none"
                              /\ poller[p].reply.status \in Terminal =>
                                    status'[p] = poller[p].reply.status
    BY <2>1 DEF PollerInv, Running
  <2>3. /\ shown = p /\ conn = NoOp /\ poller[p].since = Len(rendered)
        /\ poller[p].phase = "answered" =>
              /\ poller[p].reply.from = Len(rendered)
              /\ poller[p].reply.from <= poller[p].reply.to
              /\ poller[p].reply.to <= Len(log[p])
              /\ poller[p].reply.status # "none"
              /\ poller[p].reply.status \in Terminal => status[p] = poller[p].reply.status
    BY <2>2 DEF Inv, PollerInv
  <2>4. /\ Len(log[p]) <= Len(log'[p]) /\ Len(log[p]) \in Nat /\ Len(log'[p]) \in Nat
        /\ poller[p].reply.to \in Nat
        /\ status[p] \in Terminal => status'[p] = status[p]
    <3>1. p \in Ops /\ status[p] # "none"
      BY <1>2, <2>2, <2>3, TransportAssumption
    <3>2. /\ Len(log[p]) <= Len(log'[p])
          /\ status[p] \in Terminal => status'[p] = status[p]
      BY <1>1, <3>1 DEF Growth
    <3>3. poller[p].reply.to \in Nat
      BY TypeFacts DEF Inv
    <3>4. QED
      BY <1>4, <3>2, <3>3
  <2>5. QED
    BY <2>3, <2>4
<1>8. QED
  BY <1>1, <1>5, <1>6, <1>7

-----------------------------------------------------------------------------
(* Actions that leave the view alone                                         *)

PageTypes ==
    /\ starting \in Request({"created", "refused"})
    /\ cancelling \in Request({"won", "running"} \cup Terminal)
    /\ currentOp \in Ops \cup {NoOp}
    /\ enabled \in BOOLEAN
    /\ visible \in BOOLEAN
    /\ shown \in Ops \cup {NoOp}
    /\ badge \in {"running"} \cup Terminal
    /\ rendered \in Seq(Ops \X Nat)
    /\ source \in [Ops -> {"none", "connecting", "open", "closed"}]
    /\ conn \in Ops \cup {NoOp}

PollerTypes ==
    poller \in [Ops ->
         [phase : {"none", "waiting", "answered", "settled", "stopped", "gaveUp"},
          since : Nat, errors : Nat,
          reply : [from : Nat, to : Nat, status : {"none", "running"} \cup Terminal]]]

LEMMA TypeParts == TypeOK <=> ServerTypeOK /\ PageTypes /\ PollerTypes
BY DEF TypeOK, PageTypes, PollerTypes

\* Where the page is attached, given what becomes of the requests under way.
LEMMA KeepsAttached ==
    ASSUME Inv, NEW o \in Ops, Steps(o), UNCHANGED view,
           (starting.answer = "created" => starting.op \in Ops /\ status[starting.op] # "none")',
           currentOp' \in {currentOp, NoOp}
    PROVE  AttachedInv'
<1>1. Growth /\ ServerTypeOK
  BY ServerKeepsView, TypeFacts DEF Inv
<1>2. (shown # NoOp => status[shown] # "none")'
  <2>1. shown # NoOp => shown \in Ops /\ status[shown] # "none"
    BY TypeFacts DEF Inv, AttachedInv
  <2>2. QED
    BY <1>1, <2>1 DEF Growth, view
<1>3. (currentOp # NoOp => currentOp = shown)'
  BY DEF Inv, AttachedInv, view
<1>4. /\ (conn # NoOp => conn = shown /\ source[conn] \in {"connecting", "open"})'
      /\ (\A p \in Ops : source[p] \in {"connecting", "open"} => conn = p)'
  BY DEF Inv, AttachedInv, view
<1>5. (\A p \in Ops : subscribed[p] => conn = p /\ source[p] = "open")'
  <2>1. ASSUME NEW p \in Ops, subscribed'[p] PROVE conn = p /\ source[p] = "open"
    <3>1. subscribed[p]
      BY <1>1, <2>1, NoNewSubscriber DEF Steps
    <3>2. QED
      BY <3>1 DEF Inv, AttachedInv
  <2>2. QED
    BY <2>1 DEF view
<1>6. QED
  BY <1>2, <1>3, <1>4, <1>5 DEF AttachedInv

LEMMA KeepsTold ==
    ASSUME Inv, Growth, UNCHANGED <<shown, badge, cancelling>>
    PROVE  ToldInv'
<1>1. badge \in Terminal => shown \in Ops /\ status[shown] = badge
  BY TypeFacts DEF Inv, ToldInv
<1>2. QED
  BY <1>1 DEF Inv, ToldInv, Growth

\* Inv, once the requests under way are seen to.
LEMMA KeepsInv ==
    ASSUME Inv, NEW o \in Ops, Steps(o), UNCHANGED view, PageTypes', AttachedInv', ToldInv'
    PROVE  Inv'
<1>1. PollerTypes'
  BY TypeParts DEF Inv, PollerTypes, view
<1>2. TypeOK'
  BY <1>1, ServerKeepsView DEF TypeOK, PageTypes, PollerTypes
<1>3. QED
  BY <1>2, ServerKeepsView DEF Inv

LEMMA StartStep ==
    ASSUME Inv, NEW o \in Ops, Start(o)
    PROVE  Inv'
<1>1. UNCHANGED <<view, cancelling, currentOp, visible, badge>> /\ enabled' = FALSE
  BY DEF Start, view
<1>2. Steps(o)
  BY DEF Start, Steps
<1>3. /\ starting' \in Request({"created", "refused"})
      /\ starting'.answer = "created" => starting'.op = o /\ CreateOperation(o)
  BY DEF Start, Request
<1>4. CreateOperation(o) => status'[o] # "none"
  BY TypeFacts DEF Inv, CreateOperation, ServerTypeOK
<1>5. AttachedInv'
  BY <1>1, <1>2, <1>3, <1>4, KeepsAttached DEF view
<1>6. ToldInv'
  BY <1>1, <1>2, ServerKeepsView, KeepsTold DEF view
<1>7. PageTypes'
  BY <1>1, <1>3, TypeParts DEF PageTypes, view, Inv
<1>8. QED
  BY <1>1, <1>2, <1>5, <1>6, <1>7, KeepsInv DEF view

LEMMA ServerStep ==
    ASSUME Inv, NEW o \in Ops, Die(o) \/ ServerEvent(o), UNCHANGED page
    PROVE  Inv'
<1>1. Steps(o) /\ UNCHANGED view
  BY DEF Steps, page, view
<1>2. ServerTypeOK' /\ Growth
  BY <1>1, ServerKeepsView
<1>3. AttachedInv'
  BY <1>1, <1>2, KeepsAttached DEF Inv, AttachedInv, Growth, page
<1>4. ToldInv'
  BY <1>2, KeepsTold DEF page
<1>5. PageTypes'
  BY TypeParts DEF PageTypes, page, Inv
<1>6. QED
  BY <1>1, <1>3, <1>4, <1>5, KeepsInv

LEMMA AnswerStep ==
    ASSUME Inv, StartFailed \/ Cancel \/ CancelAnswered \/ CancelLost
    PROVE  Inv'
<1>0. StartFailed \/ Cancel \/ CancelAnswered \/ CancelLost
  OBVIOUS
<1>1. PICK o \in Ops : Steps(o)
  <2>1. CASE StartFailed
    <3>1. UNCHANGED server /\ starting \in Request({"created", "refused"}) \ {Idle}
      BY <2>1, TypeParts DEF Inv, PageTypes, StartFailed
    <3>2. QED
      BY <3>1 DEF Request, Steps
  <2>2. CASE Cancel
    <3>1. currentOp \in Ops /\ CancelOperation(currentOp)
      BY <2>2, TypeFacts, TypeParts DEF Inv, PageTypes, Cancel
    <3>2. QED
      BY <3>1 DEF Steps
  <2>3. CASE CancelAnswered \/ CancelLost
    <3>1. UNCHANGED server /\ cancelling \in Request({"won", "running"} \cup Terminal) \ {Idle}
      BY <2>3, TypeParts DEF Inv, PageTypes, CancelAnswered, CancelLost
    <3>2. QED
      BY <3>1 DEF Request, Steps
  <2>4. QED
    BY <1>0, <2>1, <2>2, <2>3
<1>2. UNCHANGED view
  BY DEF StartFailed, Cancel, CancelAnswered, CancelLost, CancelOnly, view
<1>3. ServerTypeOK' /\ Growth
  BY <1>1, <1>2, ServerKeepsView
<1>4. CASE StartFailed
  <2>1. starting' = Idle /\ enabled' = TRUE
        /\ UNCHANGED <<cancelling, currentOp, visible, shown, badge>>
    BY <1>4 DEF StartFailed
  <2>2. AttachedInv'
    BY <1>1, <1>2, <2>1, KeepsAttached DEF Idle
  <2>3. ToldInv'
    BY <1>3, <2>1, KeepsTold
  <2>4. PageTypes'
    BY <1>2, <2>1, TypeParts DEF PageTypes, view, Inv, Idle, Request
  <2>5. QED
    BY <1>1, <1>2, <2>2, <2>3, <2>4, KeepsInv
<1>5. CASE Cancel
  <2>1. /\ UNCHANGED <<starting, visible, currentOp, enabled, badge, shown>>
        /\ currentOp \in Ops /\ CancelOperation(currentOp)
        /\ cancelling' = [op |-> currentOp,
                          answer |-> IF CancelWins(currentOp) THEN "won"
                                     ELSE status[currentOp]]
    BY <1>5, TypeParts DEF Cancel, CancelOnly, Inv, PageTypes
  <2>2. status[currentOp] \in {"running"} \cup Terminal
    BY <2>1, TypeFacts, TransportAssumption DEF Inv, AttachedInv
  <2>3. AttachedInv'
    BY <1>1, <1>2, <1>3, <2>1, KeepsAttached DEF Inv, AttachedInv, Growth
  <2>4. ToldInv'
    <3>1. (badge \in Terminal => shown # NoOp /\ status[shown] = badge)'
      <4>1. badge \in Terminal => shown \in Ops /\ status[shown] = badge
        BY TypeFacts DEF Inv, ToldInv
      <4>2. QED
        BY <1>3, <2>1, <4>1, TransportAssumption DEF Growth
    <3>2. (cancelling.answer \in Terminal =>
             cancelling.op \in Ops /\ status[cancelling.op] = cancelling.answer)'
      <4>1. CASE CancelWins(currentOp)
        BY <2>1, <4>1 DEF Terminal
      <4>2. CASE ~CancelWins(currentOp)
        BY <1>3, <2>1, <4>2 DEF Growth
      <4>3. QED
        BY <4>1, <4>2
    <3>3. QED
      BY <3>1, <3>2 DEF ToldInv
  <2>5. cancelling' \in Request({"won", "running"} \cup Terminal)
    BY <2>1, <2>2 DEF Request
  <2>6. PageTypes'
    BY <1>2, <2>1, <2>5, TypeParts DEF PageTypes, view, Inv
  <2>7. QED
    BY <1>1, <1>2, <2>3, <2>4, <2>6, KeepsInv
<1>6. CASE CancelAnswered \/ CancelLost
  <2>1. /\ UNCHANGED <<starting, visible, shown, server>> /\ cancelling' = Idle
        /\ \/ UNCHANGED <<currentOp, enabled, badge>>
           \/ /\ cancelling.answer \in Terminal /\ currentOp = cancelling.op
              /\ badge' = cancelling.answer /\ currentOp' = NoOp /\ enabled' = TRUE
    BY <1>6 DEF CancelAnswered, CancelLost, CancelOnly, handleTerminalOperation
  <2>2. AttachedInv'
    BY <1>1, <1>2, <2>1, KeepsAttached DEF Inv, AttachedInv, server
  <2>3. ToldInv'
    <3>1. cancelling'.answer \notin Terminal
      BY <2>1 DEF Idle, Terminal
    <3>2. cancelling.answer \in Terminal =>
             cancelling.op \in Ops /\ status[cancelling.op] = cancelling.answer
      BY DEF Inv, ToldInv
    <3>3. currentOp \in Ops => currentOp = shown /\ shown # NoOp
      BY TransportAssumption DEF Inv, AttachedInv
    <3>4. QED
      BY <2>1, <3>1, <3>2, <3>3 DEF Inv, ToldInv, server
  <2>4. PageTypes'
    BY <1>2, <2>1, TypeParts DEF PageTypes, view, Inv, Idle, Request, Terminal
  <2>5. QED
    BY <1>1, <1>2, <2>2, <2>3, <2>4, KeepsInv
<1>7. QED
  BY <1>4, <1>5, <1>6

-----------------------------------------------------------------------------
(* Actions that leave a stream                                               *)

LEMMA ClosingStream ==
    ASSUME Inv, CloseSource
    PROVE  /\ ServerTypeOK' /\ UNCHANGED <<status, log>>
           /\ \A p \in Ops : ~subscribed'[p]
<1>0. ServerTypeOK
  BY TypeFacts DEF Inv
<1>1. CASE conn = NoOp
  <2>1. \A p \in Ops : ~subscribed[p]
    BY <1>1, TransportAssumption DEF Inv, AttachedInv
  <2>2. UNCHANGED server
    BY <1>1 DEF CloseSource
  <2>3. QED
    BY <1>0, <2>1, <2>2 DEF server, ServerTypeOK
<1>2. CASE conn # NoOp
  <2>1. conn \in Ops /\ CloseStream(conn)
    BY <1>2, TypeFacts DEF Inv, CloseSource
  <2>2. ServerTypeOK'
    BY <1>0, <2>1, ServerSteps
  <2>3. \A p \in Ops : p # conn => ~subscribed[p]
    BY DEF Inv, AttachedInv
  <2>4. UNCHANGED <<status, log>> /\ subscribed' = [subscribed EXCEPT ![conn] = FALSE]
    BY <2>1 DEF CloseStream
  <2>5. QED
    BY <1>0, <2>2, <2>3, <2>4 DEF ServerTypeOK
<1>3. QED
  BY <1>1, <1>2

LEMMA StoppedPollers ==
    ASSUME PollerTypes
    PROVE  /\ Stopped \in [Ops ->
                 [phase : {"none", "waiting", "answered", "settled", "stopped", "gaveUp"},
                  since : Nat, errors : Nat,
                  reply : [from : Nat, to : Nat, status : {"none", "running"} \cup Terminal]]]
           /\ \A o \in Ops : Stopped[o].phase \notin {"waiting", "answered"}
BY DEF PollerTypes, Stopped, NoPoller, NoReply, Running

LEMMA SameOutcomeTold ==
    ASSUME ToldInv, UNCHANGED <<status, shown, badge, cancelling>>
    PROVE  ToldInv'
BY DEF ToldInv

LEMMA StreamOperationStep ==
    ASSUME Inv, streamOperation
    PROVE  Inv'
<1> DEFINE o == starting.op
<1>1. ServerTypeOK' /\ UNCHANGED <<status, log>> /\ \A p \in Ops : ~subscribed'[p]
  BY ClosingStream DEF streamOperation
<1>2. o \in Ops /\ status[o] # "none"
  BY DEF streamOperation, Inv, AttachedInv
<1>3. /\ starting' = Idle /\ currentOp' = o /\ shown' = o /\ rendered' = <<>>
      /\ badge' = "running" /\ visible' = TRUE /\ conn' = o
      /\ source' = [Closed EXCEPT ![o] = "connecting"]
      /\ poller' = Stopped /\ UNCHANGED <<cancelling, enabled>>
  BY DEF streamOperation
<1> HIDE DEF o
<1>4. /\ Closed \in [Ops -> {"none", "connecting", "open", "closed"}]
      /\ \A p \in Ops : Closed[p] \notin {"connecting", "open"}
  BY TypeParts DEF Inv, AttachedInv, PageTypes, Closed
<1>5. /\ source' \in [Ops -> {"none", "connecting", "open", "closed"}]
      /\ source'[o] = "connecting"
      /\ \A p \in Ops : source'[p] \in {"connecting", "open"} => p = o
  BY <1>2, <1>3, <1>4
<1>6. PollerTypes' /\ \A p \in Ops : ~Running(p)'
  BY <1>3, TypeParts, StoppedPollers DEF Inv, PollerTypes, Running
<1>7. PageTypes'
  BY <1>2, <1>3, <1>5, TypeParts DEF Inv, PageTypes, Request, Idle
<1>8. TypeOK'
  BY <1>1, <1>6, <1>7 DEF TypeOK, PageTypes, PollerTypes
<1>9. AttachedInv'
  BY <1>1, <1>2, <1>3, <1>5 DEF AttachedInv, Idle
<1>10. ToldInv'
  BY <1>1, <1>3 DEF Inv, ToldInv, Terminal
<1>11. RenderedInv'
  <2>1. Len(rendered') = 0 /\ shown' = o
    BY <1>3
  <2>2. Len(log'[o]) \in Nat
    BY <1>1, <1>2 DEF ServerTypeOK
  <2>3. QED
    BY <1>2, <2>1, <2>2, TransportAssumption DEF RenderedInv
<1>12. StreamInv'
  BY <1>3, <1>5 DEF StreamInv
<1>13. PollerInv'
  BY <1>6 DEF PollerInv
<1>14. QED
  BY <1>8, <1>9, <1>10, <1>11, <1>12, <1>13 DEF Inv

LEMMA CloseTerminalStep ==
    ASSUME Inv, closeTerminal
    PROVE  Inv'
<1>1. ServerTypeOK' /\ UNCHANGED <<status, log>> /\ \A p \in Ops : ~subscribed'[p]
  BY ClosingStream DEF closeTerminal
<1>2. /\ visible' = FALSE /\ source' = Closed /\ conn' = NoOp /\ poller' = Stopped
      /\ UNCHANGED <<starting, cancelling, currentOp, enabled, shown, badge, rendered>>
  BY DEF closeTerminal
<1>3. /\ source' \in [Ops -> {"none", "connecting", "open", "closed"}]
      /\ \A p \in Ops : source'[p] \notin {"connecting", "open"}
  BY <1>2, TypeParts DEF Inv, AttachedInv, PageTypes, Closed
<1>4. PollerTypes' /\ \A p \in Ops : ~Running(p)'
  BY <1>2, TypeParts, StoppedPollers DEF Inv, PollerTypes, Running
<1>5. PageTypes'
  BY <1>2, <1>3, TypeParts DEF Inv, PageTypes
<1>6. TypeOK'
  BY <1>1, <1>4, <1>5 DEF TypeOK, PageTypes, PollerTypes
<1>7. AttachedInv'
  BY <1>1, <1>2, <1>3 DEF Inv, AttachedInv
<1>8. ToldInv'
  BY <1>1, <1>2, SameOutcomeTold DEF Inv
<1>9. RenderedInv'
  BY <1>1, <1>2 DEF Inv, RenderedInv
<1>10. StreamInv' /\ PollerInv'
  BY <1>2, <1>4 DEF StreamInv, PollerInv
<1>11. QED
  BY <1>6, <1>7, <1>8, <1>9, <1>10 DEF Inv

LEMMA StreamBreaksStep ==
    ASSUME Inv, NEW o \in Ops, StreamBreaks(o)
    PROVE  Inv'
<1>1. ServerTypeOK' /\ UNCHANGED <<status, log>> /\ \A p \in Ops : ~subscribed'[p]
  BY ClosingStream DEF StreamBreaks
<1>2. /\ source' = [source EXCEPT ![o] = "closed"] /\ conn' = NoOp /\ conn = o
      /\ poller' = [Stopped EXCEPT ![o] = [NoPoller EXCEPT !.phase = "waiting",
                                                          !.since = Len(rendered)]]
      /\ UNCHANGED <<starting, cancelling, currentOp, enabled, visible, shown, badge, rendered>>
  BY DEF StreamBreaks
<1>3. /\ source' \in [Ops -> {"none", "connecting", "open", "closed"}]
      /\ \A p \in Ops : source'[p] \notin {"connecting", "open"}
  BY <1>2, TypeParts DEF Inv, AttachedInv, PageTypes
<1>4. Len(rendered) \in Nat /\ shown = o
  BY <1>2, TypeFacts, TransportAssumption DEF Inv, AttachedInv
<1>5. PollerTypes'
  BY <1>2, <1>4, TypeParts, StoppedPollers DEF Inv, PollerTypes, NoPoller, NoReply
<1>6. /\ \A p \in Ops : Running(p)' => p = o
      /\ poller'[o].phase = "waiting" /\ poller'[o].since = Len(rendered)
  BY <1>2, <1>4, TypeParts, StoppedPollers DEF Inv, Running, NoPoller
<1>7. PageTypes'
  BY <1>2, <1>3, TypeParts DEF Inv, PageTypes
<1>8. TypeOK'
  BY <1>1, <1>5, <1>7 DEF TypeOK, PageTypes, PollerTypes
<1>9. AttachedInv'
  BY <1>1, <1>2, <1>3 DEF Inv, AttachedInv
<1>10. ToldInv'
  BY <1>1, <1>2, SameOutcomeTold DEF Inv
<1>11. RenderedInv'
  BY <1>1, <1>2 DEF Inv, RenderedInv
<1>12. StreamInv'
  BY <1>2 DEF StreamInv
<1>13. PollerInv'
  BY <1>2, <1>4, <1>6 DEF PollerInv
<1>14. QED
  BY <1>8, <1>9, <1>10, <1>11, <1>12, <1>13 DEF Inv

-----------------------------------------------------------------------------
(* Actions that read the stream                                              *)

\* A stream that opens replays the log from its first line.
LEMMA Opened ==
    ASSUME ServerTypeOK, NEW o \in Ops, status[o] \in {"running"} \cup Terminal,
           OpenStream(o)
    PROVE  InOrder(o)' /\ Aligned(o, 0)'
<1> DEFINE backlog == [i \in 1..Len(log[o]) |-> LineAt(i)]
           w == wire'[o]
           L == Len(log[o])
<1>1. /\ L \in Nat /\ wire \in [Ops -> Seq(Event)]
      /\ UNCHANGED <<status, log>>
      /\ subscribed'[o] <=> status[o] = "running"
  BY ServerTypes DEF OpenStream, ServerTypeOK
<1>2. /\ backlog \in Seq(Event) /\ Len(backlog) = L
      /\ \A k \in 1..L : backlog[k] = LineAt(k)
  BY <1>1, EventKinds, SeqDef
<1>3. w = IF status[o] = "running" THEN backlog ELSE Append(backlog, DoneWith(status[o]))
  BY <1>1 DEF OpenStream
<1>4. \A k \in 1..L : IsLine(backlog[k]) /\ backlog[k].line = k
  BY <1>1, <1>2, EventKinds
<1> HIDE DEF backlog, L
<1>5. CASE status[o] = "running"
  <2>1. \A k \in 1..Len(w) : IsLine(w[k]) /\ w[k].line = 0 + k /\ 0 + k <= L
    BY <1>1, <1>2, <1>3, <1>4, <1>5
  <2>2. 0 + Len(w) = L
    BY <1>1, <1>2, <1>3, <1>5
  <2> HIDE DEF w
  <2>3. Aligned(o, 0)'
    BY <1>1, <2>1, <2>2 DEF Aligned, w, L
  <2>4. InOrder(o)'
    BY <1>1, <1>5, <2>1 DEF InOrder, WireTold, w
  <2>5. QED
    BY <2>3, <2>4
<1>6. CASE status[o] \in Terminal
  <2>1. /\ DoneWith(status[o]) \in Event /\ ~IsLine(DoneWith(status[o]))
        /\ DoneWith(status[o]).done = status[o]
    BY <1>6, EventKinds
  <2>2. w = Append(backlog, DoneWith(status[o])) /\ ~subscribed'[o]
    BY <1>1, <1>3, <1>6 DEF Terminal
  <2>3. /\ Len(w) = L + 1 /\ w[L + 1] = DoneWith(status[o])
        /\ \A k \in 1..L : w[k] = backlog[k]
    BY <1>2, <2>1, <2>2, AppendProperties
  <2> HIDE DEF w
  <2>4. \A k \in 1..L : IsLine(w[k]) /\ w[k].line = 0 + k /\ 0 + k <= L
    BY <1>1, <1>4, <2>3
  <2>5. ~IsLine(w[L + 1]) /\ w[L + 1].done = status[o]
    BY <2>1, <2>3
  <2>6. \A k \in 1..Len(w) : k \in 1..L \/ k = L + 1
    BY <1>1, <2>3
  <2>7. \A k \in 1..Len(w) : IsLine(w[k]) => w[k].line = 0 + k /\ 0 + k <= L
    BY <2>4, <2>5, <2>6
  <2>8. \A k \in 1..Len(w) : ~IsLine(w[k]) => w[k].done = status[o]
    BY <2>4, <2>5, <2>6
  <2>9. QED
    BY <1>1, <2>2, <2>7, <2>8 DEF Aligned, InOrder, WireTold, w, L
<1>7. QED
  BY <1>5, <1>6

LEMMA HandleStreamStep ==
    ASSUME Inv, NEW o \in Ops, HandleStream(o)
    PROVE  Inv'
<1>1. /\ source[o] = "connecting" /\ source' = [source EXCEPT ![o] = "open"] /\ OpenStream(o)
      /\ UNCHANGED <<starting, cancelling, currentOp, enabled, visible, shown, badge,
                     rendered, conn, poller>>
  BY DEF HandleStream
<1>2. conn = o /\ shown = o /\ status[o] \in {"running"} \cup Terminal /\ ServerTypeOK
  BY <1>1, TypeFacts, TransportAssumption DEF Inv, AttachedInv
<1>3. /\ ServerTypeOK' /\ UNCHANGED <<status, log>>
      /\ \A p \in Ops : p # o => subscribed'[p] = subscribed[p]
  BY <1>1, <1>2, ServerSteps DEF OpenStream, ServerTypeOK, Terminal
<1>4. /\ source' \in [Ops -> {"none", "connecting", "open", "closed"}] /\ source'[o] = "open"
      /\ \A p \in Ops : p # o => source'[p] = source[p]
  BY <1>1, TypeParts DEF Inv, PageTypes
<1>5. TypeOK'
  BY <1>1, <1>3, <1>4, TypeParts DEF Inv, PageTypes, PollerTypes, TypeOK
<1>6. AttachedInv'
  BY <1>1, <1>2, <1>3, <1>4 DEF Inv, AttachedInv
<1>7. ToldInv'
  BY <1>1, <1>3, SameOutcomeTold DEF Inv
<1>8. RenderedInv'
  BY <1>1, <1>3 DEF Inv, RenderedInv
<1>9. StreamInv'
  <2>1. Len(rendered) = 0
    BY <1>1, <1>2, TransportAssumption DEF Inv, StreamInv
  <2>2. ASSUME NEW n, n = 0 PROVE InOrder(o)' /\ Aligned(o, n)'
    BY <1>1, <1>2, <2>2, Opened
  <2>3. conn' = o /\ Len(rendered') = 0
    BY <1>1, <1>2, <2>1
  <2>4. InOrder(conn)' /\ Aligned(conn, Len(rendered))'
    BY <2>2, <2>3
  <2>5. QED
    BY <1>1, <1>2, <1>4, <2>4 DEF StreamInv
<1>10. PollerInv'
  BY <1>1, <1>2, TransportAssumption DEF Inv, PollerInv, Running
<1>11. QED
  BY <1>5, <1>6, <1>7, <1>8, <1>9, <1>10 DEF Inv

\* The terminal after the next lines of the operation shown were appended.
LEMMA Appended ==
    ASSUME RenderedInv, rendered \in Seq(Ops \X Nat), NEW o \in Ops, shown = o,
           NEW from \in Nat, NEW to \in Nat, from = Len(rendered), from <= to,
           appendLogEntries(o, from, to)
    PROVE  /\ rendered' \in Seq(Ops \X Nat) /\ Len(rendered') = to
           /\ \A i \in 1..to : rendered'[i] = <<o, i>>
<1> DEFINE more == [i \in 1..(to - from) |-> <<o, from + i>>]
<1>1. /\ more \in Seq(Ops \X Nat) /\ Len(more) = to - from
      /\ \A i \in 1..(to - from) : more[i] = <<o, from + i>>
  BY SeqDef
<1>2. rendered' = rendered \o more
  BY DEF appendLogEntries
<1>3. \A i \in 1..from : rendered[i] = <<o, i>>
  BY DEF RenderedInv
<1> HIDE DEF more
<1>4. /\ rendered' \in Seq(Ops \X Nat) /\ Len(rendered') = from + (to - from)
      /\ \A i \in 1..(from + (to - from)) :
            rendered'[i] = IF i <= from THEN rendered[i] ELSE more[i - from]
  <2> DEFINE both == rendered \o more
  <2>1. /\ both \in Seq(Ops \X Nat) /\ Len(both) = Len(rendered) + Len(more)
        /\ \A i \in 1..(Len(rendered) + Len(more)) :
              both[i] = IF i <= Len(rendered) THEN rendered[i] ELSE more[i - Len(rendered)]
    BY <1>1, ConcatProperties
  <2>2. rendered' = both
    BY <1>2
  <2> HIDE DEF both
  <2>3. Len(rendered) = from /\ Len(more) = to - from
    BY <1>1
  <2>4. QED
    BY <2>1, <2>2, <2>3
<1>5. from + (to - from) = to
  OBVIOUS
<1>6. ASSUME NEW i \in 1..to PROVE rendered'[i] = <<o, i>>
  <2>1. CASE i <= from
    <3>1. i \in 1..from /\ rendered'[i] = rendered[i]
      BY <1>4, <1>5, <2>1
    <3>2. QED
      BY <1>3, <3>1
  <2>2. CASE ~(i <= from)
    <3>1. i - from \in 1..(to - from) /\ from + (i - from) = i
      BY <2>2
    <3>2. rendered'[i] = more[i - from]
      BY <1>4, <1>5, <2>2
    <3>3. QED
      BY <1>1, <3>1, <3>2
  <2>3. QED
    BY <2>1, <2>2
<1>7. QED
  BY <1>4, <1>5, <1>6

\* Reading takes the first event off the wire of the connection.
LEMMA Taken ==
    ASSUME ServerTypeOK, NEW o \in Ops, wire[o] # <<>>,
           wire' = [wire EXCEPT ![o] = Tail(@)], UNCHANGED <<status, log, process, subscribed>>
    PROVE  /\ ServerTypeOK'
           /\ Len(wire[o]) \in Nat \ {0} /\ wire[o][1] = Head(wire[o])
           /\ Len(wire'[o]) = Len(wire[o]) - 1
           /\ \A k \in 1..Len(wire'[o]) : wire'[o][k] = wire[o][k + 1]
<1>1. wire \in [Ops -> Seq(Event)] /\ wire[o] \in Seq(Event)
  BY ServerTypes
<1>2. /\ Tail(wire[o]) \in Seq(Event) /\ Len(Tail(wire[o])) = Len(wire[o]) - 1
      /\ \A k \in 1..(Len(wire[o]) - 1) : Tail(wire[o])[k] = wire[o][k + 1]
  BY <1>1, HeadTailProperties
<1>3. Len(wire[o]) \in Nat \ {0} /\ wire[o][1] = Head(wire[o])
  BY <1>1, EmptySeq, LenProperties
<1>4. wire'[o] = Tail(wire[o]) /\ wire' \in [Ops -> Seq(Event)]
  BY <1>1, <1>2
<1>5. ServerTypeOK'
  BY <1>4 DEF ServerTypeOK, process, Event
<1>6. QED
  BY <1>2, <1>3, <1>4, <1>5

LEMMA ReceiveLineStep ==
    ASSUME Inv, NEW o \in Ops, ReceiveLine(o)
    PROVE  Inv'
<1> DEFINE n == Len(rendered)
           m == Head(wire[o]).line
<1>1. /\ conn = o /\ source[o] = "open" /\ wire[o] # <<>>
      /\ "line" \in DOMAIN Head(wire[o])
      /\ appendLogEntries(o, m - 1, m)
      /\ wire' = [wire EXCEPT ![o] = Tail(@)]
      /\ UNCHANGED <<status, log, process, subscribed>>
      /\ UNCHANGED <<starting, cancelling, currentOp, enabled, visible, shown, badge,
                     source, conn, poller>>
  BY DEF ReceiveLine
<1>2. /\ ServerTypeOK /\ shown = o /\ n \in Nat /\ InOrder(o) /\ Aligned(o, n)
      /\ RenderedInv /\ rendered \in Seq(Ops \X Nat)
  BY <1>1, TypeFacts, TransportAssumption DEF Inv, AttachedInv, StreamInv, TypeOK
<1>3. /\ ServerTypeOK'
      /\ Len(wire[o]) \in Nat \ {0} /\ wire[o][1] = Head(wire[o])
      /\ Len(wire'[o]) = Len(wire[o]) - 1
      /\ \A k \in 1..Len(wire'[o]) : wire'[o][k] = wire[o][k + 1]
  BY <1>1, <1>2, Taken
<1>4. m = n + 1 /\ n + 1 <= Len(log[o])
  BY <1>1, <1>2, <1>3 DEF Aligned, IsLine
<1> HIDE DEF m, n
<1>5. /\ rendered' \in Seq(Ops \X Nat) /\ Len(rendered') = n + 1
      /\ \A i \in 1..(n + 1) : rendered'[i] = <<o, i>>
  <2>1. appendLogEntries(o, n, n + 1)
    BY <1>1, <1>2, <1>4
  <2>2. QED
    BY <1>2, <2>1, Appended DEF n
<1>6. TypeOK'
  BY <1>1, <1>3, <1>5, TypeParts DEF Inv, PageTypes, PollerTypes, TypeOK
<1>7. AttachedInv'
  BY <1>1 DEF Inv, AttachedInv
<1>8. ToldInv'
  BY <1>1, SameOutcomeTold DEF Inv
<1>9. RenderedInv'
  BY <1>1, <1>2, <1>4, <1>5, TransportAssumption DEF RenderedInv
<1>10. StreamInv'
  <2> DEFINE v == wire[o]
             w == wire'[o]
  <2>1. /\ Len(w) = Len(v) - 1 /\ Len(v) \in Nat \ {0}
        /\ \A k \in 1..Len(w) : k + 1 \in 1..Len(v) /\ w[k] = v[k + 1]
    BY <1>3
  <2>2. /\ \A k \in 1..Len(v) : IsLine(v[k]) => v[k].line = n + k /\ n + k <= Len(log[o])
        /\ subscribed[o] => /\ \A k \in 1..Len(v) : IsLine(v[k])
                            /\ n + Len(v) = Len(log[o])
    BY <1>2 DEF Aligned
  <2>3. \A k \in 1..Len(v) : ~IsLine(v[k]) => v[k].done = status[o]
    BY <1>2 DEF InOrder, WireTold
  <2> HIDE DEF v, w
  <2>4. \A k \in 1..Len(w) : n + (k + 1) = (n + 1) + k
    BY <1>2
  <2>5. \A k \in 1..Len(w) :
           IsLine(w[k]) => w[k].line = (n + 1) + k /\ (n + 1) + k <= Len(log[o])
    BY <2>1, <2>2, <2>4
  <2>6. subscribed[o] => /\ \A k \in 1..Len(w) : IsLine(w[k])
                         /\ (n + 1) + Len(w) = Len(log[o])
    <3>1. subscribed[o] => \A k \in 1..Len(w) : IsLine(w[k])
      BY <2>1, <2>2
    <3>2. (n + 1) + Len(w) = n + Len(v)
      BY <1>2, <2>1
    <3>3. QED
      BY <2>2, <3>1, <3>2
  <2>7. \A k \in 1..Len(w) : ~IsLine(w[k]) => w[k].done = status[o]
    BY <2>1, <2>3
  <2>8. ASSUME NEW l, l = n + 1 PROVE InOrder(o)' /\ Aligned(o, l)'
    BY <1>1, <1>2, <2>5, <2>6, <2>7, <2>8 DEF InOrder, WireTold, Aligned, w
  <2>9. conn' = o /\ Len(rendered') = n + 1
    BY <1>1, <1>5
  <2>10. InOrder(conn)' /\ Aligned(conn, Len(rendered))'
    BY <2>8, <2>9
  <2>11. QED
    BY <1>1, <2>10 DEF StreamInv
<1>11. PollerInv'
  BY <1>1, TransportAssumption DEF Inv, PollerInv, Running
<1>12. QED
  BY <1>6, <1>7, <1>8, <1>9, <1>10, <1>11 DEF Inv

LEMMA ReceiveDoneStep ==
    ASSUME Inv, NEW o \in Ops, ReceiveDone(o)
    PROVE  Inv'
<1> DEFINE outcome == Head(wire[o]).done
<1>1. /\ conn = o /\ source[o] = "open" /\ wire[o] # <<>>
      /\ "done" \in DOMAIN Head(wire[o])
      /\ badge' = outcome /\ currentOp' = NoOp /\ enabled' = TRUE
      /\ wire' = [wire EXCEPT ![o] = Tail(@)]
      /\ source' = [source EXCEPT ![o] = "closed"] /\ conn' = NoOp
      /\ UNCHANGED <<status, log, process, subscribed>>
      /\ UNCHANGED <<starting, cancelling, visible, shown, rendered, poller>>
  BY DEF ReceiveDone, handleTerminalOperation
<1>2. ServerTypeOK /\ shown = o /\ InOrder(o)
  BY <1>1, TypeFacts, TransportAssumption DEF Inv, AttachedInv, StreamInv
<1>3. /\ ServerTypeOK'
      /\ Len(wire[o]) \in Nat \ {0} /\ wire[o][1] = Head(wire[o])
  BY <1>1, <1>2, Taken
<1>4. /\ ~IsLine(wire[o][1]) /\ outcome = status[o] /\ outcome \in Terminal
  <2>1. wire[o][1] \in Event
    BY <1>2, <1>3, ServerTypes
  <2>2. ~IsLine(wire[o][1]) /\ wire[o][1].done \in Terminal
    BY <1>1, <1>3, <2>1, EventKinds
  <2>3. QED
    BY <1>2, <1>3, <2>2 DEF InOrder, WireTold
<1> HIDE DEF outcome
<1>5. \A p \in Ops : ~subscribed'[p]
  <2>1. ~subscribed[o]
    BY <1>2, <1>4 DEF InOrder, Terminal
  <2>2. \A p \in Ops : p # o => ~subscribed[p]
    BY <1>1 DEF Inv, AttachedInv
  <2>3. QED
    BY <1>1, <2>1, <2>2
<1>6. /\ source' \in [Ops -> {"none", "connecting", "open", "closed"}]
      /\ \A p \in Ops : source'[p] \notin {"connecting", "open"}
  BY <1>1, TypeParts DEF Inv, AttachedInv, PageTypes
<1>7. TypeOK'
  BY <1>1, <1>3, <1>4, <1>6, TypeParts DEF Inv, PageTypes, PollerTypes, TypeOK
<1>8. AttachedInv'
  BY <1>1, <1>5, <1>6 DEF Inv, AttachedInv
<1>9. ToldInv'
  BY <1>1, <1>2, <1>4, TransportAssumption DEF Inv, ToldInv
<1>10. RenderedInv'
  BY <1>1 DEF Inv, RenderedInv
<1>11. StreamInv'
  BY <1>1 DEF StreamInv
<1>12. PollerInv'
  BY <1>1, TransportAssumption DEF Inv, PollerInv, Running
<1>13. QED
  BY <1>7, <1>8, <1>9, <1>10, <1>11, <1>12 DEF Inv

-----------------------------------------------------------------------------
(* Actions of the poller                                                     *)

LEMMA PollerStep ==
    ASSUME Inv, NEW o \in Ops, HandlePoll(o) \/ PollAnswered(o) \/ PollFails(o)
    PROVE  Inv'
<1>1. UNCHANGED <<server, starting, cancelling, visible, shown, source, conn>>
  BY DEF HandlePoll, PollAnswered, PollFails, PollOnly
<1>2. Running(o)
  BY DEF HandlePoll, PollAnswered, PollFails, Running
<1>3. /\ shown = o /\ conn = NoOp /\ poller[o].since = Len(rendered)
      /\ status[o] \in {"running"} \cup Terminal
      /\ Len(rendered) \in Nat /\ Len(log[o]) \in Nat
      /\ Len(rendered) <= Len(log[o])
  BY <1>2, TypeFacts, TransportAssumption DEF Inv, PollerInv, RenderedInv, AttachedInv
<1>4. \A p \in Ops : Running(p) => p = o
  BY <1>3 DEF Inv, PollerInv
<1>5. StreamInv'
  BY <1>1, <1>3 DEF StreamInv
<1>6. ASSUME currentOp' \in {currentOp, NoOp} PROVE AttachedInv'
  BY <1>1, <1>6 DEF Inv, AttachedInv, server
<1>7. ASSUME rendered' = rendered PROVE RenderedInv'
  BY <1>1, <1>7 DEF Inv, RenderedInv, server
<1>8. ASSUME PollerTypes', rendered' \in Seq(Ops \X Nat), currentOp' \in {currentOp, NoOp},
             enabled' \in BOOLEAN, badge' \in {"running"} \cup Terminal
      PROVE  TypeOK'
  BY <1>1, <1>8, TypeParts
     DEF Inv, TypeOK, PageTypes, PollerTypes, ServerTypeOK, server
<1>9. CASE HandlePoll(o)
  <2>1. /\ poller' = [poller EXCEPT ![o].phase = "answered",
                                    ![o].reply = [from |-> poller[o].since, to |-> Len(log[o]),
                                                  status |-> status[o]]]
        /\ UNCHANGED <<currentOp, enabled, badge, rendered>>
    BY <1>9 DEF HandlePoll
  <2>2. /\ poller'[o].phase = "answered" /\ poller'[o].since = Len(rendered)
        /\ poller'[o].reply.from = Len(rendered) /\ poller'[o].reply.to = Len(log[o])
        /\ poller'[o].reply.status = status[o]
        /\ \A p \in Ops : p # o => poller'[p] = poller[p]
        /\ PollerTypes'
    BY <1>3, <2>1, TypeParts DEF Inv, PollerTypes
  <2>3. \A p \in Ops : Running(p)' => p = o
    BY <1>4, <2>2 DEF Running
  <2>4. PollerInv'
    <3>1. UNCHANGED <<shown, conn, rendered, status, log>>
      BY <1>1, <2>1 DEF server
    <3>2. /\ poller'[o].reply.from = Len(rendered) /\ poller'[o].reply.to = Len(log[o])
          /\ Len(rendered) <= Len(log[o])
          /\ poller'[o].reply.status # "none" /\ poller'[o].reply.status = status[o]
      BY <1>3, <2>2 DEF Terminal
    <3>3. QED
      BY <1>3, <2>2, <2>3, <3>1, <3>2 DEF PollerInv
  <2>5. TypeOK'
    BY <1>8, <2>1, <2>2, TypeParts DEF Inv, PageTypes
  <2>6. ToldInv'
    BY <1>1, <2>1, SameOutcomeTold DEF Inv, server
  <2>7. QED
    BY <1>5, <1>6, <1>7, <2>1, <2>4, <2>5, <2>6 DEF Inv
<1>10. CASE PollAnswered(o)
  <2> DEFINE r == poller[o].reply
  <2>1. /\ poller[o].phase = "answered"
        /\ appendLogEntries(o, r.from, r.to)
        /\ \/ r.status = "running" /\ PollAgain(o) /\ UNCHANGED <<currentOp, enabled, badge>>
           \/ /\ r.status # "running"
              /\ poller' = [poller EXCEPT ![o] = [NoPoller EXCEPT !.phase = "settled"]]
              /\ badge' = r.status /\ currentOp' = NoOp /\ enabled' = TRUE
    BY <1>10 DEF PollAnswered, handleTerminalOperation
  <2>2. /\ r.from = Len(rendered) /\ r.from <= r.to /\ r.to <= Len(log[o])
        /\ r.from \in Nat /\ r.to \in Nat
        /\ r.status \in {"running"} \cup Terminal
        /\ r.status \in Terminal => status[o] = r.status
    BY <1>2, <2>1, TypeFacts DEF Inv, PollerInv
  <2>3. /\ rendered' \in Seq(Ops \X Nat) /\ Len(rendered') = r.to
        /\ \A i \in 1..r.to : rendered'[i] = <<o, i>>
    BY <1>3, <2>1, <2>2, Appended, TypeParts DEF Inv, PageTypes
  <2> HIDE DEF r
  <2>4. RenderedInv'
    BY <1>1, <1>3, <2>2, <2>3, TransportAssumption DEF RenderedInv, server
  <2>5. CASE /\ r.status = "running"
             /\ PollAgain(o) /\ UNCHANGED <<currentOp, enabled, badge>>
    <3>1. /\ poller'[o].phase = "waiting" /\ poller'[o].since = r.to
          /\ \A p \in Ops : p # o => poller'[p] = poller[p]
          /\ PollerTypes'
      BY <2>2, <2>5, TypeParts DEF Inv, PollerTypes, PollAgain, NoPoller, NoReply, r
    <3>2. \A p \in Ops : Running(p)' => p = o
      BY <1>4, <3>1 DEF Running
    <3>3. PollerInv'
      BY <1>1, <1>3, <2>3, <3>1, <3>2 DEF PollerInv
    <3>4. TypeOK'
      BY <1>8, <2>3, <2>5, <3>1, TypeParts DEF Inv, PageTypes
    <3>5. ToldInv'
      BY <1>1, <2>5, SameOutcomeTold DEF Inv, server
    <3>6. QED
      BY <1>5, <1>6, <2>4, <2>5, <3>3, <3>4, <3>5 DEF Inv
  <2>6. CASE /\ r.status # "running"
             /\ poller' = [poller EXCEPT ![o] = [NoPoller EXCEPT !.phase = "settled"]]
             /\ badge' = r.status /\ currentOp' = NoOp /\ enabled' = TRUE
    <3>1. /\ poller'[o].phase = "settled"
          /\ \A p \in Ops : p # o => poller'[p] = poller[p]
          /\ PollerTypes'
      BY <2>6, TypeParts DEF Inv, PollerTypes, NoPoller, NoReply
    <3>2. \A p \in Ops : ~Running(p)'
      BY <1>4, <3>1 DEF Running
    <3>3. PollerInv'
      BY <3>2 DEF PollerInv
    <3>4. r.status \in Terminal
      BY <2>2, <2>6
    <3>5. TypeOK'
      BY <1>8, <2>3, <2>6, <3>1, <3>4
    <3>6. ToldInv'
      BY <1>1, <1>3, <2>2, <2>6, <3>4, TransportAssumption DEF Inv, ToldInv, server
    <3>7. QED
      BY <1>5, <1>6, <2>4, <2>6, <3>3, <3>5, <3>6 DEF Inv
  <2>7. QED
    BY <2>1, <2>5, <2>6
<1>11. CASE PollFails(o)
  <2>1. /\ UNCHANGED <<currentOp, badge, rendered>> /\ enabled' \in {enabled, TRUE}
        /\ \/ poller' = [poller EXCEPT ![o].phase = "waiting", ![o].reply = NoReply,
                                      ![o].errors = @ + 1]
           \/ poller' = [poller EXCEPT ![o] = [NoPoller EXCEPT !.phase = "gaveUp"]]
    BY <1>11 DEF PollFails
  <2>2. /\ \/ poller'[o].phase = "waiting" /\ poller'[o].since = poller[o].since
           \/ poller'[o].phase = "gaveUp"
        /\ \A p \in Ops : p # o => poller'[p] = poller[p]
        /\ PollerTypes'
    BY <2>1, TypeParts DEF Inv, PollerTypes, NoPoller, NoReply
  <2>3. \A p \in Ops : Running(p)' => p = o
    BY <1>4, <2>2 DEF Running
  <2>4. PollerInv'
    BY <1>1, <1>3, <2>1, <2>2, <2>3 DEF PollerInv, Running
  <2>5. TypeOK'
    BY <1>8, <2>1, <2>2, TypeParts DEF Inv, PageTypes
  <2>6. ToldInv'
    BY <1>1, <2>1, SameOutcomeTold DEF Inv, server
  <2>7. QED
    BY <1>5, <1>6, <1>7, <2>1, <2>4, <2>5, <2>6 DEF Inv
<1>12. QED
  BY <1>9, <1>10, <1>11

-----------------------------------------------------------------------------
(* Theorems                                                                  *)

LEMMA InitInv == Init => Inv
<1> SUFFICES ASSUME Init PROVE Inv
  OBVIOUS
<1>1. ServerTypeOK
  BY DEF Init, ServerInit, ServerTypeOK
<1>2. PageTypes /\ PollerTypes /\ rendered = <<>>
  <2>1. rendered = <<>> /\ rendered \in Seq(Ops \X Nat)
    BY DEF Init
  <2>2. PageTypes
    BY <2>1 DEF Init, PageTypes, Request
  <2>3. NoPoller \in
           [phase : {"none", "waiting", "answered", "settled", "stopped", "gaveUp"},
            since : Nat, errors : Nat,
            reply : [from : Nat, to : Nat, status : {"none", "running"} \cup Terminal]]
    BY DEF NoPoller, NoReply
  <2>4. PollerTypes
    BY <2>3 DEF Init, PollerTypes
  <2>5. QED
    BY <2>1, <2>2, <2>4
<1>3. TypeOK
  BY <1>1, <1>2, TypeParts
<1>4. AttachedInv /\ ToldInv
  BY DEF Init, ServerInit, AttachedInv, ToldInv, Idle, Terminal
<1>5. Len(rendered) = 0
  BY <1>2
<1>6. RenderedInv
  BY <1>5 DEF RenderedInv, Init
<1>7. StreamInv /\ PollerInv
  BY DEF Init, StreamInv, PollerInv, Running, NoPoller
<1>8. QED
  BY <1>3, <1>4, <1>6, <1>7 DEF Inv

LEMMA NextInv ==
    ASSUME Inv, [Next]_vars
    PROVE  Inv'
<1>1. CASE UNCHANGED vars
  <2>1. UNCHANGED <<server, page>>
    BY <1>1 DEF vars
  <2>2. TypeOK' /\ AttachedInv' /\ ToldInv'
    BY <2>1 DEF server, page, Inv, TypeOK, ServerTypeOK, AttachedInv, ToldInv
  <2>3. RenderedInv'
    BY <2>1 DEF server, page, Inv, RenderedInv
  <2>4. StreamInv'
    BY <2>1 DEF server, page, Inv, StreamInv, InOrder, WireTold, Aligned
  <2>5. PollerInv'
    BY <2>1 DEF server, page, Inv, PollerInv, Running
  <2>6. QED
    BY <2>2, <2>3, <2>4, <2>5 DEF Inv
<1>2. ASSUME NEW o \in Ops, Start(o) \/ StreamBreaks(o) \/ PollFails(o) PROVE Inv'
  BY <1>2, StartStep, StreamBreaksStep, PollerStep
<1>3. CASE StartFailed \/ Cancel \/ CancelAnswered \/ CancelLost
  BY <1>3, AnswerStep
<1>4. CASE streamOperation
  BY <1>4, StreamOperationStep
<1>5. CASE closeTerminal
  BY <1>5, CloseTerminalStep
<1>6. ASSUME NEW o \in Ops, Die(o) \/ ServerEvent(o), UNCHANGED page PROVE Inv'
  BY <1>6, ServerStep
<1>7. ASSUME NEW o \in Ops, Delivery(o) PROVE Inv'
  BY <1>7, HandleStreamStep, ReceiveLineStep, ReceiveDoneStep, PollerStep DEF Delivery
<1>8. QED
  BY <1>1, <1>2, <1>3, <1>4, <1>5, <1>6, <1>7 DEF Next, Browser, Server

THEOREM Invariant == Spec => []Inv
<1>1. Inv /\ [Next]_vars => Inv'
  BY NextInv
<1>2. QED
  BY <1>1, InitInv, PTL DEF Spec

\* Every variable keeps its type, for scripts of any length.
THEOREM TypeCorrect == Spec => []TypeOK
<1>1. Inv => TypeOK
  BY DEF Inv
<1>2. QED
  BY <1>1, Invariant, PTL

\* The terminal shows a prefix of the log of the one operation it shows: the
\* hand-over from stream to poller and the answers that come late lose, repeat
\* and mix no line.
THEOREM RenderingExact == Spec => []RenderedIsPrefix
<1>1. Inv => RenderedIsPrefix
  <2> SUFFICES ASSUME Inv PROVE RenderedIsPrefix
    OBVIOUS
  <2> DEFINE n == Len(rendered)
             lines == [i \in 1..n |-> <<shown, i>>]
  <2>1. rendered \in Seq(Ops \X Nat) /\ n \in Nat
    BY TypeFacts DEF Inv, TypeOK
  <2>2. \A i \in 1..n : rendered[i] = <<shown, i>>
    BY DEF Inv, RenderedInv
  <2>3. rendered = [i \in 1..n |-> rendered[i]]
    BY <2>1
  <2>4. rendered = lines
    BY <2>2, <2>3
  <2>5. QED
    BY <2>4 DEF Inv, RenderedInv, RenderedIsPrefix
<1>2. QED
  BY <1>1, Invariant, PTL

\* A final badge is the outcome the server recorded for the operation shown.
THEOREM BadgeExact == Spec => []BadgeIsTruthful
<1>1. Inv => BadgeIsTruthful
  BY DEF Inv, ToldInv, BadgeIsTruthful
<1>2. QED
  BY <1>1, Invariant, PTL

-----------------------------------------------------------------------------
(* Refinement                                                                *)

\* A process that runs belongs to an operation, and has no exit code.
ProcessInv ==
    \A o \in Ops :
        /\ status[o] = "none" => child[o] = "none" /\ code[o] = "alive"
        /\ child[o] = "alive" => code[o] = "alive"
        /\ child[o] = "dead" => code[o] # "alive"

\* One server step is one step of the promise, or none.
LEMMA OutcomeStep ==
    ASSUME ServerTypeOK, ProcessInv, NEW o \in Ops,
           CreateOperation(o) \/ CancelOperation(o) \/ Die(o) \/ ServerEvent(o)
    PROVE  ProcessInv' /\ (Outcome!Next \/ UNCHANGED Outcome!vars)
<1> USE DEF Outcome!Next, Outcome!vars, ServerTypeOK
<1>0. ASSUME \/ Outcome!Start(o) \/ Outcome!StartFails(o) \/ Outcome!End(o)
             \/ Outcome!See(o) \/ Outcome!Finish(o) \/ Outcome!Cancel(o)
      PROVE  Outcome!Next
  BY <1>0
<1>1. CASE CreateOperation(o)
  <2>1. ProcessInv'
    BY <1>1 DEF CreateOperation, ProcessInv
  <2>2. Outcome!Start(o) \/ Outcome!StartFails(o)
    BY <1>1 DEF CreateOperation, Outcome!Start, Outcome!StartFails
  <2>3. QED
    BY <1>0, <2>1, <2>2
<1>2. CASE CancelOperation(o)
  <2>1. CASE CancelWins(o)
    <3>1. status' = [status EXCEPT ![o] = "cancelled"] /\ UNCHANGED process
      BY <1>2, <2>1 DEF CancelOperation, CancelWins, transitionToTerminal
    <3>2. ProcessInv'
      BY <2>1, <3>1 DEF ProcessInv, process, CancelWins
    <3>3. Outcome!Cancel(o)
      BY <2>1, <3>1 DEF process, CancelWins, Outcome!Cancel
    <3>4. QED
      BY <1>0, <3>2, <3>3
  <2>2. CASE ~CancelWins(o)
    BY <1>2, <2>2 DEF CancelOperation, ProcessInv, process, records
  <2>3. QED
    BY <2>1, <2>2
<1>3. CASE Die(o)
  <2>1. ProcessInv'
    BY <1>3 DEF Die, ProcessInv, records
  <2>2. Outcome!End(o)
    BY <1>3 DEF Die, ProcessInv, records, Outcome!End
  <2>3. QED
    BY <1>0, <2>1, <2>2
<1>4. CASE DataEvent(o)
  BY <1>4 DEF DataEvent, appendLog, ProcessInv, process
<1>5. CASE ExitEvent(o)
  <2>1. ProcessInv'
    BY <1>5 DEF ExitEvent, ProcessInv, records
  <2>2. Outcome!See(o)
    BY <1>5 DEF ExitEvent, ProcessInv, records, Outcome!See
  <2>3. QED
    BY <1>0, <2>1, <2>2
<1>6. CASE CloseEvent(o)
  <2>1. child' = [child EXCEPT ![o] = "closed"] /\ UNCHANGED <<code, childExited>>
    BY <1>6 DEF CloseEvent
  <2>2. CASE status[o] = "running"
    <3>1. status' = [status EXCEPT ![o] = IF code[o] = "zero" THEN "completed" ELSE "failed"]
      BY <1>6, <2>2 DEF CloseEvent, finishOperation, transitionToTerminal
    <3>2. ProcessInv'
      BY <2>1, <2>2, <3>1 DEF ProcessInv
    <3>3. Outcome!Finish(o)
      BY <1>6, <2>1, <2>2, <3>1 DEF CloseEvent, Outcome!Finish
    <3>4. QED
      BY <1>0, <3>2, <3>3
  <2>3. CASE status[o] # "running"
    <3>1. UNCHANGED status
      BY <1>6, <2>3 DEF CloseEvent, finishOperation, transitionToTerminal, records
    <3>2. ProcessInv'
      BY <1>6, <2>1, <3>1 DEF CloseEvent, ProcessInv
    <3>3. QED
      BY <2>1, <3>1, <3>2
  <2>4. QED
    BY <2>2, <2>3
<1>7. QED
  BY <1>1, <1>2, <1>3, <1>4, <1>5, <1>6 DEF ServerEvent

\* Whatever the page does and whichever order the events of the child come in,
\* an operation has one outcome, the true one.
THEOREM OutcomeImplemented == Spec => OutcomeSpec
<1>1. Init => ProcessInv /\ Outcome!Init
  BY DEF Init, ServerInit, ProcessInv, Outcome!Init
<1>2. ASSUME Inv, ProcessInv, [Next]_vars
      PROVE  ProcessInv' /\ (Outcome!Next \/ UNCHANGED Outcome!vars)
  <2>1. ServerTypeOK
    BY <1>2, TypeFacts DEF Inv
  <2>2. CASE UNCHANGED <<status, process>>
    BY <1>2, <2>2 DEF ProcessInv, process, Outcome!vars
  <2>3. ASSUME NEW o \in Ops,
               CreateOperation(o) \/ CancelOperation(o) \/ Die(o) \/ ServerEvent(o)
        PROVE  ProcessInv' /\ (Outcome!Next \/ UNCHANGED Outcome!vars)
    BY <1>2, <2>1, <2>3, OutcomeStep
  <2>4. CASE UNCHANGED vars
    BY <2>2, <2>4 DEF vars, server, process
  <2>5. ASSUME NEW o \in Ops, Start(o) PROVE UNCHANGED <<status, process>> \/ CreateOperation(o)
    BY <2>5 DEF Start, server, process
  <2>6. CASE Cancel
    BY <1>2, <2>3, <2>6, TypeParts DEF Cancel, Inv, PageTypes
  <2>7. CASE StartFailed \/ CancelAnswered \/ CancelLost
    BY <2>2, <2>7 DEF StartFailed, CancelAnswered, CancelLost, server, process
  <2>8. CASE CloseSource
    BY <2>2, <2>8 DEF CloseSource, CloseStream, server, process
  <2>9. ASSUME NEW o \in Ops, Delivery(o) \/ PollFails(o) PROVE UNCHANGED <<status, process>>
    BY <2>9 DEF Delivery, HandleStream, OpenStream, ReceiveLine, ReceiveDone, HandlePoll,
         PollAnswered, PollFails, server, process
  <2>10. CASE streamOperation \/ closeTerminal \/ \E o \in Ops : StreamBreaks(o)
    BY <2>8, <2>10 DEF streamOperation, closeTerminal, StreamBreaks
  <2>11. QED
    BY <1>2, <2>2, <2>3, <2>4, <2>5, <2>6, <2>7, <2>9, <2>10 DEF Next, Browser, Server
<1>3. QED
  BY <1>1, <1>2, Invariant, PTL DEF Spec, OutcomeSpec, Outcome!Spec

-----------------------------------------------------------------------------
(* The log and the record                                                    *)

Tells(lines, s) ==
    /\ \A j \in DOMAIN lines : lines[j] \in Terminal =>
          /\ lines[j] = s
          /\ \A k \in DOMAIN lines : lines[k] \in Terminal => k = j
    /\ s \in Terminal => \E j \in DOMAIN lines : lines[j] \in Terminal

LEMMA LogTells == LogTellsOutcome <=> \A o \in Ops : Tells(log[o], status[o])
<1> DEFINE verdicts(o) == {j \in DOMAIN log[o] : log[o][j] \in Terminal}
           One(o) == /\ \A j \in verdicts(o) : log[o][j] = status[o] /\ verdicts(o) = {j}
                     /\ status[o] \in Terminal => verdicts(o) # {}
<1>1. ASSUME NEW o \in Ops PROVE One(o) <=> Tells(log[o], status[o])
  <2>1. One(o) => Tells(log[o], status[o])
    BY DEF Tells
  <2>2. ASSUME Tells(log[o], status[o]), NEW j \in verdicts(o)
        PROVE  log[o][j] = status[o] /\ verdicts(o) = {j}
    BY <2>2 DEF Tells
  <2>3. Tells(log[o], status[o]) => (status[o] \in Terminal => verdicts(o) # {})
    BY DEF Tells
  <2> QED
    BY <2>1, <2>2, <2>3
<1>2. LogTellsOutcome <=> \A o \in Ops : One(o)
  BY DEF LogTellsOutcome
<1> HIDE DEF One
<1> QED
  BY <1>1, <1>2

\* The lines of a log after one more was written.
LEMMA LineAppended ==
    ASSUME NEW lines \in Seq(Lines), NEW line \in Lines
    PROVE  \E n \in Nat : /\ DOMAIN lines = 1..n
                          /\ DOMAIN Append(lines, line) = 1..(n + 1)
                          /\ Append(lines, line)[n + 1] = line
                          /\ \A k \in 1..n : Append(lines, line)[k] = lines[k]
<1> DEFINE n == Len(lines)
           longer == Append(lines, line)
<1>1. n \in Nat /\ DOMAIN lines = 1..n
  BY LenProperties
<1>2. /\ longer \in Seq(Lines) /\ Len(longer) = n + 1
      /\ \A k \in 1..n : longer[k] = lines[k]
      /\ longer[n + 1] = line
  BY AppendProperties
<1>3. DOMAIN longer = 1..(n + 1)
  <2> HIDE DEF longer, n
  <2> QED
    BY <1>2, LenProperties
<1> QED
  BY <1>1, <1>2, <1>3

\* Output adds no verdict.
LEMMA OutputTells ==
    ASSUME NEW lines \in Seq(Lines), NEW line \in Lines \ Terminal, NEW s, Tells(lines, s)
    PROVE  Tells(Append(lines, line), s)
<1> DEFINE longer == Append(lines, line)
<1>1. PICK n \in Nat : /\ DOMAIN lines = 1..n /\ DOMAIN longer = 1..(n + 1)
                       /\ longer[n + 1] = line /\ \A k \in 1..n : longer[k] = lines[k]
  BY LineAppended
<1> HIDE DEF longer
<1>2. \A k \in 1..(n + 1) : longer[k] \in Terminal => k \in 1..n /\ longer[k] = lines[k]
  BY <1>1
<1>3. \A k \in 1..n : k \in 1..(n + 1)
  BY <1>1
<1>4. Tells(longer, s)
  BY <1>1, <1>2, <1>3 DEF Tells
<1> QED
  BY <1>4 DEF longer

\* The verdict of the winner is the first, and that of the record.
LEMMA VerdictTells ==
    ASSUME NEW lines \in Seq(Lines), NEW s, s \notin Terminal, NEW outcome \in Terminal,
           Tells(lines, s)
    PROVE  Tells(Append(lines, outcome), outcome)
<1> DEFINE longer == Append(lines, outcome)
<1>0. outcome \in Lines
  BY DEF Lines
<1>1. PICK n \in Nat : /\ DOMAIN lines = 1..n /\ DOMAIN longer = 1..(n + 1)
                       /\ longer[n + 1] = outcome /\ \A k \in 1..n : longer[k] = lines[k]
  BY <1>0, LineAppended
<1> HIDE DEF longer
<1>2. \A k \in 1..n : lines[k] \notin Terminal
  BY <1>1 DEF Tells
<1>3. \A k \in 1..(n + 1) : longer[k] \in Terminal => k = n + 1
  <2> SUFFICES ASSUME NEW k \in 1..(n + 1), k # n + 1 PROVE longer[k] \notin Terminal
    OBVIOUS
  <2>1. k \in 1..n
    BY <1>1
  <2> QED
    BY <1>1, <1>2, <2>1
<1>4. n + 1 \in 1..(n + 1)
  BY <1>1
<1>5. Tells(longer, outcome)
  BY <1>1, <1>3, <1>4 DEF Tells
<1> QED
  BY <1>5 DEF longer

LEMMA NewLogTells ==
    /\ Tells(<<>>, "none")
    /\ Tells(<<"system">>, "running")
    /\ Tells(<<"system", "stderr", "failed">>, "failed")
<1>1. Tells(<<>>, "none")
  BY DEF Tells, Terminal
<1>2. Tells(<<"system">>, "running")
  BY DEF Tells, Terminal
<1>3. Tells(<<"system", "stderr", "failed">>, "failed")
  <2> DEFINE lines == <<"system", "stderr", "failed">>
  <2>1. DOMAIN lines = 1..3 /\ lines[1] = "system" /\ lines[2] = "stderr" /\ lines[3] = "failed"
    OBVIOUS
  <2> HIDE DEF lines
  <2>2. \A k \in 1..3 : lines[k] \in Terminal => k = 3
    BY <2>1 DEF Terminal
  <2>3. Tells(lines, "failed")
    BY <2>1, <2>2 DEF Tells, Terminal
  <2> QED
    BY <2>3 DEF lines
<1> QED
  BY <1>1, <1>2, <1>3

LEMMA LogStep ==
    ASSUME ServerTypeOK, \A p \in Ops : Tells(log[p], status[p]), NEW o \in Ops,
           CreateOperation(o) \/ CancelOperation(o) \/ Die(o) \/ ServerEvent(o)
    PROVE  \A p \in Ops : Tells(log'[p], status'[p])
<1>1. /\ log \in [Ops -> Seq(Lines)] /\ log[o] \in Seq(Lines) /\ Tells(log[o], status[o])
      /\ status \in [Ops -> {"none", "running"} \cup Terminal]
  BY ServerTypes DEF ServerTypeOK
<1>2. SUFFICES \/ UNCHANGED <<log, status>>
               \/ \E lines, s : /\ log' = [log EXCEPT ![o] = lines]
                               /\ status' = [status EXCEPT ![o] = s]
                               /\ Tells(lines, s)
  BY <1>1
<1>3. ASSUME NEW outcome \in Terminal, transitionToTerminal(o, outcome)
      PROVE  \/ UNCHANGED <<log, status>>
             \/ /\ log' = [log EXCEPT ![o] = Append(log[o], outcome)]
                /\ status' = [status EXCEPT ![o] = outcome]
                /\ Tells(Append(log[o], outcome), outcome)
  <2>1. CASE status[o] = "running"
    <3>1. Tells(Append(log[o], outcome), outcome)
      BY <1>1, <2>1, VerdictTells DEF Terminal
    <3> QED
      BY <1>3, <2>1, <3>1 DEF transitionToTerminal
  <2>2. CASE status[o] # "running"
    BY <1>3, <2>2 DEF transitionToTerminal, records
  <2> QED
    BY <2>1, <2>2
<1>4. CASE CreateOperation(o)
  BY <1>4, NewLogTells DEF CreateOperation
<1>5. CASE CancelOperation(o)
  <2>1. transitionToTerminal(o, "cancelled") \/ UNCHANGED records
    BY <1>5 DEF CancelOperation
  <2> QED
    BY <1>3, <2>1 DEF Terminal, records
<1>6. CASE DataEvent(o)
  <2>1. "stdout" \in Lines \ Terminal
    BY DEF Lines, Terminal
  <2>2. Tells(Append(log[o], "stdout"), status[o])
    BY <1>1, <2>1, OutputTells
  <2>3. log' = [log EXCEPT ![o] = Append(log[o], "stdout")] /\ status' = status
    BY <1>6 DEF DataEvent, appendLog
  <2>4. status' = [status EXCEPT ![o] = status[o]]
    BY <1>1, <2>3
  <2> QED
    BY <2>2, <2>3, <2>4
<1>7. CASE CloseEvent(o)
  <2>1. PICK outcome \in {"completed", "failed"} : transitionToTerminal(o, outcome)
    BY <1>7 DEF CloseEvent, finishOperation
  <2> QED
    BY <1>3, <2>1 DEF Terminal
<1>8. CASE Die(o) \/ ExitEvent(o)
  BY <1>8 DEF Die, ExitEvent, records
<1> QED
  BY <1>4, <1>5, <1>6, <1>7, <1>8 DEF ServerEvent

\* The log of an operation holds one verdict, that of its record, from the moment
\* the record has one, whichever of cancel, exit and close came first.
THEOREM LogIsTruthful == Spec => []LogTellsOutcome
<1> DEFINE Told == \A o \in Ops : Tells(log[o], status[o])
<1>1. Init => Told
  <2>1. Init => \A o \in Ops : log[o] = <<>> /\ status[o] = "none"
    BY DEF Init, ServerInit
  <2> QED
    BY <2>1, NewLogTells
<1>2. ASSUME Inv, Told, [Next]_vars PROVE Told'
  <2>1. ServerTypeOK
    BY <1>2, TypeFacts DEF Inv
  <2>2. CASE UNCHANGED <<status, log>>
    BY <1>2, <2>2
  <2>3. ASSUME NEW o \in Ops,
               CreateOperation(o) \/ CancelOperation(o) \/ Die(o) \/ ServerEvent(o)
        PROVE  Told'
    BY <1>2, <2>1, <2>3, LogStep
  <2>4. CASE UNCHANGED vars
    BY <2>2, <2>4 DEF vars, server
  <2>5. ASSUME NEW o \in Ops, Start(o) PROVE UNCHANGED <<status, log>> \/ CreateOperation(o)
    BY <2>5 DEF Start, server
  <2>6. CASE Cancel
    BY <1>2, <2>3, <2>6, TypeParts DEF Cancel, Inv, PageTypes
  <2>7. CASE StartFailed \/ CancelAnswered \/ CancelLost
    BY <2>2, <2>7 DEF StartFailed, CancelAnswered, CancelLost, server
  <2>8. CASE CloseSource
    BY <2>2, <2>8 DEF CloseSource, CloseStream, server
  <2>9. ASSUME NEW o \in Ops, Delivery(o) \/ PollFails(o) PROVE UNCHANGED <<status, log>>
    BY <2>9 DEF Delivery, HandleStream, OpenStream, ReceiveLine, ReceiveDone, HandlePoll,
         PollAnswered, PollFails, server
  <2>10. CASE streamOperation \/ closeTerminal \/ \E o \in Ops : StreamBreaks(o)
    BY <2>8, <2>10 DEF streamOperation, closeTerminal, StreamBreaks
  <2> HIDE DEF Told
  <2>11. QED
    BY <1>2, <2>2, <2>3, <2>4, <2>5, <2>6, <2>7, <2>9, <2>10 DEF Next, Browser, Server
<1>3. Told => LogTellsOutcome
  BY LogTells
<1> HIDE DEF Told
<1> QED
  BY <1>1, <1>2, <1>3, Invariant, PTL DEF Spec

-----------------------------------------------------------------------------
(* Two scripts at work                                                       *)

\* What stands between OneMutatingScript and the code: two deploy or destroy
\* scripts are alive together only if one of them was cancelled.
OverlapAfterCancel ==
    \A o, p \in Mutating :
        o # p /\ child[o] = "alive" /\ child[p] = "alive" => "cancelled" \in {status[o], status[p]}

ScriptInv ==
    /\ \A o \in Ops : child[o] = "alive" => status[o] \in {"running", "cancelled"}
    /\ \A o, p \in Mutating : status[o] = "running" /\ status[p] = "running" => o = p

LEMMA ScriptStep ==
    ASSUME ServerTypeOK, ScriptInv, NEW o \in Ops,
           CreateOperation(o) \/ CancelOperation(o) \/ Die(o) \/ ServerEvent(o)
    PROVE  ScriptInv'
<1> USE OperationAssumption DEF ScriptInv, ServerTypeOK
<1>1. CASE CreateOperation(o)
  <2>1. \A p \in Ops \ {o} : status'[p] = status[p] /\ child'[p] = child[p]
    BY <1>1 DEF CreateOperation
  <2>2. \/ status'[o] = "running" /\ child'[o] = "alive"
        \/ status'[o] = "failed" /\ child'[o] = "closed"
    BY <1>1 DEF CreateOperation
  <2>3. o \in Mutating => \A p \in Mutating : status[p] # "running"
    BY <1>1 DEF CreateOperation, Conflict
  <2> QED
    BY <2>1, <2>2, <2>3
<1>2. ASSUME NEW outcome \in Terminal, transitionToTerminal(o, outcome)
      PROVE  /\ \A p \in Ops \ {o} : status'[p] = status[p]
             /\ status'[o] = IF status[o] = "running" THEN outcome ELSE status[o]
  BY <1>2 DEF transitionToTerminal, records
<1>3. CASE CancelOperation(o)
  <2>1. /\ \A p \in Ops \ {o} : status'[p] = status[p]
        /\ status'[o] \in {status[o], "cancelled"}
    BY <1>2, <1>3 DEF CancelOperation, records, Terminal
  <2>2. child' = child
    BY <1>3 DEF CancelOperation, process
  <2> QED
    BY <2>1, <2>2
<1>4. CASE CloseEvent(o)
  <2>1. PICK outcome \in {"completed", "failed"} : transitionToTerminal(o, outcome)
    BY <1>4 DEF CloseEvent, finishOperation
  <2>2. /\ \A p \in Ops \ {o} : status'[p] = status[p]
        /\ status'[o] \in {status[o], outcome}
    BY <1>2, <2>1 DEF Terminal
  <2>3. child' = [child EXCEPT ![o] = "closed"]
    BY <1>4 DEF CloseEvent
  <2> QED
    BY <2>2, <2>3
<1>5. CASE Die(o) \/ DataEvent(o) \/ ExitEvent(o)
  <2>1. status' = status /\ child' \in {child, [child EXCEPT ![o] = "dead"]}
    BY <1>5 DEF Die, DataEvent, ExitEvent, appendLog, records, process
  <2> QED
    BY <2>1
<1> QED
  BY <1>1, <1>3, <1>4, <1>5 DEF ServerEvent

\* The 409 of the deploy and destroy routes fails in this way only: with no
\* cancel there is one script at work, however often a page that lost its answer
\* asks for another.
THEOREM ScriptsOverlapAfterCancel == Spec => []OverlapAfterCancel
<1>1. Init => ScriptInv
  <2>1. Init => \A o \in Ops : status[o] = "none" /\ child[o] = "none"
    BY DEF Init, ServerInit
  <2> QED
    BY <2>1, OperationAssumption DEF ScriptInv
<1>2. ASSUME Inv, ScriptInv, [Next]_vars PROVE ScriptInv'
  <2>1. ServerTypeOK
    BY <1>2, TypeFacts DEF Inv
  <2>2. CASE UNCHANGED <<status, child>>
    BY <1>2, <2>2 DEF ScriptInv
  <2>3. ASSUME NEW o \in Ops,
               CreateOperation(o) \/ CancelOperation(o) \/ Die(o) \/ ServerEvent(o)
        PROVE  ScriptInv'
    BY <1>2, <2>1, <2>3, ScriptStep
  <2>4. CASE UNCHANGED vars
    BY <2>2, <2>4 DEF vars, server
  <2>5. ASSUME NEW o \in Ops, Start(o) PROVE UNCHANGED <<status, child>> \/ CreateOperation(o)
    BY <2>5 DEF Start, server
  <2>6. CASE Cancel
    BY <1>2, <2>3, <2>6, TypeParts DEF Cancel, Inv, PageTypes
  <2>7. CASE StartFailed \/ CancelAnswered \/ CancelLost
    BY <2>2, <2>7 DEF StartFailed, CancelAnswered, CancelLost, server
  <2>8. CASE CloseSource
    BY <2>2, <2>8 DEF CloseSource, CloseStream, server, process
  <2>9. ASSUME NEW o \in Ops, Delivery(o) \/ PollFails(o) PROVE UNCHANGED <<status, child>>
    BY <2>9 DEF Delivery, HandleStream, OpenStream, ReceiveLine, ReceiveDone, HandlePoll,
         PollAnswered, PollFails, server, process
  <2>10. CASE streamOperation \/ closeTerminal \/ \E o \in Ops : StreamBreaks(o)
    BY <2>8, <2>10 DEF streamOperation, closeTerminal, StreamBreaks
  <2>11. QED
    BY <1>2, <2>2, <2>3, <2>4, <2>5, <2>6, <2>7, <2>9, <2>10 DEF Next, Browser, Server
<1>3. ScriptInv => OverlapAfterCancel
  BY OperationAssumption DEF ScriptInv, OverlapAfterCancel
<1> QED
  BY <1>1, <1>2, <1>3, Invariant, PTL DEF Spec

-----------------------------------------------------------------------------
(* A page that goes on                                                       *)

\* A terminal that says "running" is fed by the stream or by a poller of the
\* operation it shows, unless the poller gave up.
RunningIsFollowed ==
    visible /\ badge = "running" =>
        /\ shown # NoOp
        /\ conn = shown \/ Running(shown) \/ poller[shown].phase = "gaveUp"

LEMMA DoneIsFinal ==
    ASSUME Inv, NEW o \in Ops, ReceiveDone(o)
    PROVE  badge' \in Terminal
<1>1. /\ conn = o /\ source[o] = "open" /\ wire[o] # <<>>
      /\ "done" \in DOMAIN Head(wire[o])
      /\ badge' = Head(wire[o]).done
      /\ wire' = [wire EXCEPT ![o] = Tail(@)]
      /\ UNCHANGED <<status, log, process, subscribed>>
  BY DEF ReceiveDone, handleTerminalOperation
<1>2. ServerTypeOK /\ InOrder(o)
  BY <1>1, TypeFacts, TransportAssumption DEF Inv, AttachedInv, StreamInv
<1>3. Len(wire[o]) \in Nat \ {0} /\ wire[o][1] = Head(wire[o])
  BY <1>1, <1>2, Taken
<1>4. wire[o][1] \in Event
  BY <1>2, <1>3, ServerTypes
<1> QED
  BY <1>1, <1>3, <1>4, EventKinds

LEMMA FollowStep ==
    ASSUME Inv, RunningIsFollowed, [Next]_vars
    PROVE  RunningIsFollowed'
<1> DEFINE Phases == {"none", "waiting", "answered", "settled", "stopped", "gaveUp"}
           followed == <<visible, badge, shown, conn, poller>>
<1>0. /\ shown \in Ops \cup {NoOp} /\ conn \in Ops \cup {NoOp} /\ DOMAIN poller = Ops
      /\ \A o \in Ops : DOMAIN poller[o] = {"phase", "since", "errors", "reply"}
      /\ conn # NoOp => conn = shown
      /\ \A o \in Ops : Running(o) => shown = o
  BY TypeFacts DEF Inv, TypeOK, AttachedInv, PollerInv
<1>1. CASE UNCHANGED followed
  BY <1>1 DEF RunningIsFollowed, Running
<1>2. CASE ~visible' \/ badge' \in Terminal
  BY <1>2 DEF RunningIsFollowed, Terminal
<1>3. CASE UNCHANGED vars \/ Server
  BY <1>1, <1>3 DEF vars, page, Server
<1>4. CASE \E o \in Ops : Start(o)
  BY <1>1, <1>4 DEF Start
<1>5. CASE StartFailed \/ CancelLost \/ Cancel
  BY <1>1, <1>5 DEF StartFailed, CancelLost, Cancel, CancelOnly
<1>6. CASE CancelAnswered
  BY <1>1, <1>2, <1>6 DEF CancelAnswered, CancelOnly, handleTerminalOperation
<1>7. CASE closeTerminal
  BY <1>2, <1>7 DEF closeTerminal
<1>8. CASE streamOperation
  <2>1. shown' = starting.op /\ conn' = starting.op /\ starting.op \in Ops
    BY <1>8 DEF streamOperation, Inv, AttachedInv
  <2> QED
    BY <2>1, TransportAssumption DEF RunningIsFollowed
<1>9. CASE \E o \in Ops : HandleStream(o) \/ ReceiveLine(o)
  BY <1>1, <1>9 DEF HandleStream, ReceiveLine
<1>10. CASE \E o \in Ops : ReceiveDone(o)
  BY <1>2, <1>10, DoneIsFinal
<1>11. ASSUME NEW o \in Ops, StreamBreaks(o) PROVE RunningIsFollowed'
  <2>1. conn = o /\ shown = o /\ shown' = shown
    BY <1>0, <1>11, TransportAssumption DEF StreamBreaks
  <2>2. poller'[o].phase = "waiting"
    BY <1>11 DEF StreamBreaks, Stopped, NoPoller
  <2> QED
    BY <2>1, <2>2, TransportAssumption DEF RunningIsFollowed, Running
<1>12. ASSUME NEW o \in Ops, HandlePoll(o) \/ PollAnswered(o) \/ PollFails(o)
       PROVE  RunningIsFollowed'
  <2>1. shown = o /\ UNCHANGED <<shown, conn, visible>>
    BY <1>0, <1>12 DEF HandlePoll, PollAnswered, PollFails, PollOnly, Running
  <2>2. CASE HandlePoll(o)
    <3>1. poller'[o].phase = "answered"
      BY <1>0, <2>2 DEF HandlePoll
    <3> QED
      BY <2>1, <3>1, TransportAssumption DEF RunningIsFollowed, Running
  <2>3. CASE PollFails(o)
    <3>1. poller'[o].phase \in {"waiting", "gaveUp"}
      BY <1>0, <2>3 DEF PollFails, NoPoller
    <3> QED
      BY <2>1, <3>1, TransportAssumption DEF RunningIsFollowed, Running
  <2>4. CASE PollAnswered(o) /\ poller[o].reply.status = "running"
    <3>1. poller'[o].phase = "waiting"
      BY <1>0, <2>4 DEF PollAnswered, PollAgain, NoPoller
    <3> QED
      BY <2>1, <3>1, TransportAssumption DEF RunningIsFollowed, Running
  <2>5. CASE PollAnswered(o) /\ poller[o].reply.status # "running"
    <3>1. badge' = poller[o].reply.status /\ poller[o].phase = "answered"
      BY <2>5 DEF PollAnswered, handleTerminalOperation
    <3>2. badge' # "running"
      BY <2>5, <3>1
    <3> QED
      BY <3>2 DEF RunningIsFollowed
  <2> QED
    BY <1>12, <2>2, <2>3, <2>4, <2>5
<1> QED
  BY <1>3, <1>4, <1>5, <1>6, <1>7, <1>8, <1>9, <1>10, <1>11, <1>12 DEF Next, Browser, Delivery

\* Streams that break, answers that are lost, cancels that lose and operations
\* that are followed one after the other never leave a terminal that says
\* "running" without anything that would tell it otherwise: EndIsShown rests on
\* this, and on the fairness of what feeds it.
THEOREM NoTerminalIsForgotten == Spec => []RunningIsFollowed
<1>1. Init => RunningIsFollowed
  BY DEF Init, RunningIsFollowed
<1>2. Inv /\ RunningIsFollowed /\ [Next]_vars => RunningIsFollowed'
  BY FollowStep
<1> QED
  BY <1>1, <1>2, Invariant, PTL DEF Spec
=============================================================================
