---------------------------- MODULE ScheduledTask ----------------------------
(***************************************************************************)
(* The daily health report: scripts/bootstrap-sre-agent-scheduled-task.ps1, *)
(* which configures the agent's scheduled task, runs it and reads what its  *)
(* threads report, and tools/mission-control/scheduled-task-evidence.js,    *)
(* which decides from a report that the operator posts, and from the proof  *)
(* that scripts/validate-telemetry.ps1 leaves, whether the presenter's      *)
(* scheduled-task gate opens.                                               *)
(*                                                                         *)
(* The task groups its messages in the SameThread, so that a thread that    *)
(* completed may run again, before the script looks at it or after.  The    *)
(* task may be changed in the portal, a printed report may be posted late,  *)
(* in any order and with any timestamp, and every request may fail.  The    *)
(* script runs on a workstation whose clock may be ahead of the server's.   *)
(* Time is counted in polling intervals, and a request takes less than one. *)
(***************************************************************************)
EXTENDS Integers, FiniteSets

CONSTANTS
    MAX_EVIDENCE_AGE,           \* MAX_EVIDENCE_AGE_MINUTES, in intervals
    MAX_TELEMETRY_PROOF_AGE,
    RunNowMaxWait,
    MaxSkew,
    MaxTime, MaxThreads, MaxReports     \* bounds of the model

ASSUME TaskAssumption ==
    /\ MAX_EVIDENCE_AGE \in Nat /\ MAX_TELEMETRY_PROOF_AGE \in Nat
    /\ RunNowMaxWait \in Nat /\ MaxSkew \in Nat
    /\ MaxTime \in Nat /\ MaxThreads \in Nat /\ MaxReports \in Nat

VARIABLES
    clock,          \* the server's
    skew,           \* how far the workstation is ahead
    task,           \* the scheduled task on the agent's data plane
    threads,        \* what its executions so far have written to
    script,         \* the one run of the script
    reports,        \* what the script has printed
    evidence,       \* scheduled-task-evidence.json
    proof           \* verifiedAt of telemetry-proof.json

taskVars == <<clock, skew, task, threads, script, reports, evidence, proof>>

\* Absent, as the script has it, or anything else.
TaskStates == {"absent", "other", "wanted"}

Statuses == {"Healthy", "Degraded", "Insufficient evidence"}

\* The last message of a thread, be it a report or one on the way to it: its
\* status line, or none that is recognised.
Labels == Statuses \cup {"unrecognised"}

Threads == 1..MaxThreads
Threads0 == 0..MaxThreads   \* 0 is no thread

NoProof == -1

TaskSteps == {"idle", "configured", "read", "write", "verify", "trigger", "list", "poll",
              "messages", "sleep"}

\* A thread, the beginning of its latest execution, and its last message.
ThreadStates == [phase : {"none", "running", "Complete"}, start : 0..MaxTime, label : Labels]

Runs ==
    [action : {"none", "Bootstrap", "RunNow", "History"},
     step : TaskSteps, thread : Threads0, deadline : Nat, polled : Nat]

\* What RunNow and History print of a thread, and when they read it there, by
\* the workstation's clock.  The operator copies the one and types a timestamp:
\* RunNow prints none, and that of History is checked by nobody.
Reports == [thread : Threads0, status : Statuses, read : Nat]

Evidence == [thread : Threads0, status : Statuses, read : Nat, timestamp : Nat]

\* No run; configured is the exit of a Bootstrap with 0.
Exited(step) == [action |-> "none", step |-> step, thread |-> 0, deadline |-> 0, polled |-> 0]

NoEvidence ==
    [thread |-> 0, status |-> "Insufficient evidence", read |-> 0, timestamp |-> 0]

TaskInit ==
    /\ clock = 0
    /\ skew \in 0..MaxSkew
    /\ task \in TaskStates
    /\ threads = [t \in Threads |-> [phase |-> "none", start |-> 0, label |-> "unrecognised"]]
    /\ script = Exited("idle")
    /\ reports = {}
    /\ evidence = NoEvidence
    /\ proof = NoProof

-----------------------------------------------------------------------------
(* The agent                                                                 *)

Started == {t \in Threads : threads[t].phase # "none"}

\* The thread that an execution of the task writes to: with SameThread the last
\* one, but a task that is new or was edited may open another.
Receives(t) ==
    \/ t \in Started /\ \A u \in Started : u <= t
    \/ t \notin Started /\ t - 1 \in Started \cup {0}

\* An execution begins, the messages of earlier ones still there.
Execute(t) ==
    /\ Receives(t) /\ threads[t].phase # "running"
    /\ threads' = [threads EXCEPT ![t].phase = "running", ![t].start = clock]

\* On schedule, or because it was triggered and had to wait.
BeginExecution ==
    /\ task # "absent" \/ script.action = "RunNow"
    /\ \E t \in Threads : Execute(t)
    /\ UNCHANGED <<clock, skew, task, script, reports, evidence, proof>>

\* An execution writes a message, its last one or not.
WriteMessage(t) ==
    /\ threads[t].phase = "running"
    /\ \E l \in Labels, phase \in {"running", "Complete"} :
          threads' = [threads EXCEPT ![t].phase = phase, ![t].label = l]
    /\ UNCHANGED <<clock, skew, task, script, reports, evidence, proof>>

\* Someone edits or deletes the task in the portal, or with the script's
\* teardown action.
Drift ==
    /\ task' \in {"absent", "other"} \ {task}
    /\ UNCHANGED <<clock, skew, threads, script, reports, evidence, proof>>

-----------------------------------------------------------------------------
(* The script                                                                *)

NoRun == script.step \in {"idle", "configured"}

Throw == script' = Exited("idle")

\* The operator starts the script for one of its actions.
StartScript(action, step) ==
    /\ NoRun
    /\ action # "Bootstrap" => Cardinality(reports) < MaxReports
    /\ script' = [Exited(step) EXCEPT !.action = action]
    /\ UNCHANGED <<clock, skew, task, threads, reports, evidence, proof>>

\* An answer that is no success and no 404: the script throws.
RequestFails ==
    /\ script.step \in {"read", "write", "verify", "trigger", "list", "poll", "messages"}
    /\ Throw
    /\ UNCHANGED <<clock, skew, task, threads, reports, evidence, proof>>

\* The task as it is; 404 means that it has to be created.
ReadTask ==
    /\ script.step = "read"
    /\ script' = IF task = "wanted" THEN Exited("configured")
                                   ELSE [script EXCEPT !.step = "write"]
    /\ UNCHANGED <<clock, skew, task, threads, reports, evidence, proof>>

\* Mutant of WriteTask: an accepted write counts as the task being configured.
WriteTaskTrusted ==
    /\ script.step = "write"
    /\ task' \in {task, "other", "wanted"}
    /\ script' = Exited("configured")
    /\ UNCHANGED <<clock, skew, threads, reports, evidence, proof>>

\* PUT or PATCH, whose fields the preview may ignore.
WriteTask ==
    /\ script.step = "write"
    /\ task' \in {task, "other", "wanted"}
    /\ script' = [script EXCEPT !.step = "verify"]
    /\ UNCHANGED <<clock, skew, threads, reports, evidence, proof>>

\* Read back, and compared field by field with what was sent.
VerifyTask ==
    /\ script.step = "verify"
    /\ script' = Exited(IF task = "wanted" THEN "configured" ELSE "idle")
    /\ UNCHANGED <<clock, skew, task, threads, reports, evidence, proof>>

\* Invoke-ScheduledTaskRunNowRequest: the answer names the thread in which the
\* triggered execution has begun, or will begin, or joined one under way.
Trigger ==
    /\ script.step = "trigger"
    /\ IF task = "absent"
       THEN Throw /\ UNCHANGED threads
       ELSE \E t \in Threads :
               /\ \/ Execute(t)
                  \/ t \in Started /\ Receives(t) /\ UNCHANGED threads
               /\ script' = [script EXCEPT !.step = "poll", !.thread = t,
                                           !.deadline = clock + RunNowMaxWait]
    /\ UNCHANGED <<clock, skew, task, reports, evidence, proof>>

\* Get-ScheduledTaskExecutionHistory: the thread created last, and one poll.
List ==
    /\ script.step = "list"
    /\ \/ Started = {} /\ Throw
       \/ \E last \in Started :
             /\ \A t \in Started : t <= last
             /\ script' = [script EXCEPT !.step = "poll", !.thread = last, !.deadline = clock]
    /\ UNCHANGED <<clock, skew, task, threads, reports, evidence, proof>>

ConvertToHealthReportOutcome(label) ==
    IF label \in Statuses THEN label ELSE "Insufficient evidence"

Prints(status) ==
    /\ reports' = reports \cup {[thread |-> script.thread, status |-> status,
                                 read |-> clock + skew]}
    /\ script' = Exited("idle")

\* Mutant of Poll: any thread that answers has its messages read.
PollAnyPhase ==
    /\ script.step = "poll"
    /\ \/ /\ threads[script.thread].phase # "none"
          /\ script' = [script EXCEPT !.step = "messages"]
       \/ script' = [script EXCEPT !.step = "sleep", !.polled = clock]
    /\ UNCHANGED <<clock, skew, task, threads, reports, evidence, proof>>

\* Wait-ScheduledTaskThreadReport: is the thread Complete?  One that cannot be
\* found (404) is not.
Poll ==
    /\ script.step = "poll"
    /\ \/ /\ threads[script.thread].phase = "Complete"
          /\ script' = [script EXCEPT !.step = "messages"]
       \/ script' = [script EXCEPT !.step = "sleep", !.polled = clock]
    /\ UNCHANGED <<clock, skew, task, threads, reports, evidence, proof>>

\* The request that follows takes the last message for the report, and stamps
\* it with the time.
ReadMessages ==
    /\ script.step = "messages"
    /\ Prints(ConvertToHealthReportOutcome(threads[script.thread].label))
    /\ UNCHANGED <<clock, skew, task, threads, evidence, proof>>

\* One interval later the script polls again, gives up, or, for History, prints
\* that the thread created then has shown nothing yet.
Wake ==
    /\ script.step = "sleep" /\ script.polled < clock
    /\ \/ /\ clock < script.deadline
          /\ script' = [script EXCEPT !.step = "poll"] /\ UNCHANGED reports
       \/ /\ clock >= script.deadline /\ script.action = "RunNow"
          /\ Throw /\ UNCHANGED reports
       \/ /\ clock >= script.deadline /\ script.action = "History"
          /\ Prints("Insufficient evidence")
    /\ UNCHANGED <<clock, skew, task, threads, evidence, proof>>

-----------------------------------------------------------------------------
(* The server, and time                                                      *)

\* POST /api/scheduled-task/evidence, with a report that was printed and a
\* timestamp, any that is a date; a write to the file that fails is swallowed.
PostEvidence ==
    /\ \E r \in reports, timestamp \in 0..(MaxTime + MaxSkew) :
          evidence' = [thread |-> r.thread, status |-> r.status, read |-> r.read,
                       timestamp |-> timestamp]
    /\ UNCHANGED <<clock, skew, task, threads, script, reports, proof>>

\* validate-telemetry.ps1 removes the proof, and writes it once it has one.
RemoveProof ==
    /\ proof' = NoProof
    /\ UNCHANGED <<clock, skew, task, threads, script, reports, evidence>>

WriteProof ==
    /\ proof = NoProof
    /\ proof' = clock + skew
    /\ UNCHANGED <<clock, skew, task, threads, script, reports, evidence>>

Tick ==
    /\ clock < MaxTime
    /\ NoRun \/ script.step = "sleep"
    /\ script.step = "sleep" => script.polled = clock
    /\ clock' = clock + 1
    /\ UNCHANGED <<skew, task, threads, script, reports, evidence, proof>>

Script ==
    \/ StartScript("Bootstrap", "read")
    \/ StartScript("RunNow", "trigger")
    \/ StartScript("History", "list")
    \/ RequestFails \/ ReadTask \/ WriteTask \/ VerifyTask
    \/ Trigger \/ List \/ Poll \/ ReadMessages \/ Wake

TaskNext ==
    \/ BeginExecution \/ (\E t \in Threads : WriteMessage(t)) \/ Drift
    \/ Script
    \/ PostEvidence \/ RemoveProof \/ WriteProof
    \/ Tick

TaskSpec == TaskInit /\ [][TaskNext]_taskVars

-----------------------------------------------------------------------------
\* evaluateTelemetryProof, at this moment
telemetryProofValid ==
    proof # NoProof /\ clock - proof \in 0..MAX_TELEMETRY_PROOF_AGE

\* evaluate, at this moment: the gate is open.
available ==
    /\ evidence # NoEvidence
    /\ clock - evidence.timestamp \in 0..MAX_EVIDENCE_AGE
    /\ evidence.status # "Insufficient evidence"
    /\ telemetryProofValid

TaskTypeOK ==
    /\ clock \in 0..MaxTime
    /\ skew \in 0..MaxSkew
    /\ task \in TaskStates
    /\ threads \in [Threads -> ThreadStates]
    /\ script \in Runs
    /\ reports \subseteq Reports /\ evidence \in Evidence
    /\ proof \in Nat \cup {NoProof}

\* When the operator gives a report a time no later than that at which the script
\* read it, as the documents ask (docs/sre-agent-scheduled-tasks/README.md:149),
\* an open gate is the last word of its thread - or that thread has run again
\* since, and began to no earlier than the evidence's age and the lead of the
\* workstation's clock allow.  This is so of a thread that has run before, that
\* starts anew between the two requests of a poll, or whose report is posted
\* late.  It bounds what has happened since the report, not the report's own age:
\* History stamps the last thread with the time of the look-up, and RunNow, too,
\* may find the thread as an earlier execution left it.
GateFollowsThread ==
    available /\ evidence.timestamp <= evidence.read =>
        \/ /\ threads[evidence.thread].phase = "Complete"
           /\ threads[evidence.thread].label = evidence.status
        \/ clock - threads[evidence.thread].start <= MAX_EVIDENCE_AGE + skew

\* The script says that the task is configured only when it has just read it
\* as it wanted it, whatever a write was answered with and whoever edited the
\* task meanwhile.
ConfiguredIsReadBack ==
    [][script'.step = "configured" /\ script.step # "configured" => task = "wanted"]_taskVars
=============================================================================
