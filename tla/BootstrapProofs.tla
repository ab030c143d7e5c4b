-------------------------- MODULE BootstrapProofs --------------------------
(***************************************************************************)
(* Proofs about the bootstrap scripts, whose requests may fail anywhere:    *)
(* the response plan, for any number of faults and changes of mind; the     *)
(* agent's knowledge, for any number of versions; and the scheduled task    *)
(* with its evidence, for any ages, waits, skew and number of threads.      *)
(* What a script has done must be known step by step, up to the one at      *)
(* which it stops: that is PlanProgress, KnowledgeProgress, ScriptFollows.  *)
(***************************************************************************)
EXTENDS ResponsePlan, Knowledge, ScheduledTask, TLAPS

\* The steps of a run that come after a part was configured.
AfterAgent == {"putFilter", "putHandler", "findQuickstart", "deleteQuickstart", "verifyAbsence"}
AfterFilter == AfterAgent \ {"putFilter"}
AfterHandler == AfterFilter \ {"putHandler"}

\* A run is the one that was asked for, and has done what it went past.
PlanProgress ==
    /\ step \in Bootstrapping => wish = "bootstrap"
    /\ step \in TearingDown => wish = "teardown"
    /\ step \in AfterAgent => plan["agent"] = "wanted"
    /\ step \in AfterFilter => plan["filter"] = "wanted"
    /\ step \in AfterHandler => plan["handler"] = "wanted"
    /\ step \in {"dropFilter", "dropAgent"} /\ ~ignored => plan["handler"] = "absent"
    /\ step = "dropAgent" /\ ~ignored => plan["filter"] = "absent"

PlanInv == PlanTypeOK /\ PlanProgress /\ PlanIsRouted /\ NothingRoutesNowhere

-----------------------------------------------------------------------------
\* Initially nothing is there and nothing runs.
LEMMA PlanStarts == PlanInit => PlanInv
<1> SUFFICES ASSUME PlanInit PROVE PlanInv
  OBVIOUS
<1>1. step = "idle" /\ \A p \in Parts : plan[p] = "absent"
  BY DEF PlanInit
<1>2. PlanTypeOK
  <2>1. plan \in [Parts -> PartStates]
    BY DEF PlanInit, PartStates
  <2>2. faults \in 0..MaxFaults /\ changes \in 0..MaxChanges
    BY PlanAssumption DEF PlanInit
  <2>3. /\ quickstart \in BOOLEAN /\ wish \in {"bootstrap", "teardown"}
        /\ misread \in BOOLEAN /\ ignored \in BOOLEAN
    BY Zenon DEF PlanInit
  <2> QED
    BY <2>1, <2>2, <2>3, <1>1 DEF PlanTypeOK, Ended
<1>3. PlanProgress
  BY <1>1 DEF PlanProgress, Bootstrapping, TearingDown, AfterAgent, AfterFilter, AfterHandler
<1>4. PlanIsRouted /\ NothingRoutesNowhere
  BY <1>1 DEF PlanIsRouted, NothingRoutesNowhere, Parts
<1> QED
  BY <1>2, <1>3, <1>4 DEF PlanInv

\* Writing a part leaves a well-formed plan in which nothing that was there is
\* gone, whatever the API made of the write.
LEMMA SetKeeps ==
    ASSUME PlanTypeOK, NEW p \in Parts, NEW at, NEW next, Set(p, at, next)
    PROVE  /\ plan' \in [Parts -> PartStates]
           /\ \A q \in Parts \ {p} : plan'[q] = plan[q]
           /\ plan[p] # "absent" => plan'[p] # "absent"
           /\ faults' \in 0..MaxFaults
           /\ \/ step' = next /\ plan'[p] = "wanted"
              \/ step' = "failed"
BY PlanAssumption DEF Set, Left, PlanTypeOK, PartStates, Misbehaves, Fail

\* Dropping a part touches no other, and goes on with the part gone or the
\* deletion ignored.
LEMMA DropKeeps ==
    ASSUME PlanTypeOK, NEW p \in Parts, NEW at, NEW next, Drop(p, at, next)
    PROVE  /\ plan' \in [Parts -> PartStates]
           /\ \A q \in Parts \ {p} : plan'[q] = plan[q]
           /\ plan'[p] \in {plan[p], "absent"}
           /\ faults' \in 0..MaxFaults
           /\ ignored' \in BOOLEAN /\ (ignored => ignored')
           /\ \/ step' = next /\ (plan'[p] = "absent" \/ ignored')
              \/ step' = "failed"
<1>1. /\ plan' \in {plan, [plan EXCEPT ![p] = "absent"]}
      /\ faults' \in 0..MaxFaults
  BY PlanAssumption DEF Drop, PlanTypeOK, Misbehaves, Fail
<1>2. ignored' \in BOOLEAN /\ (ignored => ignored')
  BY Zenon DEF Drop, PlanTypeOK
<1>3. \/ step' = next /\ plan'[p] = "absent"
      \/ step' = next /\ ignored'
      \/ step' = "failed"
  <2>1. CASE plan' = [plan EXCEPT ![p] = "absent"] /\ step' = next
    BY <2>1 DEF PlanTypeOK
  <2>2. CASE step' = next /\ ignored' = TRUE
    BY <2>2
  <2>3. CASE step' = "failed"
    BY <2>3
  <2> QED
    BY <2>1, <2>2, <2>3, Zenon DEF Drop, Fail
<1> QED
  BY <1>1, <1>2, <1>3 DEF PlanTypeOK, PartStates

\* Every step of the script, the operator and the API keeps the invariant.
LEMMA PlanSteps == PlanInv /\ [PlanNext]_planVars => PlanInv'
<1> SUFFICES ASSUME PlanInv, [PlanNext]_planVars PROVE PlanInv'
  OBVIOUS
<1> USE DEF PlanInv, PlanProgress, PlanIsRouted, NothingRoutesNowhere, AfterAgent, AfterFilter, AfterHandler
<1>1. CASE Probe
  BY <1>1, PlanAssumption
     DEF Probe, Misbehaves, Fail, PlanTypeOK, Bootstrapping, TearingDown, Ended
<1>2. CASE Set("agent", "putAgent", "putFilter")
  <2>1. "agent" \in Parts
    BY DEF Parts
  <2>2. step = "putAgent" /\ UNCHANGED <<quickstart, wish, changes, misread, ignored>>
    BY <1>2 DEF Set
  <2> QED
    BY <1>2, <2>1, <2>2, SetKeeps DEF PlanTypeOK, Parts, Bootstrapping, TearingDown, Ended
<1>3. CASE Set("filter", "putFilter", "putHandler")
  <2>1. "filter" \in Parts
    BY DEF Parts
  <2>2. step = "putFilter" /\ UNCHANGED <<quickstart, wish, changes, misread, ignored>>
    BY <1>3 DEF Set
  <2> QED
    BY <1>3, <2>1, <2>2, SetKeeps DEF PlanTypeOK, Parts, Bootstrapping, TearingDown, Ended
<1>4. CASE Set("handler", "putHandler", "findQuickstart")
  <2>1. "handler" \in Parts
    BY DEF Parts
  <2>2. step = "putHandler" /\ UNCHANGED <<quickstart, wish, changes, misread, ignored>>
    BY <1>4 DEF Set
  <2> QED
    BY <1>4, <2>1, <2>2, SetKeeps DEF PlanTypeOK, Parts, Bootstrapping, TearingDown, Ended
<1>5. CASE FindQuickstart
  <2>1. /\ step = "findQuickstart" /\ step' \in {"deleteQuickstart", "failed", "done"}
        /\ faults' \in 0..MaxFaults
        /\ UNCHANGED <<plan, quickstart, wish, changes, ignored>>
    <3>1. faults' \in 0..MaxFaults
      BY <1>5, PlanAssumption DEF FindQuickstart, Misbehaves, PlanTypeOK
    <3>2. /\ step = "findQuickstart" /\ step' \in {"deleteQuickstart", "failed", "done"}
          /\ UNCHANGED <<plan, quickstart, wish, changes, ignored>>
      BY <1>5 DEF FindQuickstart, Fail
    <3> QED
      BY <3>1, <3>2
  <2>2. misread' \in BOOLEAN
    BY <1>5, Zenon DEF FindQuickstart, PlanTypeOK
  <2>3. step' = "done" => (quickstart => misread')
    BY <1>5 DEF FindQuickstart, Fail
  <2> QED
    BY <2>1, <2>2, <2>3 DEF PlanTypeOK, Parts, Bootstrapping, TearingDown, Ended
<1>6. CASE DeleteQuickstart
  <2>1. /\ step = "deleteQuickstart" /\ step' \in {"verifyAbsence", "failed"}
        /\ faults' \in 0..MaxFaults
        /\ UNCHANGED <<plan, wish, changes, misread, ignored>>
    BY <1>6, PlanAssumption DEF DeleteQuickstart, Misbehaves, PlanTypeOK, Fail
  <2>2. quickstart' \in BOOLEAN
    <3>1. quickstart' = quickstart \/ quickstart' = FALSE
      BY <1>6, Zenon DEF DeleteQuickstart
    <3> QED
      BY <3>1, Zenon DEF PlanTypeOK
  <2> QED
    BY <2>1, <2>2 DEF PlanTypeOK, Bootstrapping, TearingDown, Ended
<1>7. CASE VerifyAbsence
  <2>1. /\ step = "verifyAbsence" /\ step' \in {"failed", "done"}
        /\ faults' \in 0..MaxFaults
        /\ UNCHANGED <<plan, quickstart, wish, changes, ignored>>
    BY <1>7, PlanAssumption DEF VerifyAbsence, Misbehaves, PlanTypeOK
  <2>2. misread' \in BOOLEAN
    BY <1>7, Zenon DEF VerifyAbsence, PlanTypeOK
  <2>3. step' = "done" => (quickstart => misread')
    BY <1>7 DEF VerifyAbsence
  <2> QED
    BY <2>1, <2>2, <2>3 DEF PlanTypeOK, Parts, Bootstrapping, TearingDown, Ended
<1>8. CASE Drop("handler", "dropHandler", "dropFilter")
  <2>1. "handler" \in Parts
    BY DEF Parts
  <2>2. step = "dropHandler" /\ UNCHANGED <<quickstart, wish, changes, misread>>
    BY <1>8 DEF Drop
  <2> QED
    BY <1>8, <2>1, <2>2, DropKeeps DEF PlanTypeOK, Parts, Bootstrapping, TearingDown, Ended
<1>9. CASE Drop("filter", "dropFilter", "dropAgent")
  <2>1. "filter" \in Parts
    BY DEF Parts
  <2>2. step = "dropFilter" /\ UNCHANGED <<quickstart, wish, changes, misread>>
    BY <1>9 DEF Drop
  <2> QED
    BY <1>9, <2>1, <2>2, DropKeeps DEF PlanTypeOK, Parts, Bootstrapping, TearingDown, Ended
<1>10. CASE Drop("agent", "dropAgent", "done")
  <2>1. "agent" \in Parts
    BY DEF Parts
  <2>2. step = "dropAgent" /\ UNCHANGED <<quickstart, wish, changes, misread>>
    BY <1>10 DEF Drop
  <2> QED
    BY <1>10, <2>1, <2>2, DropKeeps DEF PlanTypeOK, Parts, Bootstrapping, TearingDown, Ended
<1>11. CASE Rerun
  BY <1>11 DEF Rerun, Start, PlanTypeOK, Bootstrapping, TearingDown, Ended
<1>12. CASE ChangeWish
  <2>1. plan' \in [Parts -> PartStates] /\ \A p \in Parts : plan'[p] = "absent" <=> plan[p] = "absent"
    BY <1>12 DEF ChangeWish, PlanTypeOK, PartStates
  <2>2. step' = "idle" /\ changes' \in 0..MaxChanges /\ wish' \in {"bootstrap", "teardown"}
        /\ UNCHANGED <<quickstart, faults, misread, ignored>>
    BY <1>12, PlanAssumption DEF ChangeWish, PlanTypeOK
  <2> QED
    BY <2>1, <2>2 DEF PlanTypeOK, Parts, Bootstrapping, TearingDown, Ended
<1>13. CASE UNCHANGED planVars
  BY <1>13 DEF planVars, PlanTypeOK
<1> QED
  BY <1>1, <1>2, <1>3, <1>4, <1>5, <1>6, <1>7, <1>8, <1>9, <1>10, <1>11, <1>12, <1>13
     DEF PlanNext, Bootstrap, Teardown

LEMMA PlanInvHolds == PlanSpec => []PlanInv
BY PlanStarts, PlanSteps, PTL DEF PlanSpec

\* Every reachable state of the scripts against the data plane is well-typed.
THEOREM PlanTypeCorrect == PlanSpec => []PlanTypeOK
<1>1. PlanInv => PlanTypeOK
  BY DEF PlanInv
<1> QED
  BY PlanInvHolds, <1>1, PTL

\* However often the API fails and the scripts are repeated, a bootstrap that
\* reports success has configured the agent, the filter and the handler.
THEOREM PlanRouted == PlanSpec => []PlanIsRouted
<1>1. PlanInv => PlanIsRouted
  BY DEF PlanInv
<1> QED
  BY PlanInvHolds, <1>1, PTL

\* No bootstrap or teardown, wherever it stops, leaves a handler without its
\* filter or a filter without its agent.
THEOREM PlanRoutesSomewhere == PlanSpec => []NothingRoutesNowhere
<1>1. PlanInv => NothingRoutesNowhere
  BY DEF PlanInv
<1> QED
  BY PlanInvHolds, <1>1, PTL

-----------------------------------------------------------------------------
(* The agent's knowledge                                                     *)

\* A run that got past the list has not marked the file for removal, one that
\* got past the indexer has seen the file indexed, and what it has not marked
\* is the file - as far as the claims it relied on were so.
KnowledgeProgress ==
    /\ file \notin job.stale
    /\ job.step \in {"clean", "done"} /\ "index" \notin untrue => file \in indexed
    /\ job.step \in {"upload", "index", "clean", "done"} /\ untrue \cap {"list", "delete"} = {} =>
          documents \subseteq job.stale \cup {file}
    /\ job.step = "done" => job.stale = {}

KnowledgeInv == KnowledgeTypeOK /\ KnowledgeProgress

LEMMA KnowledgeStarts == KnowledgeInit => KnowledgeInv
BY DEF KnowledgeInit, KnowledgeInv, KnowledgeTypeOK, KnowledgeProgress, At, KnowledgeSteps,
       KnowledgeEnds, Claims

LEMMA KnowledgeStepsKeep == KnowledgeInv /\ [KnowledgeNext]_knowledgeVars => KnowledgeInv'
<1> SUFFICES ASSUME KnowledgeInv, [KnowledgeNext]_knowledgeVars PROVE KnowledgeInv'
  OBVIOUS
<1> USE DEF KnowledgeInv, KnowledgeTypeOK, KnowledgeProgress, At, KnowledgeSteps, KnowledgeEnds, Claims
<1>1. CASE RunKnowledge
  BY <1>1 DEF RunKnowledge
<1>2. CASE Throws
  BY <1>2 DEF Throws
<1>3. CASE ProbeMemory
  BY <1>3 DEF ProbeMemory
<1>4. CASE ListDocuments
  BY <1>4 DEF ListDocuments
<1>5. CASE UploadDocument
  BY <1>5 DEF UploadDocument
<1>6. CASE AwaitIndexed
  BY <1>6 DEF AwaitIndexed
<1>7. CASE Finish
  BY <1>7 DEF Finish
<1>8. ASSUME NEW d \in Versions, RemoveStale(d) PROVE KnowledgeInv'
  BY <1>8 DEF RemoveStale
<1>9. ASSUME NEW d \in Versions, IndexDocument(d) PROVE KnowledgeInv'
  BY <1>9 DEF IndexDocument
<1>10. CASE UNCHANGED knowledgeVars
  BY <1>10 DEF knowledgeVars
<1> QED
  BY <1>1, <1>2, <1>3, <1>4, <1>5, <1>6, <1>7, <1>8, <1>9, <1>10 DEF KnowledgeNext

LEMMA KnowledgeInvHolds == KnowledgeSpec => []KnowledgeInv
BY KnowledgeStarts, KnowledgeStepsKeep, PTL DEF KnowledgeSpec

\* Every reachable state of the memory and the script that fills it is well-typed.
THEOREM KnowledgeTypeCorrect == KnowledgeSpec => []KnowledgeTypeOK
<1>1. KnowledgeInv => KnowledgeTypeOK
  BY DEF KnowledgeInv
<1> QED
  BY KnowledgeInvHolds, <1>1, PTL

\* A run that reports success has left the file as it is, indexed, and nothing
\* else, however many versions and failed runs came before.
THEOREM KnowledgeCurrent == KnowledgeSpec => []KnowledgeIsCurrent
<1>1. KnowledgeInv => KnowledgeIsCurrent
  BY DEF KnowledgeInv, KnowledgeProgress, KnowledgeIsCurrent
<1> QED
  BY KnowledgeInvHolds, <1>1, PTL

\* No step takes the agent's last knowledge away: a stale version goes only when
\* the current one was seen indexed, and is not that one.
THEOREM KnowledgeKept == KnowledgeSpec => KnowledgeIsKept
<1>1. ASSUME KnowledgeInv, [KnowledgeNext]_knowledgeVars, indexed # {}, "index" \notin untrue
      PROVE  indexed' # {}
  <2>1. CASE \E d \in Versions : RemoveStale(d)
    <3>1. PICK d \in Versions : RemoveStale(d)
      BY <2>1
    <3>2. file \in indexed /\ file # d
      BY <1>1, <3>1 DEF KnowledgeInv, KnowledgeProgress, RemoveStale
    <3> QED
      BY <1>1, <3>1, <3>2 DEF RemoveStale
  <2>2. CASE \E d \in Versions : IndexDocument(d)
    BY <2>2 DEF IndexDocument
  <2>3. CASE UNCHANGED indexed
    BY <1>1, <2>3
  <2> QED
    BY <1>1, <2>1, <2>2, <2>3
       DEF KnowledgeNext, RunKnowledge, Throws, ProbeMemory, ListDocuments, UploadDocument,
           AwaitIndexed, Finish, knowledgeVars
<1>2. KnowledgeInv /\ [KnowledgeNext]_knowledgeVars
        => [indexed # {} /\ "index" \notin untrue => indexed' # {}]_knowledgeVars
  BY <1>1
<1> QED
  BY KnowledgeInvHolds, <1>2, PTL DEF KnowledgeSpec, KnowledgeIsKept
-----------------------------------------------------------------------------
(* The scheduled task.  An open gate speaks of a thread by way of a report   *)
(* that may be old, of a thread that may have run again: the invariant        *)
(* follows the thread from the script's two requests to its reports.          *)

\* The script looks at a thread that there is; one that it has found complete
\* still is, or has begun anew within the interval.
ScriptFollows ==
    /\ script.step \in {"poll", "messages", "sleep"} => script.thread \in Threads
    /\ script.step = "messages" =>
           \/ threads[script.thread].phase = "Complete"
           \/ clock <= threads[script.thread].start

\* What a report says of its thread is still so, or the thread began an
\* execution no earlier than the report was read.
ReportHolds(r) ==
    /\ r.thread \in Threads
    /\ r.read <= clock + skew
    /\ r.status # "Insufficient evidence" =>
           \/ threads[r.thread].phase = "Complete" /\ threads[r.thread].label = r.status
           \/ r.read <= threads[r.thread].start + skew

\* The operator posts what was printed.
EvidenceIsPrinted ==
    evidence # NoEvidence =>
        \E r \in reports : /\ evidence.thread = r.thread
                           /\ evidence.status = r.status
                           /\ evidence.read = r.read

TaskInv ==
    /\ TaskTypeOK
    /\ ScriptFollows
    /\ \A r \in reports : ReportHolds(r)
    /\ EvidenceIsPrinted

-----------------------------------------------------------------------------
(* What the steps have in common                                             *)

LEMMA TaskNumbers ==
    ASSUME TaskInv
    PROVE  /\ clock \in Nat /\ skew \in Nat /\ clock + skew \in Nat
           /\ script \in Runs
           /\ \A t \in Threads : threads[t] \in ThreadStates /\ threads[t].start \in Nat
           /\ \A r \in reports : r \in Reports /\ r.read \in Nat
<1>1. clock \in 0..MaxTime /\ skew \in 0..MaxSkew /\ script \in Runs
      /\ threads \in [Threads -> ThreadStates] /\ reports \subseteq Reports
  BY DEF TaskInv, TaskTypeOK
<1>2. clock \in Nat /\ skew \in Nat /\ clock + skew \in Nat
  BY <1>1, TaskAssumption
<1>3. \A t \in Threads : threads[t] \in ThreadStates /\ threads[t].start \in Nat
  BY <1>1, TaskAssumption DEF ThreadStates
<1> QED
  BY <1>1, <1>2, <1>3 DEF Reports

LEMMA ExitedIs ==
    ASSUME NEW at \in {"idle", "configured"}
    PROVE  Exited(at) \in Runs /\ Exited(at).step = at
BY TaskAssumption DEF Exited, Runs, TaskSteps, Threads0

LEMMA Threads0Has == Threads \subseteq Threads0
BY TaskAssumption DEF Threads, Threads0

\* A step of the script alone keeps the invariant when what it will look at, if
\* anything, is as ScriptFollows has it.
LEMMA ScriptKeeps ==
    ASSUME TaskInv, script' \in Runs, ScriptFollows', task' \in TaskStates,
           UNCHANGED <<clock, skew, threads, reports, evidence, proof>>
    PROVE  TaskInv'
<1>1. TaskTypeOK'
  BY DEF TaskTypeOK, TaskInv
<1> QED
  BY <1>1 DEF TaskInv, ReportHolds, EvidenceIsPrinted

LEMMA ExitKeeps ==
    ASSUME TaskInv, NEW at \in {"idle", "configured"}, script' = Exited(at), task' \in TaskStates,
           UNCHANGED <<clock, skew, threads, reports, evidence, proof>>
    PROVE  TaskInv'
<1>1. script' \in Runs /\ script'.step = at
  BY ExitedIs
<1>2. ScriptFollows'
  BY <1>1 DEF ScriptFollows
<1> QED
  BY <1>1, <1>2, ScriptKeeps

\* A thread changes by a message of the execution under way, or by a new one.
ThreadsGoOn ==
    /\ threads' \in [Threads -> ThreadStates]
    /\ \A t \in Threads :
           \/ threads'[t] = threads[t]
           \/ threads[t].phase = "running" /\ threads'[t].start = threads[t].start
           \/ threads'[t].start = clock

LEMMA ExecuteGoesOn ==
    ASSUME TaskInv, NEW t \in Threads, Execute(t)
    PROVE  ThreadsGoOn
<1>1. threads \in [Threads -> ThreadStates] /\ clock \in 0..MaxTime
  BY DEF TaskInv, TaskTypeOK
<1>2. threads' = [threads EXCEPT ![t] = [threads[t] EXCEPT !.phase = "running", !.start = clock]]
  BY <1>1 DEF Execute
<1>3. threads[t] \in ThreadStates
  BY <1>1
<1>4. [threads[t] EXCEPT !.phase = "running", !.start = clock] \in ThreadStates
  BY <1>1, <1>3 DEF ThreadStates
<1>5. [threads[t] EXCEPT !.phase = "running", !.start = clock].start = clock
  BY <1>3 DEF ThreadStates
<1> QED
  BY <1>1, <1>2, <1>4, <1>5 DEF ThreadsGoOn

LEMMA MessageGoesOn ==
    ASSUME TaskInv, NEW t \in Threads, WriteMessage(t)
    PROVE  ThreadsGoOn
<1>1. threads \in [Threads -> ThreadStates] /\ threads[t].phase = "running"
  BY DEF TaskInv, TaskTypeOK, WriteMessage
<1>2. PICK l \in Labels, phase \in {"running", "Complete"} :
          threads' = [threads EXCEPT ![t].phase = phase, ![t].label = l]
  BY DEF WriteMessage
<1>3. threads' = [threads EXCEPT ![t] = [threads[t] EXCEPT !.phase = phase, !.label = l]]
  BY <1>1, <1>2
<1>4. threads[t] \in ThreadStates
  BY <1>1
<1>5. [threads[t] EXCEPT !.phase = phase, !.label = l] \in ThreadStates
  BY <1>4 DEF ThreadStates
<1>6. [threads[t] EXCEPT !.phase = phase, !.label = l].start = threads[t].start
  BY <1>4 DEF ThreadStates
<1> QED
  BY <1>1, <1>3, <1>5, <1>6 DEF ThreadsGoOn

\* However the threads go on, the reports hold of them as before.
LEMMA ReportsKeepHolding ==
    ASSUME TaskInv, ThreadsGoOn, UNCHANGED <<clock, skew, reports>>
    PROVE  \A r \in reports' : ReportHolds(r)'
<1> SUFFICES ASSUME NEW r \in reports PROVE ReportHolds(r)'
  OBVIOUS
<1>1. ReportHolds(r) /\ r.thread \in Threads
  BY DEF TaskInv, ReportHolds
<1>2. CASE threads'[r.thread] = threads[r.thread]
  BY <1>1, <1>2 DEF ReportHolds
<1>3. CASE threads[r.thread].phase = "running" /\ threads'[r.thread].start = threads[r.thread].start
  BY <1>1, <1>3 DEF ReportHolds
<1>4. CASE threads'[r.thread].start = clock
  BY <1>1, <1>4 DEF ReportHolds
<1> QED
  BY <1>1, <1>2, <1>3, <1>4 DEF ThreadsGoOn

-----------------------------------------------------------------------------
(* The agent                                                                 *)

LEMMA AgentKeeps ==
    ASSUME TaskInv, ThreadsGoOn,
           UNCHANGED <<clock, skew, task, script, reports, evidence, proof>>
    PROVE  TaskInv'
<1>1. TaskTypeOK'
  BY DEF TaskInv, TaskTypeOK, ThreadsGoOn
<1>2. ScriptFollows'
  <2>1. ScriptFollows /\ clock \in Nat
    BY TaskNumbers DEF TaskInv
  <2>2. script.step = "messages" =>
            \/ threads'[script.thread].phase = "Complete"
            \/ clock <= threads'[script.thread].start
    BY <2>1 DEF ScriptFollows, ThreadsGoOn
  <2> QED
    BY <2>1, <2>2 DEF ScriptFollows
<1>3. \A r \in reports' : ReportHolds(r)'
  BY ReportsKeepHolding
<1> QED
  BY <1>1, <1>2, <1>3 DEF TaskInv, EvidenceIsPrinted

LEMMA ExecutionKeeps ==
    ASSUME TaskInv, BeginExecution \/ \E t \in Threads : WriteMessage(t)
    PROVE  TaskInv'
<1>1. ThreadsGoOn
  BY ExecuteGoesOn, MessageGoesOn DEF BeginExecution
<1> QED
  BY <1>1, AgentKeeps DEF BeginExecution, WriteMessage

LEMMA DriftKeeps == ASSUME TaskInv, Drift PROVE TaskInv'
<1>1. task' \in TaskStates
  BY DEF Drift, TaskStates
<1>2. script' \in Runs
  BY DEF TaskTypeOK, Drift, TaskInv
<1>3. ScriptFollows'
  BY DEF Drift, TaskInv, ScriptFollows
<1> QED
  BY <1>1, <1>2, <1>3, ScriptKeeps DEF Drift

-----------------------------------------------------------------------------
(* The script                                                                *)

LEMMA StartKeeps ==
    ASSUME TaskInv, NEW action, NEW at, StartScript(action, at),
           \/ action = "Bootstrap" /\ at = "read"
           \/ action = "RunNow" /\ at = "trigger"
           \/ action = "History" /\ at = "list"
    PROVE  TaskInv'
<1>1. script' = [action |-> action, step |-> at, thread |-> 0, deadline |-> 0, polled |-> 0]
  BY DEF StartScript, Exited
<1>2. script' \in Runs /\ ScriptFollows'
  BY <1>1, TaskAssumption DEF Runs, TaskSteps, Threads0, ScriptFollows
<1>3. task' \in TaskStates
  BY DEF TaskTypeOK, StartScript, TaskInv
<1> QED
  BY <1>2, <1>3, ScriptKeeps DEF StartScript

\* A step of the script that goes on at a place where it looks at no thread.
LEMMA GoOnKeeps ==
    ASSUME TaskInv, NEW at \in {"write", "verify"}, script' = [script EXCEPT !.step = at],
           task' \in TaskStates,
           UNCHANGED <<clock, skew, threads, reports, evidence, proof>>
    PROVE  TaskInv'
<1>1. script \in Runs
  BY DEF TaskTypeOK, TaskInv
<1>2. script' \in Runs /\ script'.step = at
  BY <1>1 DEF Runs, TaskSteps
<1>3. ScriptFollows'
  BY <1>2 DEF ScriptFollows
<1> QED
  BY <1>2, <1>3, ScriptKeeps

LEMMA BootstrapKeeps ==
    ASSUME TaskInv, RequestFails \/ ReadTask \/ WriteTask \/ VerifyTask
    PROVE  TaskInv'
<1>0. task \in TaskStates
  BY DEF TaskTypeOK, TaskInv
<1>1. CASE RequestFails
  BY <1>0, <1>1, ExitKeeps DEF RequestFails, Throw
<1>2. CASE ReadTask
  BY <1>0, <1>2, ExitKeeps, GoOnKeeps DEF ReadTask
<1>3. CASE WriteTask
  <2>1. task' \in TaskStates
    BY <1>0, <1>3 DEF WriteTask, TaskStates
  <2> QED
    BY <1>3, <2>1, GoOnKeeps DEF WriteTask
<1>4. CASE VerifyTask
  BY <1>0, <1>4, ExitKeeps DEF VerifyTask
<1> QED
  BY <1>1, <1>2, <1>3, <1>4

LEMMA TriggerKeeps == ASSUME TaskInv, Trigger PROVE TaskInv'
<1>0. /\ clock \in Nat /\ script \in Runs /\ task \in TaskStates
      /\ UNCHANGED <<clock, skew, task, reports, evidence, proof>>
  BY TaskNumbers DEF TaskInv, TaskTypeOK, Trigger
<1>1. CASE task = "absent"
  BY <1>0, <1>1, ExitKeeps DEF Trigger, Throw
<1>2. CASE task # "absent"
  <2>1. PICK t \in Threads :
            /\ Execute(t) \/ UNCHANGED threads
            /\ script' = [script EXCEPT !.step = "poll", !.thread = t,
                                        !.deadline = clock + RunNowMaxWait]
    BY <1>2 DEF Trigger
  <2>2. ThreadsGoOn
    <3>1. CASE Execute(t)
      BY <3>1, ExecuteGoesOn
    <3>2. CASE UNCHANGED threads
      BY <3>2 DEF ThreadsGoOn, TaskInv, TaskTypeOK
    <3> QED
      BY <2>1, <3>1, <3>2
  <2>3. script' \in Runs /\ script'.step = "poll" /\ script'.thread = t
    <3>1. t \in Threads0 /\ clock + RunNowMaxWait \in Nat
      BY <1>0, TaskAssumption, Threads0Has
    <3> QED
      BY <1>0, <2>1, <3>1 DEF Runs, TaskSteps
  <2>4. TaskTypeOK' /\ ScriptFollows'
    BY <1>0, <2>2, <2>3 DEF TaskInv, TaskTypeOK, ThreadsGoOn, ScriptFollows
  <2>5. \A r \in reports' : ReportHolds(r)'
    BY <1>0, <2>2, ReportsKeepHolding
  <2> QED
    BY <1>0, <2>4, <2>5 DEF TaskInv, EvidenceIsPrinted
<1> QED
  BY <1>1, <1>2

LEMMA ListKeeps == ASSUME TaskInv, List PROVE TaskInv'
<1>0. /\ clock \in Nat /\ script \in Runs /\ task \in TaskStates
      /\ UNCHANGED <<clock, skew, task, threads, reports, evidence, proof>>
  BY TaskNumbers DEF TaskInv, TaskTypeOK, List
<1>1. CASE Started = {} /\ Throw
  BY <1>0, <1>1, ExitKeeps DEF Throw
<1>2. CASE \E last \in Started :
               script' = [script EXCEPT !.step = "poll", !.thread = last, !.deadline = clock]
  <2>1. PICK last \in Started :
               script' = [script EXCEPT !.step = "poll", !.thread = last, !.deadline = clock]
    BY <1>2
  <2>2. last \in Threads /\ last \in Threads0
    BY Threads0Has DEF Started
  <2>3. script' \in Runs /\ script'.step = "poll" /\ script'.thread = last
    BY <1>0, <2>1, <2>2 DEF Runs, TaskSteps
  <2>4. ScriptFollows'
    BY <2>2, <2>3 DEF ScriptFollows
  <2> QED
    BY <1>0, <2>3, <2>4, ScriptKeeps
<1> QED
  BY <1>1, <1>2 DEF List

LEMMA PollKeeps == ASSUME TaskInv, Poll PROVE TaskInv'
<1>1. /\ script.step = "poll" /\ script \in Runs /\ script.thread \in Threads
      /\ task' \in TaskStates /\ clock \in Nat
      /\ UNCHANGED <<clock, skew, task, threads, reports, evidence, proof>>
  BY TaskNumbers DEF Poll, TaskInv, TaskTypeOK, ScriptFollows
<1>2. CASE /\ threads[script.thread].phase = "Complete"
           /\ script' = [script EXCEPT !.step = "messages"]
  <2>1. script' \in Runs /\ script'.step = "messages" /\ script'.thread = script.thread
    BY <1>1, <1>2 DEF Runs, TaskSteps
  <2>2. ScriptFollows'
    BY <1>1, <1>2, <2>1 DEF ScriptFollows
  <2> QED
    BY <1>1, <2>1, <2>2, ScriptKeeps
<1>3. CASE script' = [script EXCEPT !.step = "sleep", !.polled = clock]
  <2>1. script' \in Runs /\ script'.step = "sleep" /\ script'.thread = script.thread
    BY <1>1, <1>3 DEF Runs, TaskSteps
  <2>2. ScriptFollows'
    BY <1>1, <2>1 DEF ScriptFollows
  <2> QED
    BY <1>1, <2>1, <2>2, ScriptKeeps
<1> QED
  BY <1>2, <1>3 DEF Poll

LEMMA LaterStays == \A a, b, c \in Nat : a + c <= a + c /\ (a <= b => a + c <= b + c)
OBVIOUS

\* Printing ends the run: what is printed must hold of the thread.
LEMMA PrintKeeps ==
    ASSUME TaskInv, script.thread \in Threads, NEW status \in Statuses, Prints(status),
           status # "Insufficient evidence" =>
               \/ threads[script.thread].phase = "Complete" /\ threads[script.thread].label = status
               \/ clock <= threads[script.thread].start,
           UNCHANGED <<clock, skew, task, threads, evidence, proof>>
    PROVE  TaskInv'
<1> DEFINE new == [thread |-> script.thread, status |-> status, read |-> clock + skew]
<1>1. clock \in Nat /\ skew \in Nat /\ clock + skew \in Nat
      /\ threads[script.thread].start \in Nat
  BY TaskNumbers
<1>2. reports' = reports \cup {new} /\ script' = Exited("idle")
  BY DEF Prints
<1>3. new \in Reports
  BY <1>1, Threads0Has DEF Reports
<1>4. ReportHolds(new)
  <2>1. new.thread = script.thread /\ new.status = status /\ new.read = clock + skew
    OBVIOUS
  <2>2. clock + skew <= clock + skew
    BY <1>1, LaterStays, Zenon
  <2>3. clock <= threads[script.thread].start => clock + skew <= threads[script.thread].start + skew
    BY <1>1, LaterStays, Zenon
  <2> HIDE DEF new
  <2> QED
    BY <2>1, <2>2, <2>3, Zenon DEF ReportHolds
<1>5. script' \in Runs /\ script'.step = "idle"
  BY <1>2, ExitedIs
<1> HIDE DEF new
<1>6. TaskTypeOK'
  BY <1>2, <1>3, <1>5 DEF TaskInv, TaskTypeOK
<1>7. ScriptFollows'
  BY <1>5 DEF ScriptFollows
<1>8. \A r \in reports' : ReportHolds(r)'
  BY <1>2, <1>4 DEF TaskInv, ReportHolds
<1>9. EvidenceIsPrinted'
  BY <1>2 DEF TaskInv, EvidenceIsPrinted
<1> QED
  BY <1>6, <1>7, <1>8, <1>9 DEF TaskInv

LEMMA ReadKeeps == ASSUME TaskInv, ReadMessages PROVE TaskInv'
<1> DEFINE label == threads[script.thread].label
           status == ConvertToHealthReportOutcome(label)
<1>1. /\ script.thread \in Threads
      /\ threads[script.thread].phase = "Complete" \/ clock <= threads[script.thread].start
      /\ Prints(status) /\ UNCHANGED <<clock, skew, task, threads, evidence, proof>>
  BY DEF ReadMessages, TaskInv, ScriptFollows
<1>2. status \in Statuses /\ (status # "Insufficient evidence" => status = label)
  BY DEF ConvertToHealthReportOutcome, Statuses
<1> HIDE DEF status
<1> QED
  BY <1>1, <1>2, PrintKeeps

LEMMA WakeKeeps == ASSUME TaskInv, Wake PROVE TaskInv'
<1>1. /\ script.step = "sleep" /\ script \in Runs /\ script.thread \in Threads
      /\ task \in TaskStates /\ "Insufficient evidence" \in Statuses
      /\ UNCHANGED <<clock, skew, task, threads, evidence, proof>>
  BY DEF Wake, TaskInv, TaskTypeOK, ScriptFollows, Statuses
<1>2. CASE script' = [script EXCEPT !.step = "poll"] /\ UNCHANGED reports
  <2>1. script' \in Runs /\ script'.step = "poll" /\ script'.thread = script.thread
    BY <1>1, <1>2 DEF Runs, TaskSteps
  <2>2. ScriptFollows'
    BY <1>1, <2>1 DEF ScriptFollows
  <2> QED
    BY <1>1, <1>2, <2>1, <2>2, ScriptKeeps
<1>3. CASE Throw /\ UNCHANGED reports
  BY <1>1, <1>3, ExitKeeps DEF Throw
<1>4. CASE Prints("Insufficient evidence")
  BY <1>1, <1>4, PrintKeeps
<1>5. \/ script' = [script EXCEPT !.step = "poll"] /\ UNCHANGED reports
      \/ Throw /\ UNCHANGED reports
      \/ Prints("Insufficient evidence")
  BY Zenon DEF Wake
<1> QED
  BY <1>2, <1>3, <1>4, <1>5

-----------------------------------------------------------------------------
(* The server, and time                                                      *)

LEMMA PostKeeps == ASSUME TaskInv, PostEvidence PROVE TaskInv'
<1>1. PICK r \in reports, timestamp \in 0..(MaxTime + MaxSkew) :
          evidence' = [thread |-> r.thread, status |-> r.status, read |-> r.read,
                       timestamp |-> timestamp]
  BY DEF PostEvidence
<1>2. r \in Reports /\ timestamp \in Nat
  BY TaskNumbers, TaskAssumption
<1>3. evidence' \in Evidence
  BY <1>1, <1>2 DEF Reports, Evidence
<1>4. UNCHANGED <<clock, skew, task, threads, script, reports, proof>>
  BY DEF PostEvidence
<1>5. TaskTypeOK' /\ ScriptFollows' /\ \A q \in reports' : ReportHolds(q)'
  BY <1>3, <1>4 DEF TaskInv, TaskTypeOK, ScriptFollows, ReportHolds
<1>6. EvidenceIsPrinted'
  BY <1>1, <1>4 DEF EvidenceIsPrinted
<1> QED
  BY <1>5, <1>6 DEF TaskInv

LEMMA ProofKeeps == ASSUME TaskInv, RemoveProof \/ WriteProof PROVE TaskInv'
<1>1. proof' \in Nat \cup {NoProof}
  BY TaskNumbers DEF RemoveProof, WriteProof
<1>2. UNCHANGED <<clock, skew, task, threads, script, reports, evidence>>
  BY DEF RemoveProof, WriteProof
<1> QED
  BY <1>1, <1>2 DEF TaskInv, TaskTypeOK, ScriptFollows, ReportHolds, EvidenceIsPrinted

LEMMA TickKeeps == ASSUME TaskInv, Tick PROVE TaskInv'
<1>1. clock' \in 0..MaxTime /\ clock' = clock + 1
  BY TaskAssumption DEF Tick, TaskInv, TaskTypeOK
<1>2. /\ script.step # "messages"
      /\ UNCHANGED <<skew, task, threads, script, reports, evidence, proof>>
  BY DEF Tick, NoRun
<1>3. TaskTypeOK' /\ ScriptFollows' /\ EvidenceIsPrinted'
  BY <1>1, <1>2 DEF TaskInv, TaskTypeOK, ScriptFollows, EvidenceIsPrinted
<1>4. ASSUME NEW r \in reports PROVE ReportHolds(r)'
  <2>1. ReportHolds(r) /\ r.read \in Nat /\ clock \in Nat /\ skew \in Nat
    BY TaskNumbers DEF TaskInv
  <2>2. r.read <= clock + skew
    BY <2>1 DEF ReportHolds
  <2>3. r.read <= clock' + skew'
    BY <1>1, <1>2, <2>1, <2>2
  <2> QED
    BY <1>2, <2>1, <2>3 DEF ReportHolds
<1> QED
  BY <1>2, <1>3, <1>4 DEF TaskInv

-----------------------------------------------------------------------------
LEMMA TaskStarts == TaskInit => TaskInv
<1> SUFFICES ASSUME TaskInit PROVE TaskInv
  OBVIOUS
<1>1. [phase |-> "none", start |-> 0, label |-> "unrecognised"] \in ThreadStates
  BY TaskAssumption DEF ThreadStates, Labels
<1>2. NoEvidence \in Evidence
  BY TaskAssumption DEF NoEvidence, Evidence, Threads0, Statuses
<1>3. script \in Runs /\ script.step = "idle"
  BY ExitedIs DEF TaskInit
<1>4. TaskTypeOK
  BY <1>1, <1>2, <1>3, TaskAssumption DEF TaskInit, TaskTypeOK
<1>5. ScriptFollows
  BY <1>3 DEF ScriptFollows
<1> QED
  BY <1>4, <1>5 DEF TaskInit, TaskInv, EvidenceIsPrinted

LEMMA TaskStepsKeep == TaskInv /\ [TaskNext]_taskVars => TaskInv'
<1> SUFFICES ASSUME TaskInv, [TaskNext]_taskVars PROVE TaskInv'
  OBVIOUS
<1>1. CASE Script
  BY <1>1, StartKeeps, BootstrapKeeps, TriggerKeeps, ListKeeps, PollKeeps, ReadKeeps, WakeKeeps
     DEF Script
<1>2. CASE UNCHANGED taskVars
  BY <1>2 DEF taskVars, TaskInv, TaskTypeOK, ScriptFollows, ReportHolds, EvidenceIsPrinted
<1> QED
  BY <1>1, <1>2, ExecutionKeeps, DriftKeeps, PostKeeps, ProofKeeps, TickKeeps DEF TaskNext

LEMMA TaskInvHolds == TaskSpec => []TaskInv
BY TaskStarts, TaskStepsKeep, PTL DEF TaskSpec

\* Every reachable state of the scheduled task and its evidence is well-typed.
THEOREM TaskTypeCorrect == TaskSpec => []TaskTypeOK
<1>1. TaskInv => TaskTypeOK
  BY DEF TaskInv
<1> QED
  BY TaskInvHolds, <1>1, PTL

\* An open gate whose report was dated no later than it was read is the last
\* word of its thread, or that thread has begun to run again within the
\* evidence's age and the lead of the workstation's clock.
THEOREM GateFollowedThread == TaskSpec => []GateFollowsThread
<1>1. TaskInv => GateFollowsThread
  <2> SUFFICES ASSUME TaskInv, available, evidence.timestamp <= evidence.read,
                      ~ (/\ threads[evidence.thread].phase = "Complete"
                         /\ threads[evidence.thread].label = evidence.status)
               PROVE  clock - threads[evidence.thread].start <= MAX_EVIDENCE_AGE + skew
    BY DEF GateFollowsThread
  <2>1. PICK r \in reports : /\ evidence.thread = r.thread
                             /\ evidence.status = r.status
                             /\ evidence.read = r.read
    BY DEF TaskInv, EvidenceIsPrinted, available
  <2>2. r.thread \in Threads /\ r.read <= threads[r.thread].start + skew
    BY <2>1 DEF TaskInv, ReportHolds, available
  <2>3. clock - evidence.timestamp <= MAX_EVIDENCE_AGE
    <3>1. clock - evidence.timestamp \in 0..MAX_EVIDENCE_AGE
      BY DEF available
    <3> QED
      BY <3>1, TaskAssumption
  <2>4. /\ evidence.timestamp \in Nat /\ r.read \in Nat /\ threads[r.thread].start \in Nat
        /\ clock \in Nat /\ skew \in Nat
    BY <2>2, TaskNumbers DEF TaskInv, TaskTypeOK, Evidence
  <2> QED
    BY <2>1, <2>2, <2>3, <2>4, TaskAssumption
<1> QED
  BY TaskInvHolds, <1>1, PTL

\* The script calls the task configured only when it has just read it so.
THEOREM ConfiguredWasReadBack == TaskSpec => ConfiguredIsReadBack
<1>1. TaskInv /\ [TaskNext]_taskVars =>
          [script'.step = "configured" /\ script.step # "configured" => task = "wanted"]_taskVars
  <2> SUFFICES ASSUME TaskInv, TaskNext, script'.step = "configured", script.step # "configured"
               PROVE  task = "wanted"
    OBVIOUS
  <2>0. script \in Runs
    BY DEF TaskInv, TaskTypeOK
  <2>1. Exited("idle").step = "idle"
    BY ExitedIs
  <2>2. CASE ReadTask
    BY <2>0, <2>2 DEF ReadTask, Runs
  <2>3. CASE VerifyTask
    BY <2>1, <2>3 DEF VerifyTask
  <2>4. CASE WriteTask \/ Poll \/ ReadMessages
    BY <2>0, <2>1, <2>4 DEF WriteTask, Poll, ReadMessages, Prints, Runs
  <2>5. CASE Trigger \/ List
    BY <2>0, <2>1, <2>5 DEF Trigger, List, Throw, Runs
  <2>6. CASE Wake \/ RequestFails
    BY <2>0, <2>1, <2>6 DEF Wake, Prints, RequestFails, Throw, Runs
  <2>7. CASE \/ StartScript("Bootstrap", "read")
             \/ StartScript("RunNow", "trigger")
             \/ StartScript("History", "list")
    BY <2>7 DEF StartScript, Exited
  <2>8. CASE UNCHANGED script
    BY <2>8
  <2> QED
    BY <2>2, <2>3, <2>4, <2>5, <2>6, <2>7, <2>8
       DEF TaskNext, Script, BeginExecution, WriteMessage, Drift, PostEvidence, RemoveProof,
           WriteProof, Tick
<1> QED
  BY TaskInvHolds, <1>1, PTL DEF TaskSpec, ConfiguredIsReadBack
=============================================================================
