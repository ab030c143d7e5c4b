------------------------- MODULE ScenarioLifecycle -------------------------
(***************************************************************************)
(* tools/mission-control/scenario-lifecycle.js: `start` and `reset` runs   *)
(* of the scenario lifecycle, several processes at a time (the Mission     *)
(* Control server, PowerShell helpers, a second operator) over one cluster.*)
(*                                                                         *)
(* Every read and write of the two ConfigMaps is a step of its own, because*)
(* other processes run between two kubectl calls.  The ConfigMaps are      *)
(* registers with a resourceVersion (rv, 0 while the object does not       *)
(* exist): `create` fails when the object exists, `replace` when the       *)
(* version moved on.  The calls of one cleanup are one step, which may stop*)
(* anywhere.                                                               *)
(*                                                                         *)
(* A run executes once, so its identity stands for the ownerToken that     *)
(* acquireLifecycleLock draws at random.  Manifests are abstracted to what *)
(* the lifecycle can tell apart: a scenario either overlays a resource of  *)
(* k8s/base or adds its own, and an overlay may degrade the workloads that *)
(* verifyBaselineState looks at.                                           *)
(***************************************************************************)
EXTENDS Naturals

CONSTANTS
    Runs,           \* invocations of startDemoScenario / resetDemoBaseline
    Scenarios,      \* k8s/scenarios/*.yaml
    Overlay,        \* scenarios that overwrite resources of k8s/base
    Degrading,      \* overlays that make a baseline workload unavailable
    Commands,       \* the commands the runs may carry (records of Command)
    Faults,         \* "crash", "readError", "writeError", "slowHolder"
    LockExists,     \* TRUE when an earlier run left the lock ConfigMap behind
    NoRun,          \* ownerToken: null
    NoScenario      \* scenarioId: null

Command == [op : {"start", "reset"}, scenario : Scenarios \cup {NoScenario},
            stacking : BOOLEAN, whatIf : BOOLEAN, scope : SUBSET Scenarios]

ASSUME LifecycleAssumption ==
    /\ Degrading \subseteq Overlay
    /\ Overlay \subseteq Scenarios
    /\ Commands \subseteq Command
    /\ \A c \in Commands : c.op = "start" => c.scenario \in Scenarios
    /\ NoRun \notin Runs
    /\ NoScenario \notin Scenarios
    /\ LockExists \in BOOLEAN

VARIABLES
    cmd,        \* the command of each run
    pc,         \* the kubectl call each run makes next, or how it returned
    expected,   \* rv of the lock a run acted on: expectedResourceVersion
    current,    \* rv writeConfigMapValue re-read just before it writes
    todo,       \* the lifecycle phase a run writes next, "none" if no write
    lock,       \* ConfigMap demo-scenario-lifecycle-lock
    state,      \* ConfigMap demo-scenario-lifecycle-state
    applied,    \* scenarios whose manifests are in the cluster
    live,       \* scenarios whose symptoms the workloads show
    baseline,   \* FALSE while a reset deleted base resources it must reapply
    mishaps     \* history: what went wrong with the lock of each run

cluster == <<applied, live, baseline>>
locals == <<expected, current, todo>>
vars == <<cmd, pc, locals, lock, state, cluster, mishaps>>

-----------------------------------------------------------------------------
(* Lifecycle phases.                                                         *)

UnresolvedPhases == {"active", "starting", "failed", "partial",
                     "apply-failed", "activation-timeout"}

Phases == UnresolvedPhases \cup {"none", "reset", "reset-failed"}

\* The phases whose records this module's code writes together with endTime.
HasEndTime(phase) == phase \in {"apply-failed", "activation-timeout", "reset"}

\* isUnresolvedLifecycleState
Unresolved(phase) == phase \in UnresolvedPhases /\ ~HasEndTime(phase)

-----------------------------------------------------------------------------
(* Where a run is.                                                           *)

Returned == {"ok", "blocked", "failed"}
Dead == Returned \cup {"threw", "crashed"}

\* A start run reads the state first; a reset goes straight for the lock.
Entry(c) == IF c.op = "start" THEN "readState" ELSE "readLock"

\* The first call after the lock is ours.
Work(c) == IF c.op = "start" THEN "verifyBaseline" ELSE "cleanup"

\* The failures startDemoScenario records only after it released the lock.
ReleasedFirst == {"apply-failed", "activation-timeout"}

\* Between acquiring the lock and the call of releaseLifecycleLock.
InCritical(r) ==
    \/ pc[r] \in {"verifyBaseline", "apply", "await", "cleanup", "reapply",
                  "verifyReset"}
    \/ pc[r] \in {"rereadState", "replaceState"} /\ todo[r] \notin ReleasedFirst

\* At work, or about to read back the lock it wrote.
Busy(r) == InCritical(r) \/ pc[r] = "confirmLock"

Forceful == {r \in Runs : cmd[r].stacking}

Holds(r) == lock.locked /\ lock.owner = r

\* Where releaseLifecycleLock returns to, by the phase the caller has in hand.
AfterRelease(phase) ==
    CASE phase \in {"active", "reset"} -> "ok"
      [] phase \in ReleasedFirst -> "rereadState"
      [] phase \in {"failed", "reset-failed"} -> "failed"
      [] phase = "none" -> "blocked"
      [] OTHER -> "threw"

\* Where writeLifecycleState returns to.
AfterStateWrite(phase) ==
    CASE phase = "starting" -> "apply"
      [] phase \in ReleasedFirst -> "failed"
      [] OTHER -> "readRelease"

-----------------------------------------------------------------------------
Goto(r, step) == pc' = [pc EXCEPT ![r] = step]

\* Any `kubectl get` can fail; the readers differ in what they make of it.
ReadMayFail == "readError" \in Faults

\* `kubectl create` and `replace` can fail for other reasons than a version, with
\* the object written or not.
WriteMayFail == "writeError" \in Faults

\* A run took a lock it could not read, outlived its TTL, or lost a call about it.
Mishaps == {"blind", "late", "lost"}

Suffers(r, what) == mishaps' = [mishaps EXCEPT ![r] = @ \cup {what}]

Blind == {r \in Runs : "blind" \in mishaps[r]}

\* The runs that would take a lock that is held.
Takers == Forceful \cup Blind

\* An error escapes: resetDemoBaseline catches it and releases the lock,
\* startDemoScenario has no catch and leaves the lock behind.
Throw(r) ==
    IF cmd[r].op = "start"
    THEN Goto(r, "threw") /\ UNCHANGED todo
    ELSE Goto(r, "readRelease") /\ todo' = [todo EXCEPT ![r] = "error"]

Init ==
    /\ cmd \in [Runs -> Commands]
    /\ pc = [r \in Runs |-> Entry(cmd[r])]
    /\ expected = [r \in Runs |-> 0]
    /\ current = [r \in Runs |-> 0]
    /\ todo = [r \in Runs |-> "none"]
    /\ lock = [rv |-> IF LockExists THEN 1 ELSE 0, locked |-> FALSE,
               owner |-> NoRun, expired |-> FALSE]
    /\ state = [rv |-> 0, phase |-> "none", scenario |-> NoScenario]
    /\ applied = {}
    /\ live = {}
    /\ baseline = TRUE
    /\ mishaps = [r \in Runs |-> {}]

\* startDemoScenario: readLifecycleState and the stacking guard.  A failed
\* read falls through to the (absent) local file and counts as the baseline.
ReadState(r) ==
    /\ pc[r] = "readState"
    /\ \/ /\ Unresolved(state.phase) /\ ~cmd[r].stacking
          /\ Goto(r, "blocked")
       \/ /\ ~Unresolved(state.phase) \/ cmd[r].stacking \/ ReadMayFail
          /\ Goto(r, "readLock")
    /\ UNCHANGED <<cmd, locals, lock, state, cluster, mishaps>>

-----------------------------------------------------------------------------
(* acquireLifecycleLock                                                      *)

\* Mutant of ReadLock: nobody looks at expiresAt.
ReadLockForEver(r) ==
    /\ pc[r] = "readLock"
    /\ \/ /\ lock.locked /\ ~cmd[r].stacking
          /\ Goto(r, "blocked")
          /\ UNCHANGED <<expected, mishaps>>
       \/ /\ ~lock.locked \/ cmd[r].stacking
          /\ Goto(r, "rereadLock")
          /\ expected' = [expected EXCEPT ![r] = lock.rv]
          /\ UNCHANGED mishaps
       \/ /\ ReadMayFail
          /\ Goto(r, "rereadLock")
          /\ expected' = [expected EXCEPT ![r] = 0]
          /\ Suffers(r, "blind")
    /\ UNCHANGED <<cmd, current, todo, lock, state, cluster>>

\* readLifecycleLock, then the guard.  A failed read looks like "no lock".
ReadLock(r) ==
    /\ pc[r] = "readLock"
    /\ \/ /\ lock.locked /\ ~lock.expired /\ ~cmd[r].stacking
          /\ Goto(r, "blocked")
          /\ UNCHANGED <<expected, mishaps>>
       \/ /\ ~lock.locked \/ lock.expired \/ cmd[r].stacking
          /\ Goto(r, "rereadLock")
          /\ expected' = [expected EXCEPT ![r] = lock.rv]
          /\ UNCHANGED mishaps
       \/ /\ ReadMayFail
          /\ Goto(r, "rereadLock")
          /\ expected' = [expected EXCEPT ![r] = 0]
          /\ Suffers(r, "blind")
    /\ UNCHANGED <<cmd, current, todo, lock, state, cluster>>

\* Mutant of RereadLock: the comparison with expectedResourceVersion is gone.
RereadLockUnchecked(r) ==
    /\ pc[r] = "rereadLock"
    /\ Goto(r, "replaceLock")
    /\ current' = [current EXCEPT ![r] = lock.rv]
    /\ UNCHANGED <<cmd, expected, todo, lock, state, cluster, mishaps>>

\* writeConfigMapValue reads again and compares with expectedResourceVersion,
\* unless none was passed: version 0 stands for the null of an absent lock.
RereadLock(r) ==
    /\ pc[r] = "rereadLock"
    /\ \/ /\ expected[r] # 0 /\ lock.rv # expected[r]
          /\ Goto(r, "blocked")
          /\ UNCHANGED <<current, mishaps>>
       \/ /\ expected[r] = 0 \/ lock.rv = expected[r]
          /\ Goto(r, "replaceLock")
          /\ current' = [current EXCEPT ![r] = lock.rv]
          /\ UNCHANGED mishaps
       \/ /\ ReadMayFail
          /\ Goto(r, "blocked")
          /\ Suffers(r, "lost")
          /\ UNCHANGED current
    /\ UNCHANGED <<cmd, expected, todo, lock, state, cluster>>

Taken(r) == [rv |-> lock.rv + 1, locked |-> TRUE, owner |-> r, expired |-> FALSE]

\* kubectl create or replace: the API server refuses a version that moved on.
\* The caller reports SCENARIO_LOCK_WRITE_FAILED for any other failure too.
ReplaceLock(r) ==
    /\ pc[r] = "replaceLock"
    /\ \/ /\ lock.rv = current[r]
          /\ lock' = Taken(r)
          /\ Goto(r, "confirmLock")
          /\ UNCHANGED mishaps
       \/ /\ lock.rv # current[r]
          /\ Goto(r, "blocked")
          /\ UNCHANGED <<lock, mishaps>>
       \/ /\ WriteMayFail
          /\ lock' = lock \/ (lock.rv = current[r] /\ lock' = Taken(r))
          /\ Goto(r, "blocked")
          /\ Suffers(r, "lost")
    /\ UNCHANGED <<cmd, locals, state, cluster>>

\* The read-back supplies the version releaseLifecycleLock will insist on.
\* When it fails the caller reports SCENARIO_LOCK_WRITE_FAILED for a lock
\* that is written.
ConfirmLock(r) ==
    /\ pc[r] = "confirmLock"
    /\ \/ /\ Goto(r, Work(cmd[r]))
          /\ expected' = [expected EXCEPT ![r] = lock.rv]
          /\ UNCHANGED mishaps
       \/ /\ ReadMayFail
          /\ Goto(r, "blocked")
          /\ Suffers(r, "lost")
          /\ UNCHANGED expected
    /\ UNCHANGED <<cmd, current, todo, lock, state, cluster>>

-----------------------------------------------------------------------------
(* releaseLifecycleLock: its outcome is never looked at by the callers.      *)

Leave(r) == Goto(r, AfterRelease(todo[r]))

\* A call of the release failed; the run goes on as if the lock were free.
LeaveAnyway(r) == Leave(r) /\ Suffers(r, "lost")

\* Mutant of ReadRelease: any lock is released, whoever owns it.
ReadReleaseUnowned(r) ==
    /\ pc[r] = "readRelease"
    /\ \/ /\ lock.locked
          /\ Goto(r, "rereadRelease")
          /\ expected' = [expected EXCEPT ![r] = lock.rv]
       \/ /\ ~lock.locked
          /\ Leave(r)
          /\ UNCHANGED expected
    /\ UNCHANGED <<cmd, current, todo, lock, state, cluster, mishaps>>

\* A failed read counts as "not locked": nothing is released.
ReadRelease(r) ==
    /\ pc[r] = "readRelease"
    /\ \/ /\ Holds(r) /\ lock.rv = expected[r]
          /\ Goto(r, "rereadRelease")
          /\ UNCHANGED mishaps
       \/ /\ ~Holds(r) \/ lock.rv # expected[r]
          /\ Leave(r)
          /\ UNCHANGED mishaps
       \/ ReadMayFail /\ LeaveAnyway(r)
    /\ UNCHANGED <<cmd, locals, lock, state, cluster>>

RereadRelease(r) ==
    /\ pc[r] = "rereadRelease"
    /\ \/ /\ lock.rv = expected[r]
          /\ current' = [current EXCEPT ![r] = lock.rv]
          /\ Goto(r, "replaceRelease")
          /\ UNCHANGED mishaps
       \/ /\ lock.rv # expected[r]
          /\ Leave(r)
          /\ UNCHANGED <<current, mishaps>>
       \/ ReadMayFail /\ LeaveAnyway(r) /\ UNCHANGED current
    /\ UNCHANGED <<cmd, expected, todo, lock, state, cluster>>

Freed == [rv |-> lock.rv + 1, locked |-> FALSE, owner |-> NoRun, expired |-> FALSE]

\* A replace that fails is LOCK_RELEASE_FAILED, whether or not it was written.
ReplaceRelease(r) ==
    /\ pc[r] = "replaceRelease"
    /\ \/ /\ lock.rv = current[r]
          /\ lock' = Freed
          /\ Leave(r)
          /\ UNCHANGED mishaps
       \/ /\ lock.rv # current[r]
          /\ Leave(r)
          /\ UNCHANGED <<lock, mishaps>>
       \/ /\ WriteMayFail
          /\ lock' = lock \/ (lock.rv = current[r] /\ lock' = Freed)
          /\ LeaveAnyway(r)
    /\ UNCHANGED <<cmd, locals, state, cluster>>

-----------------------------------------------------------------------------
(* writeLifecycleState: no expected version, nothing ties it to the lock.    *)

RecordPhase(r, phase) ==
    /\ todo' = [todo EXCEPT ![r] = phase]
    /\ Goto(r, "rereadState")

RereadState(r) ==
    /\ pc[r] = "rereadState"
    /\ \/ /\ current' = [current EXCEPT ![r] = state.rv]
          /\ Goto(r, "replaceState")
          /\ UNCHANGED todo
       \/ /\ ReadMayFail
          /\ Throw(r)
          /\ UNCHANGED current
    /\ UNCHANGED <<cmd, expected, lock, state, cluster, mishaps>>

\* On success the record is read back, and a failure of that read throws too.
ReplaceState(r) ==
    /\ pc[r] = "replaceState"
    /\ \/ /\ state.rv = current[r]
          /\ state' = [rv |-> state.rv + 1, phase |-> todo[r],
                       scenario |-> cmd[r].scenario]
          /\ \/ Goto(r, AfterStateWrite(todo[r])) /\ UNCHANGED todo
             \/ (ReadMayFail \/ WriteMayFail) /\ Throw(r)
       \/ /\ state.rv # current[r] \/ WriteMayFail
          /\ Throw(r)
          /\ UNCHANGED state
    /\ UNCHANGED <<cmd, expected, current, lock, cluster, mishaps>>

-----------------------------------------------------------------------------
(* startDemoScenario, once it has the lock                                   *)

\* verifyBaselineState over a snapshot; workloads the model does not name can
\* be unhealthy at any time, and a list that cannot be read is empty.
Healthy == baseline /\ live \cap Degrading = {}

\* Mutant of VerifyBaseline: an unhealthy baseline returns without a release.
VerifyBaselineKeepsLock(r) ==
    /\ pc[r] = "verifyBaseline"
    /\ \/ Healthy /\ RecordPhase(r, "starting")
       \/ Goto(r, "blocked") /\ UNCHANGED todo
    /\ UNCHANGED <<cmd, expected, current, lock, state, cluster, mishaps>>

\* Mutant of VerifyBaseline: the "starting" record is not written.
VerifyBaselineUnrecorded(r) ==
    /\ pc[r] = "verifyBaseline"
    /\ \/ Healthy /\ Goto(r, "apply")
       \/ Goto(r, "readRelease")
    /\ UNCHANGED <<cmd, locals, lock, state, cluster, mishaps>>

VerifyBaseline(r) ==
    /\ pc[r] = "verifyBaseline"
    /\ \/ Healthy /\ RecordPhase(r, "starting")
       \/ Goto(r, "readRelease") /\ UNCHANGED todo
    /\ UNCHANGED <<cmd, expected, current, lock, state, cluster, mishaps>>

\* applyScenarioJob; a manifest of several documents may fail half-way.
Apply(r) ==
    /\ pc[r] = "apply"
    /\ \/ /\ IF cmd[r].whatIf THEN UNCHANGED applied
             ELSE applied' = applied \cup {cmd[r].scenario}
          /\ Goto(r, "await")
          /\ UNCHANGED todo
       \/ /\ ~cmd[r].whatIf
          /\ applied' \in {applied, applied \cup {cmd[r].scenario}}
          /\ Goto(r, "readRelease")
          /\ todo' = [todo EXCEPT ![r] = "apply-failed"]
    /\ UNCHANGED <<cmd, expected, current, lock, state, live, baseline, mishaps>>

\* Mutant of Await: a phase that no reader of the record knows.
AwaitUnknownPhase(r) ==
    /\ pc[r] = "await"
    /\ \/ cmd[r].scenario \in live /\ RecordPhase(r, "active")
       \/ cmd[r].scenario \notin live /\ RecordPhase(r, "timeout")
    /\ UNCHANGED <<cmd, expected, current, lock, state, cluster, mishaps>>

\* waitForActivation: the poll that sees the symptom, or the last one.  A list
\* that cannot be read is empty, which is a symptom of some scenarios (no ready
\* mongodb pod) and hides that of others.
Await(r) ==
    /\ pc[r] = "await"
    /\ \/ /\ cmd[r].scenario \in live \/ ReadMayFail
          /\ RecordPhase(r, "active")
       \/ /\ cmd[r].scenario \notin live \/ ReadMayFail
          /\ Goto(r, "readRelease")
          /\ todo' = [todo EXCEPT ![r] = "activation-timeout"]
    /\ UNCHANGED <<cmd, expected, current, lock, state, cluster, mishaps>>

-----------------------------------------------------------------------------
(* resetDemoBaseline, once it has the lock                                   *)

\* resetScenarioOwnedResources deletes whatever the inventory lists in scope,
\* base resources that an overlay shares included.
Cleanup(r) ==
    /\ pc[r] = "cleanup"
    /\ \/ /\ cmd[r].whatIf
          /\ UNCHANGED <<applied, baseline>>
          /\ Goto(r, "reapply") /\ UNCHANGED todo
       \/ /\ ~cmd[r].whatIf
          /\ \E deleted \in SUBSET cmd[r].scope :
                /\ applied' = applied \ deleted
                /\ baseline' = (baseline /\ deleted \cap Overlay = {})
                /\ \/ /\ deleted = cmd[r].scope
                      /\ Goto(r, "reapply") /\ UNCHANGED todo
                   \/ RecordPhase(r, "failed")
    /\ UNCHANGED <<cmd, expected, current, lock, state, live, mishaps>>

\* kubectl apply -f k8s/base/application.yaml undoes every overlay, or only
\* some when it fails half-way.
Reapply(r) ==
    /\ pc[r] = "reapply"
    /\ \/ /\ IF cmd[r].whatIf THEN UNCHANGED <<applied, baseline>>
             ELSE applied' = applied \ Overlay /\ baseline' = TRUE
          /\ Goto(r, "verifyReset") /\ UNCHANGED todo
       \/ /\ ~cmd[r].whatIf
          /\ RecordPhase(r, "failed")
          /\ \E undone \in SUBSET Overlay : applied' = applied \ undone
          /\ baseline' \in {baseline, TRUE}
    /\ UNCHANGED <<cmd, expected, current, lock, state, live, mishaps>>

VerifyReset(r) ==
    /\ pc[r] = "verifyReset"
    /\ \/ Healthy /\ RecordPhase(r, "reset")
       \/ RecordPhase(r, "reset-failed")
    /\ UNCHANGED <<cmd, expected, current, lock, state, cluster, mishaps>>

-----------------------------------------------------------------------------
(* The environment                                                           *)

\* Workloads follow the manifests with a delay.
Settle(s) ==
    /\ live' = IF s \in applied THEN live \cup {s} ELSE live \ {s}
    /\ live' # live
    /\ UNCHANGED <<cmd, pc, locals, lock, state, applied, baseline, mishaps>>

\* The process dies, or its terminal is closed.
Crash(r) ==
    /\ "crash" \in Faults
    /\ pc[r] \notin Dead
    /\ Goto(r, "crashed")
    /\ UNCHANGED <<cmd, locals, lock, state, cluster, mishaps>>

\* LOCK_TTL_MS passes: five minutes, longer than any run takes whose kubectl
\* calls return ("slowHolder" lifts that assumption).
Expire ==
    /\ lock.locked /\ ~lock.expired
    /\ \/ pc[lock.owner] \in Dead /\ UNCHANGED mishaps
       \/ /\ pc[lock.owner] \notin Dead /\ "slowHolder" \in Faults
          /\ Suffers(lock.owner, "late")
    /\ lock' = [lock EXCEPT !.expired = TRUE]
    /\ UNCHANGED <<cmd, pc, locals, state, cluster>>

Step(r) ==
    \/ ReadState(r) \/ ReadLock(r) \/ RereadLock(r) \/ ReplaceLock(r)
    \/ ConfirmLock(r) \/ ReadRelease(r) \/ RereadRelease(r)
    \/ ReplaceRelease(r) \/ RereadState(r) \/ ReplaceState(r)
    \/ VerifyBaseline(r) \/ Apply(r) \/ Await(r)
    \/ Cleanup(r) \/ Reapply(r) \/ VerifyReset(r)

Next ==
    \/ \E r \in Runs : Step(r) \/ Crash(r)
    \/ \E s \in Scenarios : Settle(s)
    \/ Expire

Spec == Init /\ [][Next]_vars

\* A process that is alive goes on.
FairSpec == Spec /\ \A r \in Runs : WF_vars(Step(r))

-----------------------------------------------------------------------------
(* Properties                                                                *)

Steps == {"readState", "readLock", "rereadLock", "replaceLock", "confirmLock",
          "verifyBaseline", "rereadState", "replaceState", "apply", "await",
          "cleanup", "reapply", "verifyReset",
          "readRelease", "rereadRelease", "replaceRelease"} \cup Dead

\* Every variable has its type.
TypeOK ==
    /\ cmd \in [Runs -> Commands]
    /\ pc \in [Runs -> Steps]
    /\ expected \in [Runs -> Nat]
    /\ current \in [Runs -> Nat]
    /\ todo \in [Runs -> Phases \cup {"error"}]
    /\ lock \in [rv : Nat, locked : BOOLEAN, owner : Runs \cup {NoRun},
                 expired : BOOLEAN]
    /\ state \in [rv : Nat, phase : Phases,
                  scenario : Scenarios \cup {NoScenario}]
    /\ applied \subseteq Scenarios
    /\ live \subseteq Scenarios
    /\ baseline \in BOOLEAN
    /\ mishaps \in [Runs -> SUBSET Mishaps]

\* What can take the lock from run r: another run that stacks, is a reset or
\* could not read the lock, once it got as far as its write; a TTL that r itself
\* outlived; and the very first use of the lock, when nothing makes two creators
\* compare versions.
MayBeOverrun(r) ==
    \/ \E s \in Takers \ {r} :
          pc[s] \notin {"readState", "readLock", "rereadLock", "replaceLock"}
    \/ "late" \in mishaps[r]
    \/ ~LockExists

\* A run works on the cluster and writes the lifecycle state only while it is
\* the unexpired owner of the lock, unless something overran it: the exclusion
\* that acquireLifecycleLock and the TTL are there for, across crashes, failing
\* calls and slow runs.
HoldsLockWhileCritical ==
    \A r \in Runs :
        InCritical(r) => (Holds(r) /\ ~lock.expired) \/ MayBeOverrun(r)

\* While no run is a reset, the record is write-ahead: the state ConfigMap says
\* "unresolved" before a manifest can be in the cluster and for as long as no
\* run reported a failed start, so that a crash at any point leaves a record
\* that blocks the next plain start.
AppliedIsRecorded ==
    (\A r \in Runs : cmd[r].op = "start") =>
        (applied # {} =>
            \/ Unresolved(state.phase)
            \/ \E r \in Runs : todo[r] \in ReleasedFirst)

\* A run that returned does not own the lock: every early return of
\* startDemoScenario and resetDemoBaseline gives it back.  Only an exception out
\* of a start, a crash, and a run that itself lost a kubectl call about its lock
\* (the read-back of the acquisition, or any call of the release, whose outcome
\* the callers ignore) leave a lock to the TTL.
ReturnedMeansReleased ==
    \A r \in Runs : pc[r] \in Returned /\ Holds(r) => "lost" \in mishaps[r]

\* The lock implements the lease: released only by an owner that is done, never
\* by a run it was taken from, and taken over only when stale, or by a run that
\* stacks or was blind.  A ConfigMap that does not exist yet puts every run among
\* those that can take it.
Lease == INSTANCE LifecycleLease WITH
            Run <- Runs,
            holder <- IF lock.locked THEN lock.owner ELSE NoRun,
            stale <- lock.expired,
            forceful <- IF LockExists THEN Takers ELSE Runs,
            working <- {r \in Runs : Busy(r)}

LeaseSpec == Lease!Spec

\* Nobody that can take the lock owns it, or its owner is dead and its TTL over.
LockIsFree == lock.locked => lock.expired /\ pc[lock.owner] \in Dead

\* A run that asks for a lock nobody alive owns is turned away only for another
\* run that took it: a lock that a crash, an exception or a lost call left
\* behind does not block the lifecycle beyond its TTL, and of several runs that
\* compare versions at least one wins, unless a call of the run fails or it dies.
FreeLockIsTaken ==
    \A r \in Runs :
        pc[r] = "readLock" /\ LockIsFree
            ~> \/ lock.locked /\ ~lock.expired
               \/ "lost" \in mishaps[r] \/ pc[r] = "crashed"

\* Only startDemoScenario's own guard stands for it: a start without
\* -AllowStacking applies its manifest to a cluster that holds no other
\* scenario.
NoUnrequestedStacking ==
    [][\A r \in Runs :
         ~cmd[r].stacking /\ pc[r] = "apply" /\ applied' # applied
             => applied \subseteq {cmd[r].scenario}]_vars
=============================================================================
