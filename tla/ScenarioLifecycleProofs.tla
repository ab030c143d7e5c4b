---------------------- MODULE ScenarioLifecycleProofs ----------------------
(***************************************************************************)
(* Theorems about ScenarioLifecycle, for any number of runs, any commands  *)
(* and any faults.                                                         *)
(***************************************************************************)
EXTENDS ScenarioLifecycle, TLAPS

\* The phases a run may have in hand.
Todo == Phases \cup {"error"}

LEMMA AfterReleaseType ==
    ASSUME NEW phase \in Todo
    PROVE  /\ AfterRelease(phase) \in {"ok", "rereadState", "failed", "blocked", "threw"}
           /\ AfterRelease(phase) = "rereadState" => phase \in ReleasedFirst
BY DEF AfterRelease, ReleasedFirst

LEMMA AfterStateWriteType ==
    ASSUME NEW phase \in Todo
    PROVE  AfterStateWrite(phase) \in {"apply", "failed", "readRelease"}
BY DEF AfterStateWrite, ReleasedFirst

LockRecord == [rv : Nat, locked : BOOLEAN, owner : Runs \cup {NoRun},
               expired : BOOLEAN]

LEMMA NextLockRecord ==
    ASSUME NEW n \in Nat, NEW b \in BOOLEAN, NEW o \in Runs \cup {NoRun}
    PROVE  [rv |-> n + 1, locked |-> b, owner |-> o, expired |-> FALSE] \in LockRecord
BY DEF LockRecord

\* A run never writes the marker of an escaped error into the state record.
WritesPhases ==
    \A r \in Runs : pc[r] \in {"rereadState", "replaceState"} => todo[r] \in Phases

\* Only start runs verify, apply and wait: resets carry no scenario.
StartsApply ==
    \A r \in Runs :
        pc[r] \in {"verifyBaseline", "apply", "await"} \/ todo[r] = "starting"
            => cmd[r].op = "start"

TypeInv == TypeOK /\ WritesPhases /\ StartsApply

LEMMA TypeInvariant == Spec => []TypeInv
<1>1. Init => TypeInv
  BY LifecycleAssumption DEF Init, TypeInv, WritesPhases, StartsApply, TypeOK, Entry, Steps, Phases, Command
<1>2. TypeInv /\ [Next]_vars => TypeInv'
  <2> SUFFICES ASSUME TypeInv, [Next]_vars PROVE TypeInv'
    OBVIOUS
  <2> USE LifecycleAssumption
      DEF TypeInv, WritesPhases, StartsApply, TypeOK, Goto, Steps, Dead, Returned,
          Suffers, Mishaps
  <2>1. ASSUME NEW r \in Runs, ReadState(r) PROVE TypeInv'
    BY <2>1 DEF ReadState, locals, cluster
  <2>2. ASSUME NEW r \in Runs, ReadLock(r) PROVE TypeInv'
    BY <2>2 DEF ReadLock, cluster
  <2>3. ASSUME NEW r \in Runs, RereadLock(r) PROVE TypeInv'
    BY <2>3 DEF RereadLock, cluster
  <2>4. ASSUME NEW r \in Runs, ReplaceLock(r) PROVE TypeInv'
    <3>1. lock.rv \in Nat
      OBVIOUS
    <3>2. lock' \in LockRecord
      BY <2>4, <3>1, NextLockRecord DEF ReplaceLock, Taken, LockRecord
    <3>3. QED
      BY <2>4, <3>2 DEF LockRecord, ReplaceLock, locals, cluster
  <2>5. ASSUME NEW r \in Runs, ConfirmLock(r) PROVE TypeInv'
    BY <2>5 DEF ConfirmLock, Work, cluster
  <2>6. ASSUME NEW r \in Runs, ReadRelease(r) PROVE TypeInv'
    BY <2>6, AfterReleaseType
       DEF ReadRelease, Leave, LeaveAnyway, Todo, ReleasedFirst, Phases, UnresolvedPhases, locals, cluster
  <2>7. ASSUME NEW r \in Runs, RereadRelease(r) PROVE TypeInv'
    BY <2>7, AfterReleaseType
       DEF RereadRelease, Leave, LeaveAnyway, Todo, ReleasedFirst, Phases, UnresolvedPhases, cluster
  <2>8. ASSUME NEW r \in Runs, ReplaceRelease(r) PROVE TypeInv'
    <3>1. lock.rv \in Nat
      OBVIOUS
    <3>2. lock' \in LockRecord
      BY <2>8, <3>1, NextLockRecord DEF ReplaceRelease, Freed, LockRecord
    <3>3. pc' \in [Runs -> Steps] /\ WritesPhases' /\ StartsApply'
      BY <2>8, AfterReleaseType
         DEF ReplaceRelease, Leave, LeaveAnyway, Todo, ReleasedFirst, Phases,
             UnresolvedPhases, locals, cluster
    <3>4. mishaps' \in [Runs -> SUBSET Mishaps]
      BY <2>8 DEF ReplaceRelease, LeaveAnyway
    <3>5. QED
      BY <2>8, <3>2, <3>3, <3>4 DEF LockRecord, ReplaceRelease, locals, cluster
  <2>9. ASSUME NEW r \in Runs, RereadState(r) PROVE TypeInv'
    BY <2>9 DEF RereadState, Throw, Phases, cluster
  <2>10. ASSUME NEW r \in Runs, ReplaceState(r) PROVE TypeInv'
    <3>1. AfterStateWrite(todo[r]) \in Steps
      BY AfterStateWriteType DEF Todo
    <3>2. pc' \in [Runs -> Steps] /\ todo' \in [Runs -> Phases \cup {"error"}]
      BY <2>10, <3>1 DEF ReplaceState, Throw
    <3>3. todo[r] \in Phases
      BY <2>10 DEF ReplaceState
    <3>4. WritesPhases'
      BY <2>10, <3>3, AfterStateWriteType DEF ReplaceState, Throw, Todo
    <3>5. StartsApply'
      BY <2>10, <3>3, AfterStateWriteType
         DEF ReplaceState, Throw, AfterStateWrite, ReleasedFirst
    <3>6. QED
      BY <2>10, <3>2, <3>3, <3>4, <3>5 DEF ReplaceState, cluster, Command
  <2>11. ASSUME NEW r \in Runs, VerifyBaseline(r) PROVE TypeInv'
    BY <2>11 DEF VerifyBaseline, RecordPhase, Phases, UnresolvedPhases, cluster
  <2>12. ASSUME NEW r \in Runs, Apply(r) PROVE TypeInv'
    BY <2>12 DEF Apply, Phases, UnresolvedPhases, Command
  <2>13. ASSUME NEW r \in Runs, Await(r) PROVE TypeInv'
    BY <2>13 DEF Await, RecordPhase, Phases, UnresolvedPhases, cluster
  <2>14. ASSUME NEW r \in Runs, Cleanup(r) PROVE TypeInv'
    BY <2>14 DEF Cleanup, RecordPhase, Phases, UnresolvedPhases
  <2>15. ASSUME NEW r \in Runs, Reapply(r) PROVE TypeInv'
    BY <2>15 DEF Reapply, RecordPhase, Phases, UnresolvedPhases
  <2>16. ASSUME NEW r \in Runs, VerifyReset(r) PROVE TypeInv'
    BY <2>16 DEF VerifyReset, RecordPhase, Phases, UnresolvedPhases, cluster
  <2>17. ASSUME NEW r \in Runs, Crash(r) PROVE TypeInv'
    BY <2>17 DEF Crash, locals, cluster
  <2>18. ASSUME NEW s \in Scenarios, Settle(s) PROVE TypeInv'
    BY <2>18 DEF Settle, locals
  <2>19. CASE Expire
    <3>1. /\ UNCHANGED <<cmd, pc, expected, current, todo, state, applied, live, baseline>>
          /\ lock' = [lock EXCEPT !.expired = TRUE]
      BY <2>19 DEF Expire, locals, cluster
    <3>2. mishaps' \in [Runs -> SUBSET Mishaps]
      BY <2>19 DEF Expire
    <3>3. lock' \in LockRecord
      BY <3>1 DEF LockRecord
    <3> QED
      BY <3>1, <3>2, <3>3 DEF LockRecord
  <2>20. CASE UNCHANGED vars
    BY <2>20 DEF vars, locals, cluster
  <2>21. QED
    BY <2>1, <2>2, <2>3, <2>4, <2>5, <2>6, <2>7, <2>8, <2>9, <2>10, <2>11,
       <2>12, <2>13, <2>14, <2>15, <2>16, <2>17, <2>18, <2>19, <2>20
       DEF Next, Step
<1>3. QED
  BY <1>1, <1>2, PTL DEF Spec

\* Every variable keeps its type: the model's state is what the code's records
\* can hold, whatever fails.
THEOREM TypeCorrect == Spec => []TypeOK
<1>1. TypeInv => TypeOK
  BY DEF TypeInv
<1>2. QED
  BY <1>1, TypeInvariant, PTL

-----------------------------------------------------------------------------
(* The lock.  Versions only grow, so a version that a run read earlier and   *)
(* still finds names the very record it looked at; that is all the ownership *)
(* the code has between two kubectl calls.                                   *)

MayTake(r) == ~lock.locked \/ lock.expired \/ r \in Takers

LockInv ==
    /\ lock.locked <=> lock.owner \in Runs
    /\ lock.expired => lock.locked
    /\ LockExists => lock.rv # 0
    /\ \A r \in Runs :
        /\ expected[r] <= lock.rv
        /\ pc[r] \in {"replaceLock", "replaceRelease"} => current[r] <= lock.rv
        /\ pc[r] = "rereadRelease" /\ lock.rv = expected[r] => Holds(r)
        /\ pc[r] = "replaceRelease" /\ lock.rv = current[r] => Holds(r)
        /\ LockExists =>
            /\ pc[r] = "rereadLock" => expected[r] # 0 \/ r \in Takers
            /\ pc[r] = "rereadLock" /\ lock.rv = expected[r] => MayTake(r)
            /\ pc[r] = "replaceLock" /\ lock.rv = current[r] => MayTake(r)

\* The calls between which a version is carried.
LockSteps == {"rereadLock", "replaceLock", "rereadRelease", "replaceRelease"}

\* A step of r that neither touches the lock nor carries a version of it.
OffLock(r) ==
    /\ UNCHANGED <<cmd, expected, lock, mishaps>>
    /\ \E step \in Steps \ LockSteps : pc' = [pc EXCEPT ![r] = step]
    /\ current' \in [Runs -> Nat]
    /\ \A s \in Runs \ {r} : current'[s] = current[s]

LEMMA OffLockSteps ==
    ASSUME TypeInv, NEW r \in Runs,
           \/ ReadState(r) \/ RereadState(r) \/ ReplaceState(r)
           \/ VerifyBaseline(r) \/ Apply(r) \/ Await(r)
           \/ Cleanup(r) \/ Reapply(r) \/ VerifyReset(r) \/ Crash(r)
    PROVE  OffLock(r)
<1> USE DEF TypeInv, TypeOK, OffLock, Goto, LockSteps, Steps, Dead, Returned
<1>1. CASE ReadState(r)
  BY <1>1 DEF ReadState, locals
<1>2. CASE RereadState(r)
  BY <1>2 DEF RereadState, Throw
<1>3. CASE ReplaceState(r)
  <2>1. AfterStateWrite(todo[r]) \in Steps \ LockSteps
    BY AfterStateWriteType DEF Todo
  <2>2. QED
    BY <1>3, <2>1 DEF ReplaceState, Throw
<1>4. CASE VerifyBaseline(r)
  BY <1>4 DEF VerifyBaseline, RecordPhase
<1>5. CASE Apply(r)
  BY <1>5 DEF Apply
<1>6. CASE Await(r)
  BY <1>6 DEF Await, RecordPhase
<1>7. CASE Cleanup(r)
  BY <1>7 DEF Cleanup, RecordPhase
<1>8. CASE Reapply(r)
  BY <1>8 DEF Reapply, RecordPhase
<1>9. CASE VerifyReset(r)
  BY <1>9 DEF VerifyReset, RecordPhase
<1>10. CASE Crash(r)
  BY <1>10 DEF Crash, locals
<1>11. QED
  BY <1>1, <1>2, <1>3, <1>4, <1>5, <1>6, <1>7, <1>8, <1>9, <1>10

LEMMA LockInvInit == Init => LockInv
BY LifecycleAssumption DEF Init, LockInv, Entry

LEMMA LockInvStep == TypeInv /\ LockInv /\ [Next]_vars => LockInv'
<1> SUFFICES ASSUME TypeInv, LockInv, [Next]_vars PROVE LockInv'
  OBVIOUS
<1> USE LifecycleAssumption
    DEF TypeInv, TypeOK, LockInv, Holds, MayTake, Goto, Suffers, Takers, Forceful, Blind
<1>1. ASSUME NEW r \in Runs, OffLock(r) PROVE LockInv'
  BY <1>1 DEF OffLock, LockSteps
<1>2. ASSUME NEW r \in Runs, ReadLock(r) PROVE LockInv'
  BY <1>2 DEF ReadLock
<1>3. ASSUME NEW r \in Runs, RereadLock(r) PROVE LockInv'
  BY <1>3 DEF RereadLock
<1>4. ASSUME NEW r \in Runs, ReplaceLock(r) PROVE LockInv'
  BY <1>4 DEF ReplaceLock, Taken, locals
<1>5. ASSUME NEW r \in Runs, ConfirmLock(r) PROVE LockInv'
  BY <1>5 DEF ConfirmLock, Work
<1>6. ASSUME NEW r \in Runs, ReadRelease(r) PROVE LockInv'
  BY <1>6, AfterReleaseType DEF ReadRelease, Leave, LeaveAnyway, Todo, locals
<1>7. ASSUME NEW r \in Runs, RereadRelease(r) PROVE LockInv'
  BY <1>7, AfterReleaseType DEF RereadRelease, Leave, LeaveAnyway, Todo
<1>8. ASSUME NEW r \in Runs, ReplaceRelease(r) PROVE LockInv'
  BY <1>8, AfterReleaseType DEF ReplaceRelease, Leave, LeaveAnyway, Freed, Todo, locals
<1>9. ASSUME NEW s \in Scenarios, Settle(s) PROVE LockInv'
  BY <1>9 DEF Settle, locals
<1>10. CASE Expire
  BY <1>10 DEF Expire, locals
<1>11. CASE UNCHANGED vars
  BY <1>11 DEF vars, locals
<1>12. QED
  BY OffLockSteps, <1>1, <1>2, <1>3, <1>4, <1>5, <1>6, <1>7, <1>8, <1>9, <1>10,
     <1>11 DEF Next, Step

LEMMA LockInvariant == Spec => [](TypeInv /\ LockInv)
<1>1. Init => LockInv
  BY LockInvInit
<1>2. TypeInv /\ TypeInv' /\ LockInv /\ [Next]_vars => LockInv'
  BY LockInvStep
<1>3. QED
  BY <1>1, <1>2, TypeInvariant, PTL DEF Spec

-----------------------------------------------------------------------------
(* Refinement: a write of the lock is an Acquire or a Release of the lease,  *)
(* the TTL is Expire, the end of a run's work is Stop, and every other       *)
(* kubectl call is a stutter.                                                *)

\* The only way into the stretch that Busy describes is the write of the lock.
LEMMA EntersByLock ==
    ASSUME TypeInv, NEW r \in Runs, Step(r) \/ Crash(r)
    PROVE  /\ Busy(r)' /\ ~Busy(r) => ReplaceLock(r) /\ lock' = Taken(r)
           /\ \A s \in Runs \ {r} : pc'[s] = pc[s] /\ todo'[s] = todo[s]
           /\ ReplaceLock(r) \/ ReplaceRelease(r) \/ lock' = lock
<1> USE DEF TypeInv, TypeOK, Goto, Busy, InCritical
<1>1. CASE ReadState(r) \/ ReadLock(r) \/ RereadLock(r) \/ ReplaceLock(r) \/ ConfirmLock(r)
  BY <1>1 DEF ReadState, ReadLock, RereadLock, ReplaceLock, ConfirmLock, Work, locals
<1>2. CASE ReadRelease(r) \/ RereadRelease(r) \/ ReplaceRelease(r)
  BY <1>2, AfterReleaseType
     DEF ReadRelease, RereadRelease, ReplaceRelease, Leave, LeaveAnyway, Todo, locals
<1>3. CASE RereadState(r)
  BY <1>3 DEF RereadState, Throw
<1>4. CASE ReplaceState(r)
  BY <1>4, AfterStateWriteType DEF ReplaceState, Throw, Todo, AfterStateWrite
<1>5. CASE VerifyBaseline(r) \/ Apply(r) \/ Await(r)
  BY <1>5 DEF VerifyBaseline, Apply, Await, RecordPhase
<1>6. CASE Cleanup(r) \/ Reapply(r) \/ VerifyReset(r) \/ Crash(r)
  BY <1>6 DEF Cleanup, Reapply, VerifyReset, Crash, RecordPhase, locals
<1>7. QED
  BY <1>1, <1>2, <1>3, <1>4, <1>5, <1>6 DEF Step

PreLock == {"readState", "readLock", "rereadLock", "replaceLock"}

\* A run that wrote its lock never becomes a contender again.
LEMMA ContendsOnce ==
    ASSUME TypeInv, [Next]_vars
    PROVE  /\ cmd' = cmd
           /\ \A s \in Runs : pc[s] \notin PreLock => pc'[s] \notin PreLock
<1> USE DEF TypeInv, TypeOK, PreLock, Goto
<1>1. ASSUME NEW r \in Runs,
             \/ ReadState(r) \/ ReadLock(r) \/ RereadLock(r) \/ ReplaceLock(r)
             \/ ConfirmLock(r)
      PROVE  cmd' = cmd /\ \A s \in Runs : pc[s] \notin PreLock => pc'[s] \notin PreLock
  BY <1>1 DEF ReadState, ReadLock, RereadLock, ReplaceLock, ConfirmLock, Work
<1>2. ASSUME NEW r \in Runs,
             ReadRelease(r) \/ RereadRelease(r) \/ ReplaceRelease(r)
      PROVE  cmd' = cmd /\ \A s \in Runs : pc[s] \notin PreLock => pc'[s] \notin PreLock
  BY <1>2, AfterReleaseType
     DEF ReadRelease, RereadRelease, ReplaceRelease, Leave, LeaveAnyway, Todo
<1>3. ASSUME NEW r \in Runs, RereadState(r) \/ ReplaceState(r)
      PROVE  cmd' = cmd /\ \A s \in Runs : pc[s] \notin PreLock => pc'[s] \notin PreLock
  BY <1>3, AfterStateWriteType DEF RereadState, ReplaceState, Throw, Todo
<1>4. ASSUME NEW r \in Runs,
             \/ VerifyBaseline(r) \/ Apply(r) \/ Await(r)
             \/ Cleanup(r) \/ Reapply(r) \/ VerifyReset(r) \/ Crash(r)
      PROVE  cmd' = cmd /\ \A s \in Runs : pc[s] \notin PreLock => pc'[s] \notin PreLock
  BY <1>4 DEF VerifyBaseline, Apply, Await, Cleanup, Reapply, VerifyReset, Crash,
              RecordPhase
<1>5. CASE Expire \/ UNCHANGED vars \/ \E s \in Scenarios : Settle(s)
  BY <1>5 DEF Expire, vars, Settle
<1>6. QED
  BY <1>1, <1>2, <1>3, <1>4, <1>5 DEF Next, Step

\* Who would take a held lock is forgotten never, and learned only by a read of
\* the lock that fails.
LEMMA TakersGrow ==
    ASSUME TypeInv, [Next]_vars
    PROVE  /\ Takers \subseteq Takers'
           /\ \A r \in Runs : "late" \in mishaps[r] => "late" \in mishaps'[r]
           /\ \/ Takers' = Takers
              \/ \E r \in Runs :
                    /\ ReadLock(r) /\ Takers' = Takers \cup {r}
                    /\ pc' = [pc EXCEPT ![r] = "rereadLock"] /\ lock' = lock
<1> USE DEF TypeInv, TypeOK, Takers, Forceful, Blind, Suffers
<1>1. cmd' = cmd
  BY ContendsOnce
<1>2. ASSUME NEW r \in Runs, ReadLock(r), Suffers(r, "blind")
      PROVE  /\ Takers' = Takers \cup {r}
             /\ \A s \in Runs : "late" \in mishaps[s] => "late" \in mishaps'[s]
  BY <1>1, <1>2
<1>3. ASSUME NEW r \in Runs, Suffers(r, "lost") \/ Suffers(r, "late")
      PROVE  /\ Takers' = Takers
             /\ \A s \in Runs : "late" \in mishaps[s] => "late" \in mishaps'[s]
  BY <1>1, <1>3
<1>4. ASSUME UNCHANGED mishaps
      PROVE  /\ Takers' = Takers
             /\ \A s \in Runs : "late" \in mishaps[s] => "late" \in mishaps'[s]
  BY <1>1, <1>4
<1>5. ASSUME NEW r \in Runs, ReadLock(r)
      PROVE  \/ UNCHANGED mishaps
             \/ /\ Suffers(r, "blind")
                /\ pc' = [pc EXCEPT ![r] = "rereadLock"] /\ lock' = lock
  BY <1>5 DEF ReadLock, Goto
<1>6. ASSUME NEW r \in Runs,
             \/ ReadState(r) \/ RereadLock(r) \/ ReplaceLock(r) \/ ConfirmLock(r)
             \/ ReadRelease(r) \/ RereadRelease(r) \/ ReplaceRelease(r)
      PROVE  UNCHANGED mishaps \/ Suffers(r, "lost")
  BY <1>6 DEF ReadState, RereadLock, ReplaceLock, ConfirmLock, ReadRelease,
              RereadRelease, ReplaceRelease, LeaveAnyway
<1>7. ASSUME NEW r \in Runs,
             \/ RereadState(r) \/ ReplaceState(r)
             \/ VerifyBaseline(r) \/ Apply(r) \/ Await(r)
             \/ Cleanup(r) \/ Reapply(r) \/ VerifyReset(r) \/ Crash(r)
      PROVE  UNCHANGED mishaps
  BY <1>7 DEF RereadState, ReplaceState, VerifyBaseline, Apply, Await, Cleanup,
              Reapply, VerifyReset, Crash
<1>8. CASE UNCHANGED vars \/ \E s \in Scenarios : Settle(s)
  BY <1>4, <1>8 DEF vars, Settle
<1>9. CASE Expire
  <2>1. UNCHANGED mishaps \/ mishaps' = [mishaps EXCEPT ![lock.owner] = @ \cup {"late"}]
    BY <1>9 DEF Expire
  <2> QED
    BY <1>1, <2>1
<1>10. QED
  BY <1>2, <1>3, <1>4, <1>5, <1>6, <1>7, <1>8, <1>9 DEF Next, Step

\* A step of r that leaves the lock alone is invisible, or the end of its work.
LEMMA StopOrStutter ==
    ASSUME TypeInv, NEW r \in Runs, Step(r) \/ Crash(r),
           UNCHANGED <<lock, Takers>>, Busy(r)' => Busy(r)
    PROVE  Lease!Next \/ UNCHANGED Lease!vars
<1> DEFINE working == {s \in Runs : Busy(s)}
<1>1. \A s \in Runs \ {r} : Busy(s)' <=> Busy(s)
  BY EntersByLock DEF Busy, InCritical
<1>2. UNCHANGED <<IF lock.locked THEN lock.owner ELSE NoRun, lock.expired, Takers>>
  OBVIOUS
<1>3. CASE Busy(r)' <=> Busy(r)
  <2>1. working' = working
    BY <1>1, <1>3
  <2>2. QED
    BY <1>2, <2>1 DEF Lease!vars
<1>4. CASE Busy(r) /\ ~Busy(r)'
  <2>1. r \in working /\ working' = working \ {r}
    BY <1>1, <1>4
  <2>2. Lease!Stop(r)
    BY <1>2, <2>1 DEF Lease!Stop
  <2>3. QED
    BY <2>2 DEF Lease!Next
<1>5. QED
  BY <1>3, <1>4

LEMMA LeaseStep == TypeInv /\ LockInv /\ [Next]_vars => [Lease!Next]_(Lease!vars)
<1> SUFFICES ASSUME TypeInv, LockInv, [Next]_vars
             PROVE  Lease!Next \/ UNCHANGED Lease!vars
  OBVIOUS
<1> DEFINE working == {s \in Runs : Busy(s)}
<1>1. ASSUME UNCHANGED <<lock, pc, todo, Takers>> PROVE UNCHANGED Lease!vars
  BY <1>1 DEF Lease!vars, Busy, InCritical
<1>2. ASSUME NEW r \in Runs, ReplaceLock(r), lock.rv = current[r], lock' = Taken(r)
      PROVE  Lease!Next
  <2>1. LockExists => MayTake(r)
    BY <1>2 DEF LockInv, ReplaceLock
  <2>2. /\ lock'.locked /\ lock'.owner = r /\ lock'.expired = FALSE
        /\ pc[r] = "replaceLock" /\ todo' = todo
        /\ \/ pc' = [pc EXCEPT ![r] = "confirmLock"]
           \/ pc' = [pc EXCEPT ![r] = "blocked"]
    BY <1>2 DEF ReplaceLock, Taken, Goto, locals, TypeInv, TypeOK
  <2>3. r \notin working /\ (working' = working \cup {r} \/ working' = working)
    BY <2>2 DEF Busy, InCritical, TypeInv, TypeOK
  <2>4. Takers' = Takers
    BY <2>2, TakersGrow DEF ReadLock, TypeInv, TypeOK
  <2>5. (lock.locked /\ ~lock.expired /\ LockExists) => r \in Takers
    BY <2>1 DEF MayTake
  <2>6. lock.expired \in BOOLEAN /\ lock.locked \in BOOLEAN
    BY DEF TypeInv, TypeOK
  <2>7. Lease!Acquire(r)
    BY <2>2, <2>3, <2>4, <2>5, <2>6, LifecycleAssumption DEF Lease!Acquire
  <2>8. QED
    BY <2>7 DEF Lease!Next
<1>3. ASSUME NEW r \in Runs, ReplaceRelease(r), lock.rv = current[r], lock' = Freed
      PROVE  Lease!Next
  <2>1. Holds(r)
    BY <1>3 DEF LockInv, ReplaceRelease
  <2>2. ~lock'.locked /\ lock'.expired = FALSE /\ pc[r] = "replaceRelease"
    BY <1>3 DEF ReplaceRelease, Freed
  <2>3. ~Busy(r) /\ ~Busy(r)' /\ \A s \in Runs \ {r} : Busy(s)' <=> Busy(s)
    BY <1>3, <2>2, EntersByLock DEF Busy, InCritical, Step, ReplaceLock
  <2>4. r \notin working /\ working' = working
    BY <2>3
  <2>5. Takers' = Takers
    BY <2>2, <1>3, TakersGrow DEF ReadLock, ReplaceRelease, Leave, LeaveAnyway, Goto, TypeInv, TypeOK
  <2>6. Lease!Release(r)
    BY <2>1, <2>2, <2>4, <2>5 DEF Lease!Release, Holds
  <2>7. QED
    BY <2>6 DEF Lease!Next
<1>4. CASE Expire
  <2>1. lock.locked /\ lock.owner # NoRun
    BY <1>4, LifecycleAssumption DEF Expire, LockInv
  <2>2. /\ lock'.locked = lock.locked /\ lock'.owner = lock.owner
        /\ lock'.expired = TRUE /\ UNCHANGED <<pc, todo>>
    BY <1>4 DEF Expire, locals, TypeInv, TypeOK
  <2>3. Takers' = Takers
    BY <2>2, TakersGrow DEF ReadLock, TypeInv, TypeOK
  <2>4. working' = working
    BY <2>2 DEF Busy, InCritical
  <2>5. Lease!Expire
    BY <2>1, <2>2, <2>3, <2>4 DEF Lease!Expire
  <2>6. QED
    BY <2>5 DEF Lease!Next
<1>5. ASSUME NEW r \in Runs, Step(r) \/ Crash(r),
             ~(ReplaceLock(r) /\ lock.rv = current[r] /\ lock' = Taken(r)),
             ~(ReplaceRelease(r) /\ lock.rv = current[r] /\ lock' = Freed)
      PROVE  Lease!Next \/ UNCHANGED Lease!vars
  <2>1. lock' = lock
    BY <1>5, EntersByLock DEF ReplaceLock, ReplaceRelease
  <2>2. Busy(r)' => Busy(r)
    <3>1. ReplaceLock(r) /\ lock' = Taken(r) => lock.rv = current[r]
      BY <2>1 DEF ReplaceLock, Taken, TypeInv, TypeOK
    <3> QED
      BY <1>5, <3>1, EntersByLock
  <2>3. CASE Takers' = Takers
    BY <1>5, <2>1, <2>2, <2>3, StopOrStutter
  <2>4. CASE Takers' # Takers
    <3>1. PICK t \in Runs : /\ ReadLock(t) /\ Takers' = Takers \cup {t}
                            /\ pc' = [pc EXCEPT ![t] = "rereadLock"]
      BY <2>4, TakersGrow
    <3>2. pc[t] = "readLock" /\ todo' = todo
      BY <3>1 DEF ReadLock
    <3>3. working' = working
      BY <3>1, <3>2 DEF Busy, InCritical, TypeInv, TypeOK
    <3>4. CASE LockExists
      <4>1. Lease!Blind(t)
        BY <2>1, <3>1, <3>3, <3>4 DEF Lease!Blind
      <4> QED
        BY <4>1 DEF Lease!Next
    <3>5. CASE ~LockExists
      BY <2>1, <3>3, <3>5 DEF Lease!vars
    <3> QED
      BY <3>4, <3>5
  <2> QED
    BY <2>3, <2>4
<1>6. ASSUME NEW s \in Scenarios, Settle(s) PROVE UNCHANGED <<lock, pc, todo, Takers>>
  BY <1>6 DEF Settle, locals, Takers, Forceful, Blind
<1>7. CASE UNCHANGED vars
  BY <1>1, <1>7 DEF vars, locals, Takers, Forceful, Blind
<1>8. QED
  BY <1>1, <1>2, <1>3, <1>4, <1>5, <1>6, <1>7 DEF Next, Step

\* The ConfigMap lock, written by read, compare and replace, implements the
\* lease: only an owner that is done releases it, and it changes hands only when
\* stale or by a run that is allowed to take it.
THEOREM LeaseImplemented == Spec => LeaseSpec
<1>1. Init => Lease!Init
  <2> SUFFICES ASSUME Init PROVE Lease!Init
    OBVIOUS
  <2>1. \A r \in Runs : pc[r] \in {"readState", "readLock"}
    BY DEF Init, Entry
  <2>2. {r \in Runs : Busy(r)} = {}
    BY <2>1 DEF Busy, InCritical
  <2>3. Takers \subseteq Runs
    BY DEF Takers, Forceful, Blind
  <2>4. ~lock.locked /\ ~lock.expired /\ lock.expired = FALSE
    BY DEF Init
  <2>5. QED
    BY <2>2, <2>3, <2>4 DEF Lease!Init
<1>2. QED
  BY <1>1, LeaseStep, LockInvariant, PTL DEF Spec, LeaseSpec, Lease!Spec

-----------------------------------------------------------------------------
(* Exclusion.                                                                *)

ExclusionInv ==
    \A r \in Runs : Busy(r) => (Holds(r) /\ ~lock.expired) \/ MayBeOverrun(r)

LEMMA ExclusionStep ==
    TypeInv /\ LockInv /\ ExclusionInv /\ [Next]_vars => ExclusionInv'
<1> SUFFICES ASSUME TypeInv, LockInv, ExclusionInv, [Next]_vars
             PROVE  ExclusionInv'
  OBVIOUS
<1>1. CASE ~LockExists
  BY <1>1 DEF ExclusionInv, MayBeOverrun
<1>2. CASE LockExists
  <2> SUFFICES ASSUME NEW r \in Runs, Busy(r)', ~MayBeOverrun(r)'
               PROVE  (Holds(r) /\ ~lock.expired)'
    BY DEF ExclusionInv
  <2>1. ~MayBeOverrun(r)
    <3>1. \A s \in Takers \ {r} : s \in Takers' \ {r} /\ s \in Runs
      BY TakersGrow DEF Takers, Forceful, Blind
    <3> QED
      BY <3>1, ContendsOnce, TakersGrow DEF MayBeOverrun, PreLock
  <2>2. Busy(r) => Holds(r) /\ ~lock.expired
    BY <2>1 DEF ExclusionInv
  <2>3. ASSUME Step(r) \/ Crash(r) PROVE (Holds(r) /\ ~lock.expired)'
    <3>1. CASE ~Busy(r)
      BY <2>3, <3>1, EntersByLock DEF Taken, Holds
    <3>2. CASE Busy(r) /\ ~ReplaceLock(r) /\ ~ReplaceRelease(r)
      BY <2>2, <2>3, <3>2, EntersByLock DEF Holds
    <3>3. CASE Busy(r) /\ (ReplaceLock(r) \/ ReplaceRelease(r))
      BY <3>3 DEF Busy, InCritical, ReplaceLock, ReplaceRelease
    <3>4. QED
      BY <3>1, <3>2, <3>3
  <2>4. ASSUME NEW s \in Runs \ {r}, Step(s) \/ Crash(s)
        PROVE  (Holds(r) /\ ~lock.expired)'
    <3>1. Busy(r) /\ Holds(r) /\ ~lock.expired
      BY <2>2, <2>4, EntersByLock DEF Busy, InCritical
    <3>2. CASE ReplaceLock(s)
      <4>1. lock.rv = current[s] => s \in Takers
        BY <1>2, <3>1, <3>2 DEF LockInv, MayTake, ReplaceLock, Holds
      <4>2. lock.rv # current[s]
        <5> SUFFICES ASSUME lock.rv = current[s] PROVE FALSE
          OBVIOUS
        <5>1. pc'[s] \notin PreLock
          BY <3>2 DEF ReplaceLock, Goto, TypeInv, TypeOK, PreLock
        <5>2. s \in Takers' \ {r}
          BY <2>4, <4>1, TakersGrow
        <5> QED
          BY <5>1, <5>2 DEF MayBeOverrun, PreLock
      <4>3. QED
        BY <3>1, <3>2, <4>2 DEF ReplaceLock, Holds
    <3>3. CASE ReplaceRelease(s)
      <4>1. lock.rv # current[s]
        BY <2>4, <3>1, <3>3 DEF LockInv, ReplaceRelease, Holds
      <4>2. QED
        BY <3>1, <3>3, <4>1 DEF ReplaceRelease, Holds
    <3>4. CASE ~ReplaceLock(s) /\ ~ReplaceRelease(s)
      BY <2>4, <3>1, <3>4, EntersByLock DEF Holds
    <3>5. QED
      BY <3>2, <3>3, <3>4
  <2>5. CASE Expire
    <3>1. Busy(r)
      BY <2>5 DEF Expire, Busy, InCritical, locals
    <3>2. pc[r] \notin Dead
      BY <3>1 DEF Busy, InCritical, Dead, Returned
    <3>3. "late" \in mishaps'[r]
      BY <2>2, <2>5, <3>1, <3>2 DEF Expire, Holds, Suffers, TypeInv, TypeOK
    <3>4. QED
      BY <3>3 DEF MayBeOverrun
  <2>6. CASE UNCHANGED vars \/ \E s \in Scenarios : Settle(s)
    BY <2>2, <2>6 DEF vars, Settle, locals, Busy, InCritical, Holds
  <2>7. QED
    BY <2>3, <2>4, <2>5, <2>6 DEF Next
<1>3. QED
  BY <1>1, <1>2

\* Whatever crashes and whichever calls fail, a run at work holds the unexpired
\* lock unless a stacking run, a reset or a run that could not read the lock
\* overran it, or the run itself outlived its TTL.
THEOREM Exclusion == Spec => []HoldsLockWhileCritical
<1>1. Init => ExclusionInv
  BY DEF Init, ExclusionInv, Busy, InCritical, Entry
<1>2. ExclusionInv => HoldsLockWhileCritical
  BY DEF ExclusionInv, Busy, HoldsLockWhileCritical
<1>3. QED
  BY <1>1, <1>2, ExclusionStep, LockInvariant, PTL DEF Spec

-----------------------------------------------------------------------------
(* Release.                                                                  *)

\* What a holder knows: until it releases, its token and its version match.
\* Only a holder that died, whose start threw, or that lost a call about the
\* lock may be stuck with it.
ReleaseInv ==
    \A r \in Runs : Holds(r) =>
        \/ pc[r] \in {"confirmLock", "threw", "crashed"}
        \/ "lost" \in mishaps[r]
        \/ /\ InCritical(r) \/ pc[r] \in {"readRelease", "rereadRelease",
                                          "replaceRelease"}
           /\ expected[r] = lock.rv
           /\ pc[r] = "replaceRelease" => current[r] = lock.rv

\* A run's own steps keep what it knows, and the others' cannot change it
\* without taking the lock away.
LEMMA ReleaseStep ==
    ASSUME TypeInv, LockInv, ReleaseInv, [Next]_vars
    PROVE  ReleaseInv'
<1> USE DEF TypeInv, TypeOK, Goto, Holds, ReleaseInv, InCritical
<1>1. ASSUME NEW r \in Runs, ReadState(r) \/ ReadLock(r) \/ RereadLock(r)
      PROVE  ReleaseInv'
  BY <1>1 DEF ReadState, ReadLock, RereadLock, Suffers, locals
<1>11. ASSUME NEW r \in Runs, ReplaceLock(r) PROVE ReleaseInv'
  BY <1>11 DEF ReplaceLock, Taken, Suffers, LockInv, locals
<1>12. ASSUME NEW r \in Runs, ConfirmLock(r) PROVE ReleaseInv'
  BY <1>12 DEF ConfirmLock, Work, Suffers
<1>2. ASSUME NEW r \in Runs, ReadRelease(r) \/ RereadRelease(r) PROVE ReleaseInv'
  BY <1>2, AfterReleaseType
     DEF ReadRelease, RereadRelease, Leave, LeaveAnyway, Suffers, Todo, LockInv, locals
<1>21. ASSUME NEW r \in Runs, ReplaceRelease(r) PROVE ReleaseInv'
  BY <1>21, AfterReleaseType, LifecycleAssumption
     DEF ReplaceRelease, Leave, LeaveAnyway, Freed, Suffers, Todo, LockInv, locals
<1>3. ASSUME NEW r \in Runs, RereadState(r) PROVE ReleaseInv'
  BY <1>3 DEF RereadState, Throw
<1>4. ASSUME NEW r \in Runs, ReplaceState(r) PROVE ReleaseInv'
  BY <1>4, AfterStateWriteType DEF ReplaceState, Throw, Todo, AfterStateWrite
<1>5. ASSUME NEW r \in Runs, VerifyBaseline(r) \/ Apply(r) \/ Await(r)
      PROVE  ReleaseInv'
  BY <1>5 DEF VerifyBaseline, Apply, Await, RecordPhase, ReleasedFirst
<1>6. ASSUME NEW r \in Runs, Cleanup(r) PROVE ReleaseInv'
  <2>1. /\ pc[r] = "cleanup"
        /\ UNCHANGED <<expected, current, lock, mishaps>>
        /\ \/ pc' = [pc EXCEPT ![r] = "reapply"] /\ todo' = todo
           \/ /\ pc' = [pc EXCEPT ![r] = "rereadState"]
              /\ todo' = [todo EXCEPT ![r] = "failed"]
    BY <1>6 DEF Cleanup, RecordPhase
  <2>2. QED
    BY <2>1 DEF ReleasedFirst
<1>7. ASSUME NEW r \in Runs, Reapply(r) PROVE ReleaseInv'
  <2>1. /\ pc[r] = "reapply"
        /\ UNCHANGED <<expected, current, lock, mishaps>>
        /\ \/ pc' = [pc EXCEPT ![r] = "verifyReset"] /\ todo' = todo
           \/ /\ pc' = [pc EXCEPT ![r] = "rereadState"]
              /\ todo' = [todo EXCEPT ![r] = "failed"]
    BY <1>7 DEF Reapply, RecordPhase
  <2>2. QED
    BY <2>1 DEF ReleasedFirst
<1>8. ASSUME NEW r \in Runs, VerifyReset(r) \/ Crash(r) PROVE ReleaseInv'
  BY <1>8 DEF VerifyReset, Crash, RecordPhase, ReleasedFirst, locals
<1>9. CASE Expire \/ UNCHANGED vars \/ \E s \in Scenarios : Settle(s)
  BY <1>9 DEF Expire, vars, Settle, Suffers, locals
<1>10. QED
  BY <1>1, <1>11, <1>12, <1>2, <1>21, <1>3, <1>4, <1>5, <1>6, <1>7, <1>8, <1>9
     DEF Next, Step

\* Whatever fails, a run that returned with the lock lost a call of its own about
\* it: the control flow of start and reset gives it back on every path.
THEOREM Released == Spec => []ReturnedMeansReleased
<1>1. Init => ReleaseInv
  BY DEF Init, ReleaseInv, Holds
<1>2. ReleaseInv => ReturnedMeansReleased
  BY DEF ReleaseInv, ReturnedMeansReleased, Returned, InCritical
<1>3. QED
  BY <1>1, <1>2, ReleaseStep, LockInvariant, PTL DEF Spec

-----------------------------------------------------------------------------
(* The record, while all runs are starts.                                    *)

OnlyStarts == \A r \in Runs : cmd[r].op = "start"

\* Some run has failed and is to record it, or has recorded it.
SomeFailed == \E r \in Runs : todo[r] \in ReleasedFirst

\* Before a start verified the baseline it has nothing to record, a manifest is
\* applied only under a record that says so, and a record that no longer blocks
\* the next start tells of a failure.
RecordInv ==
    OnlyStarts =>
        /\ \A r \in Runs :
              /\ pc[r] \notin {"cleanup", "reapply", "verifyReset"}
              /\ pc[r] \in {"readState", "readLock", "rereadLock", "replaceLock",
                            "confirmLock", "verifyBaseline"} => todo[r] = "none"
              /\ pc[r] \in {"apply", "await"} => todo[r] = "starting" /\ state.phase # "none"
              /\ pc[r] \in {"rereadState", "replaceState"} =>
                    todo[r] \in {"starting", "active"} \cup ReleasedFirst
        /\ state.phase # "none" => Unresolved(state.phase) \/ SomeFailed
        /\ applied # {} => state.phase # "none"

\* A step of r that leaves the record and the manifests alone.
LEMMA UnrecordedStep ==
    ASSUME TypeInv, RecordInv, OnlyStarts, NEW r \in Runs,
           \/ ReadState(r) \/ ReadLock(r) \/ RereadLock(r) \/ ReplaceLock(r) \/ ConfirmLock(r)
           \/ ReadRelease(r) \/ RereadRelease(r) \/ ReplaceRelease(r)
           \/ RereadState(r) \/ VerifyBaseline(r) \/ Await(r) \/ Crash(r)
    PROVE  RecordInv'
<1> USE DEF TypeInv, TypeOK, RecordInv, OnlyStarts, SomeFailed, ReleasedFirst, Goto
<1>1. cmd' = cmd /\ state' = state /\ applied' = applied
  BY DEF ReadState, ReadLock, RereadLock, ReplaceLock, ConfirmLock, ReadRelease, RereadRelease,
         ReplaceRelease, RereadState, VerifyBaseline, Await, Crash, cluster
<1>2. CASE ReadState(r) \/ ReadLock(r) \/ RereadLock(r) \/ ReplaceLock(r) \/ Crash(r)
  BY <1>1, <1>2 DEF ReadState, ReadLock, RereadLock, ReplaceLock, Crash, locals
<1>3. CASE ConfirmLock(r)
  BY <1>1, <1>3 DEF ConfirmLock, Work
<1>4. CASE ReadRelease(r) \/ RereadRelease(r) \/ ReplaceRelease(r)
  BY <1>1, <1>4, AfterReleaseType DEF ReadRelease, RereadRelease, ReplaceRelease, Leave, LeaveAnyway, Todo, locals
<1>5. CASE RereadState(r)
  BY <1>1, <1>5 DEF RereadState, Throw
<1>6. CASE VerifyBaseline(r)
  BY <1>1, <1>6 DEF VerifyBaseline, RecordPhase
<1>7. CASE Await(r)
  BY <1>1, <1>7 DEF Await, RecordPhase
<1>8. QED
  BY <1>2, <1>3, <1>4, <1>5, <1>6, <1>7

LEMMA RecordStep == TypeInv /\ RecordInv /\ [Next]_vars => RecordInv'
<1> SUFFICES ASSUME TypeInv, RecordInv, [Next]_vars, OnlyStarts' PROVE RecordInv'
  BY DEF RecordInv
<1>1. cmd' = cmd
  BY DEF Next, Step, vars, ReadState, ReadLock, RereadLock, ReplaceLock, ConfirmLock, ReadRelease,
         RereadRelease, ReplaceRelease, RereadState, ReplaceState, VerifyBaseline, Apply, Await,
         Cleanup, Reapply, VerifyReset, Settle, Crash, Expire
<1>2. OnlyStarts
  BY <1>1 DEF OnlyStarts
<1>3. ASSUME NEW r \in Runs, ReplaceState(r) PROVE RecordInv'
  <2> USE DEF TypeInv, TypeOK, RecordInv, OnlyStarts, SomeFailed, ReleasedFirst, Goto
  <2>1. /\ todo' = todo
        /\ todo[r] \in {"starting", "active"} \cup ReleasedFirst
        /\ applied' = applied
        /\ \E step \in {"apply", "failed", "readRelease", "threw"} :
              /\ pc' = [pc EXCEPT ![r] = step]
              /\ step = "apply" => todo[r] = "starting" /\ state'.phase = todo[r]
    BY <1>2, <1>3 DEF ReplaceState, Throw, AfterStateWrite, cluster
  <2>2. state' = state \/ state'.phase = todo[r]
    BY <1>3 DEF ReplaceState
  <2>3. state'.phase # "none" => Unresolved(state'.phase) \/ SomeFailed'
    BY <1>2, <2>1, <2>2 DEF Unresolved, UnresolvedPhases, HasEndTime
  <2>4. state.phase # "none" => state'.phase # "none"
    BY <2>1, <2>2
  <2>5. QED
    BY <1>1, <1>2, <2>1, <2>3, <2>4
<1>4. ASSUME NEW r \in Runs, Apply(r) PROVE RecordInv'
  <2> USE DEF TypeInv, TypeOK, RecordInv, OnlyStarts, SomeFailed, ReleasedFirst, Goto
  <2>1. state' = state /\ state.phase # "none"
    BY <1>2, <1>4 DEF Apply
  <2>2. SomeFailed => SomeFailed'
    BY <1>2, <1>4 DEF Apply
  <2>3. \A s \in Runs :
          /\ pc'[s] \notin {"cleanup", "reapply", "verifyReset"}
          /\ pc'[s] \in {"readState", "readLock", "rereadLock", "replaceLock",
                         "confirmLock", "verifyBaseline"} => todo'[s] = "none"
          /\ pc'[s] \in {"apply", "await"} => todo'[s] = "starting"
          /\ pc'[s] \in {"rereadState", "replaceState"} =>
                todo'[s] \in {"starting", "active"} \cup ReleasedFirst
    BY <1>2, <1>4 DEF Apply
  <2>4. QED
    BY <1>2, <2>1, <2>2, <2>3
<1>5. ASSUME NEW r \in Runs, Cleanup(r) \/ Reapply(r) \/ VerifyReset(r) PROVE FALSE
  BY <1>2, <1>5 DEF RecordInv, Cleanup, Reapply, VerifyReset
<1>6. CASE (\E s \in Scenarios : Settle(s)) \/ Expire \/ UNCHANGED vars
  <2>1. UNCHANGED <<cmd, pc, todo, state, applied>>
    BY <1>6 DEF Settle, Expire, vars, locals, cluster
  <2>2. QED
    BY <1>2, <2>1 DEF RecordInv, SomeFailed, OnlyStarts
<1>7. QED
  BY <1>2, <1>3, <1>4, <1>5, <1>6, UnrecordedStep DEF Next, Step

\* The record of starts is write-ahead: whatever crashes, throws or fails to
\* read, a manifest in the cluster has a record that blocks the next plain
\* start, until a run reported a failed one.
THEOREM Recorded == Spec => []AppliedIsRecorded
<1>1. Init => RecordInv
  BY LifecycleAssumption DEF Init, RecordInv, OnlyStarts, Entry
<1>2. RecordInv => AppliedIsRecorded
  BY DEF RecordInv, OnlyStarts, SomeFailed, AppliedIsRecorded
<1>3. QED
  BY <1>1, <1>2, RecordStep, TypeInvariant, PTL DEF Spec

\* The guard of startDemoScenario is right when it reads: among starts, none
\* without -AllowStacking gets past it while another scenario is in the cluster
\* and no start has failed.  NoUnrequestedStacking is lost only afterwards, in
\* the calls between that read and the manifest.
GuardIsRight ==
    \A r \in Runs :
        pc[r] = "readState" /\ pc'[r] = "readLock" /\ ~cmd[r].stacking
            => applied = {} \/ SomeFailed

THEOREM AdmittedToEmptyCluster ==
    ASSUME ~ReadMayFail
    PROVE  Spec => [][OnlyStarts => GuardIsRight]_vars
<1>1. ASSUME TypeInv, RecordInv, [Next]_vars PROVE [OnlyStarts => GuardIsRight]_vars
  <2> SUFFICES ASSUME Next, OnlyStarts, NEW r \in Runs,
                      pc[r] = "readState", pc'[r] = "readLock", ~cmd[r].stacking
               PROVE  applied = {} \/ SomeFailed
    BY <1>1 DEF GuardIsRight
  <2>1. ReadState(r)
    <3> USE DEF TypeInv, TypeOK, Goto
    <3>1. ASSUME NEW s \in Runs,
                 \/ ReadState(s) \/ ReadLock(s) \/ RereadLock(s) \/ ReplaceLock(s)
                 \/ ConfirmLock(s) \/ Crash(s)
          PROVE  ReadState(r)
      BY <1>1, <3>1 DEF ReadState, ReadLock, RereadLock, ReplaceLock, ConfirmLock, Crash
    <3>2. ASSUME NEW s \in Runs, ReadRelease(s) \/ RereadRelease(s) \/ ReplaceRelease(s)
          PROVE  FALSE
      BY <1>1, <3>2 DEF ReadRelease, RereadRelease, ReplaceRelease, Leave, LeaveAnyway, AfterRelease
    <3>3. ASSUME NEW s \in Runs, RereadState(s) \/ ReplaceState(s) PROVE FALSE
      BY <1>1, <3>3 DEF RereadState, ReplaceState, Throw
    <3>4. ASSUME NEW s \in Runs, VerifyBaseline(s) \/ Apply(s) \/ Await(s) PROVE FALSE
      BY <1>1, <3>4 DEF VerifyBaseline, Apply, Await, RecordPhase
    <3>5. ASSUME NEW s \in Runs, Cleanup(s) \/ Reapply(s) \/ VerifyReset(s) PROVE FALSE
      BY <1>1, <3>5 DEF Cleanup, Reapply, VerifyReset, RecordPhase
    <3>6. ASSUME (\E s \in Scenarios : Settle(s)) \/ Expire PROVE FALSE
      BY <3>6 DEF Settle, Expire
    <3> QED
      BY <3>1, <3>2, <3>3, <3>4, <3>5, <3>6 DEF Next, Step
  <2>2. ~Unresolved(state.phase)
    BY <1>1, <2>1 DEF ReadState, Goto, TypeInv, TypeOK
  <2> QED
    BY <1>1, <2>2 DEF RecordInv
<1>2. Init => RecordInv
  BY LifecycleAssumption DEF Init, RecordInv, OnlyStarts, Entry
<1> QED
  BY <1>1, <1>2, RecordStep, TypeInvariant, PTL DEF Spec
============================================================================
