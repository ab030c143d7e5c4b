-------------------------- MODULE EvaluationProofs --------------------------
(***************************************************************************)
(* Proofs about the two evaluations that a presenter relies on: the         *)
(* readiness gate, for any number of changes and failed reads while it is   *)
(* under way, and the judgement of the latency scenario, for phases of any  *)
(* length that begin anywhere in the sequence of requests.                  *)
(***************************************************************************)
EXTENDS Readiness, OrderLatency, TLAPS

-----------------------------------------------------------------------------
(* The readiness gate.  The reads are not simultaneous, so the invariant     *)
(* says of each check what held when it was made, and at which point of the  *)
(* evaluation each of them has been made.                                    *)

BaseFacts == Facts \ {"agent"}

\* The history is about the world, as it was from the start until now.
HistoryOfWorld == world \subseteq held /\ Facts \ world \subseteq lacked

\* A base check that was made passed for a fact that held, or failed for one
\* that did not or could not be read; no other check is made before the verdict.
ChecksAreTrue ==
    verdict = "none" =>
        \A c \in checks : \E f \in BaseFacts :
            \/ c = Passed(f) /\ f \in held
            \/ c = Failed(f) /\ f \in lacked \cup unreadable

Looked(f) == Passed(f) \in checks \/ Failed(f) \in checks

\* The evaluation goes past no base check without making it.
ChecksAreMade ==
    /\ reading \in {"group", "cluster", "baseline", "services", "collector", "agent", "judge"}
           => Looked("account")
    /\ reading \in {"cluster", "baseline", "services", "collector", "agent", "judge"} => Looked("group")
    /\ reading \in {"baseline", "services", "collector", "agent", "judge"} => Looked("cluster")
    /\ reading \in {"services", "collector", "agent", "judge"} => Looked("baseline")
    /\ reading \in {"collector", "agent", "judge"} => Looked("services")
    /\ reading \in {"agent", "judge"} => Looked("collector")

\* A read that failed has left its trace: a failed check, or an absent agent.
UnreadIsFailed ==
    /\ \A f \in unreadable \cap BaseFacts : verdict # "blocked" => Failed(f) \in checks
    /\ "agent" \in unreadable => native = "missing"

NativeIsTrue ==
    /\ reading \in {"scope", "scopeGroup", "evidence"} => native = "unknown"
    /\ native = "ready" => "agent" \in held
    /\ native = "missing" => "agent" \in lacked \cup unreadable
    /\ reading = "judge" /\ requireNativeSreAgent => native # "unknown"

ReadinessInv ==
    /\ ReadinessTypeOK
    /\ verdict = "none" <=> reading # "answered"
    /\ HistoryOfWorld
    /\ ChecksAreTrue
    /\ ChecksAreMade
    /\ UnreadIsFailed
    /\ NativeIsTrue
    /\ ReadyIsObserved
    /\ BlockedIsExplained

-----------------------------------------------------------------------------
\* What a read may be relied on for: a fact that it found held, and it did not
\* fail; one that it did not find did not hold, or could not be read.
LEMMA ReadIsTrue ==
    ASSUME HistoryOfWorld, NEW fact \in Facts, NEW holds \in BOOLEAN, ReadsAs(fact, holds)
    PROVE  /\ unreadable' = unreadable \/ unreadable' = unreadable \cup {fact}
           /\ holds => fact \in held /\ unreadable' = unreadable
           /\ ~holds => fact \in lacked \cup unreadable'
<1>1. CASE holds = (fact \in world) /\ UNCHANGED unreadable
  BY <1>1 DEF HistoryOfWorld
<1>2. CASE holds = FALSE /\ unreadable' = unreadable \cup {fact}
  BY <1>2
<1> QED
  BY <1>1, <1>2 DEF ReadsAs

\* The other components are not told from one another by what they check.
LEMMA ChecksDiffer ==
    ASSUME NEW f, NEW g
    PROVE  /\ Passed(f) # Failed(g)
           /\ Failed(f).blocking /\ Failed(f).status # "pass"
           /\ Passed(f).status = "pass"
BY DEF Passed, Failed

LEMMA ReadinessStarts == ReadinessInit => ReadinessInv
<1> SUFFICES ASSUME ReadinessInit PROVE ReadinessInv
  OBVIOUS
<1>1. /\ world \subseteq Facts /\ query \in Queries
      /\ reading \in {"scope", "validate"} /\ native = "unknown" /\ checks = {}
      /\ verdict = "none" /\ held = world /\ lacked = Facts \ world
      /\ unreadable = {} /\ flips = 0
  BY DEF ReadinessInit
<1>2. ReadinessTypeOK
  BY <1>1, ReadinessAssumption DEF ReadinessTypeOK
<1> QED
  BY <1>1, <1>2
     DEF ReadinessInv, HistoryOfWorld, ChecksAreTrue, ChecksAreMade, UnreadIsFailed, NativeIsTrue,
         ReadyIsObserved, BlockedIsExplained

-----------------------------------------------------------------------------
(* The server's own reads                                                    *)

\* A read of the scope that does not find its fact ends the evaluation, and is
\* the explanation of its verdict.
LEMMA ScopeKeeps ==
    ASSUME ReadinessInv, NEW fact \in {"account", "group"}, NEW next \in {"scopeGroup", "evidence"},
           reading \in {"scope", "scopeGroup"},
           UNCHANGED <<world, query, native, checks, held, lacked, flips>>,
           \/ ~query.wellFormed /\ Answers("blocked") /\ UNCHANGED unreadable
           \/ \E holds \in BOOLEAN :
                 /\ ReadsAs(fact, holds)
                 /\ IF holds THEN reading' = next /\ UNCHANGED verdict
                             ELSE Answers("blocked")
    PROVE  ReadinessInv'
<1> USE DEF ReadinessInv
<1>0. fact \in Facts /\ fact \in BaseFacts
  BY DEF Facts, BaseFacts
<1>1. verdict = "none"
  OBVIOUS
<1>2. CASE ~query.wellFormed /\ Answers("blocked") /\ UNCHANGED unreadable
  BY <1>1, <1>2
     DEF Answers, ReadinessTypeOK, HistoryOfWorld, ChecksAreTrue, ChecksAreMade, Looked, UnreadIsFailed,
         NativeIsTrue, ReadyIsObserved, BlockedIsExplained, requireNativeSreAgent
<1>3. ASSUME NEW holds \in BOOLEAN, ReadsAs(fact, holds), holds,
             reading' = next, UNCHANGED verdict
      PROVE  ReadinessInv'
  <2>1. unreadable' = unreadable
    BY <1>0, <1>3, ReadIsTrue
  <2> QED
    BY <1>1, <1>3, <2>1
       DEF ReadinessTypeOK, HistoryOfWorld, ChecksAreTrue, ChecksAreMade, Looked, UnreadIsFailed,
           NativeIsTrue, ReadyIsObserved, BlockedIsExplained, requireNativeSreAgent
<1>4. ASSUME NEW holds \in BOOLEAN, ReadsAs(fact, holds), ~holds, Answers("blocked")
      PROVE  ReadinessInv'
  <2>1. /\ unreadable' = unreadable \/ unreadable' = unreadable \cup {fact}
        /\ fact \in lacked \cup unreadable'
    BY <1>0, <1>4, ReadIsTrue
  <2>2. fact \in Required /\ UNCHANGED Required
    BY <1>0 DEF Required, BaseFacts
  <2>3. verdict' = "blocked" /\ reading' = "answered"
    BY <1>4 DEF Answers
  <2>4. BlockedIsExplained' /\ ReadyIsObserved'
    BY <2>1, <2>2, <2>3 DEF BlockedIsExplained, ReadyIsObserved
  <2>5. ReadinessTypeOK'
    BY <1>0, <2>1, <2>3 DEF ReadinessTypeOK
  <2>6. UnreadIsFailed' /\ NativeIsTrue'
    BY <1>0, <2>1, <2>3 DEF UnreadIsFailed, NativeIsTrue, BaseFacts
  <2> QED
    BY <2>3, <2>4, <2>5, <2>6 DEF HistoryOfWorld, ChecksAreTrue, ChecksAreMade
<1> QED
  BY <1>2, <1>3, <1>4

\* Reading the agent says something about the agent only.
LEMMA AgentReadKeeps ==
    ASSUME ReadinessInv, reading \in {"evidence", "agent"}, native = "unknown",
           NEW holds \in BOOLEAN, ReadsAs("agent", holds),
           native' = IF holds THEN "ready" ELSE "missing",
           reading' = IF reading = "evidence" THEN "validate" ELSE "judge",
           UNCHANGED <<world, query, checks, verdict, held, lacked, flips>>
    PROVE  ReadinessInv'
<1> USE DEF ReadinessInv
<1>1. verdict = "none" /\ "agent" \in Facts /\ "agent" \notin BaseFacts
  BY DEF Facts, BaseFacts
<1>2. /\ unreadable' = unreadable \/ unreadable' = unreadable \cup {"agent"}
      /\ holds => "agent" \in held /\ unreadable' = unreadable
      /\ ~holds => "agent" \in lacked \cup unreadable'
  BY <1>1, ReadIsTrue
<1>3. ReadinessTypeOK'
  BY <1>1, <1>2 DEF ReadinessTypeOK
<1>4. ChecksAreTrue' /\ HistoryOfWorld'
  BY <1>2 DEF ChecksAreTrue, HistoryOfWorld
<1>5. ChecksAreMade'
  BY DEF ChecksAreMade, Looked
<1>6. UnreadIsFailed'
  BY <1>1, <1>2 DEF UnreadIsFailed
<1>7. NativeIsTrue'
  BY <1>2 DEF NativeIsTrue
<1> QED
  BY <1>1, <1>3, <1>4, <1>5, <1>6, <1>7 DEF ReadyIsObserved, BlockedIsExplained

-----------------------------------------------------------------------------
(* The evaluation                                                            *)

LEMMA ValidateKeeps ==
    ASSUME ReadinessInv, Validate
    PROVE  ReadinessInv'
<1> USE DEF ReadinessInv
<1>1. verdict = "none" /\ query \in Queries
  BY DEF Validate, ReadinessTypeOK
<1>2. CASE ~query.wellFormed
  <2>1. checks' = {Failed("request")} /\ verdict' = "blocked" /\ reading' = "answered"
    BY <1>2 DEF Validate, Answers
  <2>2. Failed("request") \in Check
    BY DEF Failed, Check
  <2> QED
    BY <1>2, <2>1, <2>2
       DEF Validate, ReadinessTypeOK, HistoryOfWorld, ChecksAreTrue, ChecksAreMade, UnreadIsFailed,
           NativeIsTrue, ReadyIsObserved, BlockedIsExplained
<1>3. CASE query.wellFormed /\ query.mock # "none"
  <2>1. UNCHANGED checks /\ verdict' \in {"ready", "blocked"} /\ reading' = "answered"
    BY <1>3 DEF Validate, Answers
  <2> QED
    BY <1>1, <1>3, <2>1
       DEF Validate, ReadinessTypeOK, HistoryOfWorld, ChecksAreTrue, ChecksAreMade, UnreadIsFailed,
           NativeIsTrue, ReadyIsObserved, BlockedIsExplained
<1>4. CASE query.wellFormed /\ query.mock = "none"
  <2>1. UNCHANGED <<checks, verdict>> /\ reading' = "account"
    BY <1>4 DEF Validate, Base
  <2> QED
    BY <1>1, <2>1
       DEF Validate, ReadinessTypeOK, Facts, HistoryOfWorld, ChecksAreTrue, ChecksAreMade, UnreadIsFailed,
           NativeIsTrue, ReadyIsObserved, BlockedIsExplained
<1> QED
  BY <1>1, <1>2, <1>3, <1>4 DEF Queries

\* A base check adds one entry, which is true, and the next one comes after it.
LEMMA CheckKeeps ==
    ASSUME ReadinessInv, NEW f \in BaseFacts, reading = f,
           NEW holds \in BOOLEAN, ReadsAs(f, holds),
           checks' = checks \cup {IF holds THEN Passed(f) ELSE Failed(f)},
           \/ f = "account" /\ reading' = "group"
           \/ f = "group" /\ reading' = "cluster"
           \/ f = "cluster" /\ reading' = "baseline"
           \/ f = "baseline" /\ reading' = "services"
           \/ f = "services" /\ reading' = "collector"
           \/ f = "collector" /\ reading' = "agent",
           UNCHANGED <<world, query, native, verdict, held, lacked, flips>>
    PROVE  ReadinessInv'
<1> USE DEF ReadinessInv
<1>1. f \in Facts /\ f # "agent"
  BY DEF BaseFacts
<1>2. verdict = "none"
  BY DEF BaseFacts, Facts
<1>3. /\ unreadable' = unreadable \/ unreadable' = unreadable \cup {f}
      /\ holds => f \in held /\ unreadable' = unreadable
      /\ ~holds => f \in lacked \cup unreadable'
  BY <1>1, ReadIsTrue
<1>4. ReadinessTypeOK'
  <2>1. Passed(f) \in Check /\ Failed(f) \in Check
    BY <1>1 DEF Passed, Failed, Check
  <2>2. checks' \subseteq Check
    BY <2>1 DEF ReadinessTypeOK
  <2> QED
    BY <1>1, <1>3, <2>2 DEF ReadinessTypeOK, Facts
<1>5. ChecksAreTrue'
  <2>1. ASSUME NEW c \in checks
        PROVE  \E g \in BaseFacts : \/ c = Passed(g) /\ g \in held'
                                    \/ c = Failed(g) /\ g \in lacked' \cup unreadable'
    BY <1>2, <1>3, <2>1 DEF ChecksAreTrue
  <2>2. CASE holds
    BY <1>3, <2>1, <2>2 DEF ChecksAreTrue
  <2>3. CASE ~holds
    BY <1>3, <2>1, <2>3 DEF ChecksAreTrue
  <2> QED
    BY <2>2, <2>3
<1>6. ChecksAreMade'
  <2>1. Looked(f)'
    BY DEF Looked
  <2>2. \A g \in BaseFacts : Looked(g) => Looked(g)'
    BY DEF Looked
  <2> QED
    BY <2>1, <2>2 DEF ChecksAreMade, BaseFacts, Facts
<1>7. UnreadIsFailed'
  BY <1>1, <1>2, <1>3 DEF UnreadIsFailed
<1>8. NativeIsTrue'
  BY <1>1, <1>3 DEF NativeIsTrue
<1> QED
  BY <1>1, <1>2, <1>3, <1>4, <1>5, <1>6, <1>7, <1>8
     DEF HistoryOfWorld, ReadyIsObserved, BlockedIsExplained, Facts

LEMMA CheckBaseKeeps ==
    ASSUME ReadinessInv, NEW k \in 1..Len(Base), CheckBase(k)
    PROVE  ReadinessInv'
<1>1. k \in 1..6 /\ Len(Base) = 6
  BY DEF Base
<1>2. /\ Base[1] = "account" /\ Base[2] = "group" /\ Base[3] = "cluster"
      /\ Base[4] = "baseline" /\ Base[5] = "services" /\ Base[6] = "collector"
  BY DEF Base
<1>3. /\ \/ Base[k] = "account" /\ reading' = "group"
         \/ Base[k] = "group" /\ reading' = "cluster"
         \/ Base[k] = "cluster" /\ reading' = "baseline"
         \/ Base[k] = "baseline" /\ reading' = "services"
         \/ Base[k] = "services" /\ reading' = "collector"
         \/ Base[k] = "collector" /\ reading' = "agent"
      /\ reading = Base[k]
  <2>1. k = 1 \/ k = 2 \/ k = 3 \/ k = 4 \/ k = 5 \/ k = 6
    BY <1>1
  <2>2. reading' = (IF k = 6 THEN "agent" ELSE Base[k + 1]) /\ reading = Base[k]
    BY <1>1 DEF CheckBase
  <2> QED
    BY <1>2, <2>1, <2>2
<1>4. Base[k] \in BaseFacts
  BY <1>3 DEF BaseFacts, Facts
<1>5. PICK holds \in BOOLEAN :
          /\ ReadsAs(Base[k], holds)
          /\ checks' = checks \cup {IF holds THEN Passed(Base[k]) ELSE Failed(Base[k])}
  BY DEF CheckBase
<1>6. UNCHANGED <<world, query, native, verdict, held, lacked, flips>>
  BY DEF CheckBase
<1> DEFINE f == Base[k]
<1>7. /\ f \in BaseFacts /\ reading = f /\ ReadsAs(f, holds)
      /\ checks' = checks \cup {IF holds THEN Passed(f) ELSE Failed(f)}
      /\ \/ f = "account" /\ reading' = "group"
         \/ f = "group" /\ reading' = "cluster"
         \/ f = "cluster" /\ reading' = "baseline"
         \/ f = "baseline" /\ reading' = "services"
         \/ f = "services" /\ reading' = "collector"
         \/ f = "collector" /\ reading' = "agent"
  BY <1>3, <1>4, <1>5
<1> HIDE DEF f
<1> QED
  BY <1>5, <1>6, <1>7, CheckKeeps

LEMMA ReadAgentKeeps ==
    ASSUME ReadinessInv, ReadAgent
    PROVE  ReadinessInv'
<1>1. CASE native = "unknown" /\ requireNativeSreAgent
  BY <1>1, AgentReadKeeps DEF ReadAgent
<1>2. CASE ~(native = "unknown" /\ requireNativeSreAgent)
  BY <1>2
     DEF ReadAgent, ReadinessInv, ReadinessTypeOK, HistoryOfWorld, ChecksAreTrue, ChecksAreMade, Looked,
         UnreadIsFailed, NativeIsTrue, ReadyIsObserved, BlockedIsExplained, requireNativeSreAgent
<1> QED
  BY <1>1, <1>2

\* What is required is what the code works out to be.
LEMMA RequiredIs ==
    /\ BaseFacts \subseteq Required
    /\ requireNativeSreAgent => "agent" \in Required
    /\ ~requireNativeSreAgent => "agent" \notin Required
BY DEF BaseFacts, Required, Facts, requireNativeSreAgent, resolveRequirementFlag

\* The verdict: a check that blocks is one that was made and is explained; when
\* none does, every base check has passed, and so has the agent's if it counts.
LEMMA JudgeKeeps ==
    ASSUME ReadinessInv, Judge
    PROVE  ReadinessInv'
<1> USE DEF ReadinessInv
<1>1. /\ reading = "judge" /\ reading' = "answered" /\ verdict = "none"
      /\ checks' = checks \cup {AgentCheck}
      /\ UNCHANGED <<world, query, native, held, lacked, unreadable, flips>>
  BY DEF Judge, Answers
<1>2. verdict' = IF \E c \in checks' : c.blocking /\ c.status # "pass" THEN "blocked" ELSE "ready"
  BY DEF Judge, Answers
<1>3. /\ AgentCheck.of = "agent" /\ AgentCheck.blocking = requireNativeSreAgent
      /\ AgentCheck.status = IF native = "ready" THEN "pass"
                             ELSE IF requireNativeSreAgent THEN "fail" ELSE "warn"
  BY DEF AgentCheck
<1>4. ReadinessTypeOK'
  <2>1. AgentCheck \in Check
    BY DEF AgentCheck, Check, Facts, ReadinessTypeOK, requireNativeSreAgent, resolveRequirementFlag, Queries
  <2> QED
    BY <1>1, <1>2, <2>1 DEF ReadinessTypeOK
<1>5. UnreadIsFailed' /\ NativeIsTrue' /\ HistoryOfWorld' /\ ChecksAreTrue' /\ ChecksAreMade'
  BY <1>1, <1>2 DEF UnreadIsFailed, NativeIsTrue, HistoryOfWorld, ChecksAreTrue, ChecksAreMade
<1>6. ASSUME verdict' = "ready"
      PROVE  Required \subseteq held /\ Required \cap unreadable = {}
  <2>1. \A c \in checks' : ~(c.blocking /\ c.status # "pass")
    BY <1>2, <1>6
  <2>2. \A f \in BaseFacts : Failed(f) \notin checks
    BY <1>1, <2>1, ChecksDiffer
  <2>3. \A f \in BaseFacts : Looked(f)
    BY <1>1 DEF ChecksAreMade, BaseFacts, Facts
  <2>4. \A f \in BaseFacts : f \in held
    <3>1. SUFFICES ASSUME NEW f \in BaseFacts PROVE f \in held
      OBVIOUS
    <3>2. PICK g \in BaseFacts : Passed(f) = Passed(g) /\ g \in held
      BY <1>1, <2>2, <2>3, ChecksDiffer DEF Looked, ChecksAreTrue
    <3>3. f = g
      BY <3>2 DEF Passed
    <3> QED
      BY <3>2, <3>3
  <2>5. BaseFacts \cap unreadable = {}
    BY <1>1, <2>2 DEF UnreadIsFailed
  <2>6. CASE requireNativeSreAgent
    <3>1. native = "ready"
      BY <1>1, <1>3, <2>1, <2>6
    <3> QED
      BY <2>4, <2>5, <3>1 DEF NativeIsTrue, UnreadIsFailed, Required, BaseFacts
  <2>7. CASE ~requireNativeSreAgent
    BY <2>4, <2>5, <2>7, RequiredIs DEF Required, BaseFacts
  <2> QED
    BY <2>6, <2>7
<1>7. ASSUME verdict' = "blocked"
      PROVE  Required \cap (lacked \cup unreadable) # {}
  <2>1. PICK c \in checks' : c.blocking /\ c.status # "pass"
    BY <1>2, <1>7
  <2>2. CASE c \in checks
    <3>1. PICK f \in BaseFacts : c = Failed(f) /\ f \in lacked \cup unreadable
      BY <1>1, <2>1, <2>2, ChecksDiffer DEF ChecksAreTrue
    <3> QED
      BY <3>1, RequiredIs
  <2>3. CASE c = AgentCheck
    <3>1. requireNativeSreAgent /\ native = "missing"
      BY <1>1, <1>3, <2>1, <2>3 DEF NativeIsTrue, ReadinessTypeOK
    <3> QED
      BY <3>1, RequiredIs DEF NativeIsTrue
  <2> QED
    BY <1>1, <2>1, <2>2, <2>3
<1>8. ReadyIsObserved' /\ BlockedIsExplained'
  BY <1>1, <1>6, <1>7 DEF ReadyIsObserved, BlockedIsExplained, Required
<1> QED
  BY <1>1, <1>2, <1>4, <1>5, <1>8

LEMMA FlipKeeps ==
    ASSUME ReadinessInv, NEW fact \in Facts, Flip(fact)
    PROVE  ReadinessInv'
<1> USE DEF ReadinessInv
<1>1. /\ world' \subseteq Facts
      /\ held' = held \cup world' /\ lacked' = lacked \cup (Facts \ world')
      /\ UNCHANGED <<query, reading, native, checks, verdict, unreadable>>
  BY DEF Flip, ReadinessTypeOK
<1>2. flips' \in 0..MaxFlips
  BY ReadinessAssumption DEF Flip, ReadinessTypeOK
<1>3. verdict = "none"
  BY DEF Flip
<1>4. ReadinessTypeOK' /\ HistoryOfWorld'
  BY <1>1, <1>2 DEF ReadinessTypeOK, HistoryOfWorld
<1>5. ChecksAreTrue'
  BY <1>1 DEF ChecksAreTrue
<1>6. ChecksAreMade' /\ UnreadIsFailed' /\ NativeIsTrue'
  BY <1>1 DEF ChecksAreMade, Looked, UnreadIsFailed, NativeIsTrue, requireNativeSreAgent
<1> QED
  BY <1>1, <1>3, <1>4, <1>5, <1>6 DEF ReadyIsObserved, BlockedIsExplained

-----------------------------------------------------------------------------
LEMMA ReadinessSteps == ReadinessInv /\ [ReadinessNext]_readinessVars => ReadinessInv'
<1> SUFFICES ASSUME ReadinessInv, [ReadinessNext]_readinessVars PROVE ReadinessInv'
  OBVIOUS
<1>1. CASE ResolveScope
  <2>1. "account" \in {"account", "group"} /\ "scopeGroup" \in {"scopeGroup", "evidence"}
    OBVIOUS
  <2> QED
    BY <1>1, <2>1, ScopeKeeps DEF ResolveScope
<1>2. CASE ResolveScopeGroup
  <2>1. "group" \in {"account", "group"} /\ "evidence" \in {"scopeGroup", "evidence"}
    OBVIOUS
  <2> QED
    BY <1>2, <2>1, ScopeKeeps DEF ResolveScopeGroup
<1>3. CASE ResolveNativeSreAgentEvidence
  BY <1>3, AgentReadKeeps DEF ResolveNativeSreAgentEvidence, ReadinessInv, NativeIsTrue
<1>4. CASE UNCHANGED readinessVars
  BY <1>4
     DEF readinessVars, ReadinessInv, ReadinessTypeOK, HistoryOfWorld, ChecksAreTrue, ChecksAreMade, Looked,
         UnreadIsFailed, NativeIsTrue, ReadyIsObserved, BlockedIsExplained, Required, requireNativeSreAgent
<1> QED
  BY <1>1, <1>2, <1>3, <1>4, ValidateKeeps, CheckBaseKeeps, ReadAgentKeeps, JudgeKeeps, FlipKeeps
     DEF ReadinessNext

LEMMA ReadinessInvHolds == ReadinessSpec => []ReadinessInv
BY ReadinessStarts, ReadinessSteps, PTL DEF ReadinessSpec

\* Every reachable state of an evaluation is well-typed.
THEOREM ReadinessTypeCorrect == ReadinessSpec => []ReadinessTypeOK
<1>1. ReadinessInv => ReadinessTypeOK
  BY DEF ReadinessInv
<1> QED
  BY ReadinessInvHolds, <1>1, PTL

\* However the environment changes under the checks and whichever of them cannot
\* be read, a gate is ready only when all that is required was seen to hold.
THEOREM ReadyWasObserved == ReadinessSpec => []ReadyIsObserved
<1>1. ReadinessInv => ReadyIsObserved
  BY DEF ReadinessInv
<1> QED
  BY ReadinessInvHolds, <1>1, PTL

\* And a gate is blocked only by something that is required.
THEOREM BlockedWasExplained == ReadinessSpec => []BlockedIsExplained
<1>1. ReadinessInv => BlockedIsExplained
  BY DEF ReadinessInv
<1> QED
  BY ReadinessInvHolds, <1>1, PTL
-----------------------------------------------------------------------------
(* The latency scenario                                                      *)

LEMMA WindowIs == window \in Nat \X (Nat \ {0}) => window[1] \in Nat /\ window[2] \in Nat \ {0}
OBVIOUS

LEMMA StartIsNatural ==
    ASSUME LatencyTypeOK
    PROVE  startSequence \in Nat
BY WindowIs DEF LatencyTypeOK, startSequence

LEMMA LatencyStarts == LatencyInit => LatencyTypeOK
<1> SUFFICES ASSUME LatencyInit PROVE LatencyTypeOK
  OBVIOUS
<1>1. window \in Nat \X (Nat \ {0})
  BY LatencyAssumption DEF LatencyInit
<1>2. invariants \in [DOMAIN PhaseOrder -> [sloBreached : BOOLEAN, errorWithinCeiling : BOOLEAN]]
  BY DEF LatencyInit, Unjudged
<1> QED
  BY <1>1, <1>2, WindowIs DEF LatencyInit, LatencyTypeOK, LatencyPhases, PhaseOrder, NoBreach

LEMMA EvaluationIs ==
    ASSUME LatencyTypeOK
    PROVE  evaluateInvariants \in [sloBreached : BOOLEAN, errorWithinCeiling : BOOLEAN]
BY DEF evaluateInvariants, p95Exceeds

LEMMA LatencyTyped == LatencyTypeOK /\ [LatencyNext]_latencyVars => LatencyTypeOK'
<1> SUFFICES ASSUME LatencyTypeOK, [LatencyNext]_latencyVars PROVE LatencyTypeOK'
  OBVIOUS
<1>0. window[2] \in Nat /\ window[2] > 0 /\ i \in Nat /\ over \in Nat /\ errors \in Nat
  BY WindowIs DEF LatencyTypeOK
<1>1. CASE SendRequest
  <2>1. /\ over' \in {over, over + 1} /\ errors' \in {errors, errors + 1}
        /\ secondsToBreach' \in {i, secondsToBreach}
        /\ i' = i + 1 /\ i < window[2] /\ UNCHANGED <<window, phase, invariants>>
    BY <1>0, <1>1 DEF SendRequest
  <2> QED
    BY <1>0, <2>1 DEF LatencyTypeOK
<1>2. CASE EndPhase
  <2>1. phase \in DOMAIN PhaseOrder /\ phase' \in LatencyPhases
    BY <1>2 DEF EndPhase, LatencyTypeOK, LatencyPhases, PhaseOrder
  <2>2. invariants' \in [DOMAIN PhaseOrder -> [sloBreached : BOOLEAN, errorWithinCeiling : BOOLEAN]]
    BY <1>2, <2>1, EvaluationIs DEF EndPhase, LatencyTypeOK
  <2> QED
    BY <1>0, <1>2, <2>1, <2>2 DEF EndPhase, LatencyTypeOK
<1>3. CASE UNCHANGED latencyVars
  BY <1>3 DEF latencyVars, LatencyTypeOK
<1> QED
  BY <1>1, <1>2, <1>3 DEF LatencyNext

\* Every reachable state of the simulated phases is well-typed.
THEOREM LatencyTypeCorrect == LatencySpec => []LatencyTypeOK
BY LatencyStarts, LatencyTyped, PTL DEF LatencySpec

\* Without the added delay no request is slow.  With it, each is from the
\* thirty-eighth second of the ramp on; before, some may be.
LEMMA FixedDelay ==
    ASSUME NEW p \in {"baseline", "recovery"}, NEW elapsed \in Nat,
           NEW jitter \in {0, Config(p).jitterSpreadMs - 1}
    PROVE  ~(computeDelayMs(Config(p), elapsed) + jitter > DEFAULT_SLO_P95_THRESHOLD_MS)
BY DEF Config, DEFAULT_BASELINE_CONFIG, computeDelayMs, DEFAULT_SLO_P95_THRESHOLD_MS

LEMMA RampDelay ==
    ASSUME NEW n \in Nat, n >= 38,
           NEW jitter \in {0, Config("failure").jitterSpreadMs - 1}
    PROVE  computeDelayMs(Config("failure"), n * 1000) + jitter > DEFAULT_SLO_P95_THRESHOLD_MS
<1>1. jitter \in Nat
  BY DEF Config, DEFAULT_SCENARIO_CONFIG
<1>2. computeDelayMs(Config("failure"), n * 1000) = 45 + Rounded(905 * Least(n * 1000, 75000), 75000)
  BY DEF Config, DEFAULT_SCENARIO_CONFIG, computeDelayMs
<1>3. Least(n * 1000, 75000) \in Nat /\ Least(n * 1000, 75000) >= 38000
  BY DEF Least
<1>4. \A m \in Nat : m >= 38000 => /\ Rounded(905 * m, 75000) \in Nat
                                     /\ Rounded(905 * m, 75000) >= 459
  BY DEF Rounded
<1>5. PICK d \in Nat : d = Rounded(905 * Least(n * 1000, 75000), 75000) /\ d >= 459
  BY <1>3, <1>4
<1> QED
  BY <1>1, <1>2, <1>5 DEF DEFAULT_SLO_P95_THRESHOLD_MS

\* A quantile is above the threshold by the forty-first request, if all but the
\* first thirty-eight are, and never if none is.
LEMMA QuantileOfRamp ==
    \A n, above \in Nat : n >= 41 /\ above + 38 >= n => p95Exceeds(n, above)
BY DEF p95Exceeds

LEMMA QuantileOfNone == \A n \in Nat : ~p95Exceeds(n, 0)
BY DEF p95Exceeds

\* A slow request keeps the number of fast ones.
LEMMA FastRequests ==
    \A n, m, above, more \in Nat :
        /\ m = n + 1 /\ more \in {above, above + 1} /\ (n >= 38 => more = above + 1)
        /\ above + 38 >= n
        => more + 38 >= m
OBVIOUS

\* Phases that are long enough for the ramp to show.
PhasesBreach == \A w \in Windows : w[2] >= 41

RampIsSeen ==
    phase = "failure" =>
        /\ over + 38 >= i
        /\ secondsToBreach \in {NoBreach} \cup 0..40
        /\ i >= 41 => secondsToBreach # NoBreach

\* What the phases that are over have come to.
Judged ==
    /\ window \in Windows
    /\ phase \in {"baseline", "recovery"} => over = 0
    /\ phase = "baseline" => secondsToBreach = NoBreach
    /\ phase # "baseline" => ~invariants["baseline"].sloBreached
    /\ phase \in {"recovery", "over"} => /\ secondsToBreach \in 0..40
                                         /\ invariants["failure"].sloBreached
    /\ phase = "over" => ~invariants["recovery"].sloBreached

BreachInv == LatencyTypeOK /\ RampIsSeen /\ Judged

LEMMA BreachStarts == LatencyInit => BreachInv
<1> SUFFICES ASSUME LatencyInit PROVE BreachInv
  OBVIOUS
<1>1. phase = "baseline" /\ over = 0 /\ secondsToBreach = NoBreach /\ window \in Windows
  BY DEF LatencyInit
<1> QED
  BY <1>1, LatencyStarts DEF BreachInv, RampIsSeen, Judged

LEMMA SendKeepsBreach ==
    ASSUME BreachInv, SendRequest
    PROVE  RampIsSeen' /\ Judged'
<1>0. /\ i \in Nat /\ over \in Nat
      /\ i' = i + 1 /\ UNCHANGED <<window, phase, invariants>>
      /\ phase \in DOMAIN PhaseOrder
  BY WindowIs DEF BreachInv, LatencyTypeOK, SendRequest, LatencyPhases
<1>1. PICK jitter \in {0, Config(phase).jitterSpreadMs - 1} :
          over' = over + IF computeDelayMs(Config(phase), i * 1000) + jitter > DEFAULT_SLO_P95_THRESHOLD_MS
                         THEN 1 ELSE 0
  BY DEF SendRequest
<1>2. over' \in {over, over + 1} /\ over' \in Nat
  BY <1>0, <1>1
<1>3. CASE phase \in {"baseline", "recovery"}
  <2>1. i * 1000 \in Nat
    BY <1>0
  <2>2. over' = over
    BY <1>0, <1>1, <1>3, <2>1, FixedDelay
  <2>3. secondsToBreach' = secondsToBreach
    BY <1>3 DEF SendRequest
  <2> QED
    BY <1>0, <1>3, <2>2, <2>3 DEF BreachInv, RampIsSeen, Judged
<1>4. CASE phase = "failure"
  <2>1. i >= 38 => over' = over + 1
    BY <1>0, <1>1, <1>4, RampDelay
  <2>2. over' + 38 >= i'
    <3>1. over + 38 >= i
      BY <1>4 DEF BreachInv, RampIsSeen
    <3>2. i \in Nat /\ over \in Nat /\ i' = i + 1 /\ i' \in Nat
      BY <1>0
    <3> QED
      BY <1>2, <2>1, <3>1, <3>2, FastRequests
  <2>3. secondsToBreach' = IF secondsToBreach = NoBreach /\ p95Exceeds(i + 1, over') THEN i
                           ELSE secondsToBreach
    BY <1>4 DEF SendRequest
  <2>4. i' >= 41 => p95Exceeds(i + 1, over')
    <3>1. i + 1 \in Nat /\ i' = i + 1 /\ over' \in Nat
      BY <1>0, <1>2
    <3> QED
      BY <2>2, <3>1, QuantileOfRamp
  <2>5. RampIsSeen'
    BY <1>0, <1>4, <2>2, <2>3, <2>4 DEF BreachInv, RampIsSeen, NoBreach
  <2> QED
    BY <1>0, <1>4, <2>5 DEF BreachInv, Judged
<1> QED
  BY <1>0, <1>3, <1>4 DEF PhaseOrder

LEMMA EndKeepsBreach ==
    ASSUME PhasesBreach, BreachInv, EndPhase
    PROVE  RampIsSeen' /\ Judged'
<1>0. /\ window[2] \in Nat /\ window[2] >= 41 /\ i = window[2] /\ over \in Nat
      /\ phase \in DOMAIN PhaseOrder /\ phase' = PhaseOrder[phase]
      /\ i' = 0 /\ over' = 0 /\ UNCHANGED <<window, secondsToBreach>>
      /\ invariants' = [invariants EXCEPT ![phase] = evaluateInvariants]
      /\ invariants \in [DOMAIN PhaseOrder -> [sloBreached : BOOLEAN, errorWithinCeiling : BOOLEAN]]
  BY WindowIs DEF BreachInv, LatencyTypeOK, EndPhase, LatencyPhases, Judged, PhasesBreach
<1>1. /\ invariants'[phase].sloBreached = p95Exceeds(i, over)
      /\ \A p \in DOMAIN PhaseOrder \ {phase} : invariants'[p] = invariants[p]
  BY <1>0 DEF evaluateInvariants
<1>2. CASE phase = "baseline"
  <2>1. phase' = "failure" /\ ~invariants'["baseline"].sloBreached
    BY <1>0, <1>1, <1>2, QuantileOfNone DEF PhaseOrder, BreachInv, Judged
  <2> QED
    BY <1>0, <1>2, <2>1 DEF BreachInv, Judged, RampIsSeen, NoBreach
<1>3. CASE phase = "failure"
  <2>1. phase' = "recovery" /\ invariants'["failure"].sloBreached
    BY <1>0, <1>1, <1>3, QuantileOfRamp DEF PhaseOrder, BreachInv, RampIsSeen
  <2>2. ~invariants'["baseline"].sloBreached /\ secondsToBreach \in 0..40
    BY <1>0, <1>1, <1>3 DEF BreachInv, Judged, RampIsSeen, PhaseOrder
  <2> QED
    BY <1>0, <2>1, <2>2 DEF BreachInv, Judged, RampIsSeen
<1>4. CASE phase = "recovery"
  <2>1. phase' = "over" /\ ~invariants'["recovery"].sloBreached
    BY <1>0, <1>1, <1>4, QuantileOfNone DEF PhaseOrder, BreachInv, Judged
  <2>2. /\ invariants'["failure"] = invariants["failure"]
        /\ invariants'["baseline"] = invariants["baseline"]
    BY <1>1, <1>4 DEF PhaseOrder
  <2> QED
    BY <1>0, <1>4, <2>1, <2>2 DEF BreachInv, Judged, RampIsSeen
<1> QED
  BY <1>0, <1>2, <1>3, <1>4 DEF PhaseOrder

LEMMA BreachKept ==
    ASSUME PhasesBreach
    PROVE  BreachInv /\ [LatencyNext]_latencyVars => BreachInv'
<1>1. CASE UNCHANGED latencyVars
  BY <1>1, LatencyTyped DEF latencyVars, BreachInv, RampIsSeen, Judged
<1> QED
  BY <1>1, LatencyTyped, SendKeepsBreach, EndKeepsBreach DEF BreachInv, LatencyNext

\* Whatever the jitter of each request, and wherever a phase begins, the ramp
\* exceeds the threshold within forty-one seconds, the failure phase ends in
\* breach, and neither of its neighbours does - if phases last that long.
THEOREM BreachIsInTime ==
    ASSUME PhasesBreach
    PROVE  LatencySpec => []BreachInTime
<1>1. BreachInv => BreachInTime
  BY DEF BreachInv, Judged, BreachInTime
<1>2. BreachInv /\ [LatencyNext]_latencyVars => BreachInv'
  BY BreachKept
<1> QED
  BY <1>1, <1>2, BreachStarts, PTL DEF LatencySpec

-----------------------------------------------------------------------------
(* The synthetic errors.  From one request to the next the residue falls by  *)
(* 27 modulo 10000, and a request fails while it is below 40 (or 20): at     *)
(* most two in a row, and then not until it has come down from the top again.*)

residue(s) == (s * 9973) % 10000

\* A residue at which the error before, if there was one, is of this descent.
Low(v) == IF v < 13 THEN 1 ELSE 0

LEMMA ResidueFalls ==
    ASSUME NEW s \in Nat
    PROVE  /\ residue(s) \in Nat /\ residue(s) <= 9999
           /\ residue(s) >= 27 => residue(s + 1) = residue(s) - 27
           /\ residue(s) < 27 => residue(s + 1) = residue(s) + 9973
BY DEF residue

LEMMA ErrorIsLow ==
    ASSUME NEW s \in Nat, NEW p \in DOMAIN PhaseOrder,
           isSyntheticError(s, Config(p).errorRateBp)
    PROVE  residue(s) < 40
<1>1. residue(s) \in Nat
  BY DEF residue
<1>2. Config(p).errorRateBp \in {20, 40}
  BY DEF Config, PhaseOrder, DEFAULT_BASELINE_CONFIG, DEFAULT_SCENARIO_CONFIG
<1>3. residue(s) < Config(p).errorRateBp
  BY DEF isSyntheticError, residue
<1> QED
  BY <1>1, <1>2, <1>3

LEMMA LowIs == ASSUME NEW v \in Nat PROVE \E low \in 0..1 : low = Low(v) /\ (low = 1 <=> v < 13)
BY DEF Low

\* After n requests that began at a residue and came to another, in so many
\* descents, at most so many have failed.
Bounded(n, first, last, failed) ==
    \E w \in Nat : 27 * n + last = first + 10000 * w /\ failed + Low(first) <= 2 * w + Low(last)

LEMMA BoundedStarts == ASSUME NEW v \in Nat PROVE Bounded(0, v, v, 0)
<1>1. PICK low \in 0..1 : low = Low(v)
  BY LowIs
<1>2. 27 * 0 + v = v + 10000 * 0 /\ 0 + low <= 2 * 0 + low
  OBVIOUS
<1> QED
  BY <1>1, <1>2 DEF Bounded

LEMMA BoundedGoesOn ==
    ASSUME NEW n \in Nat, NEW first \in Nat, NEW v \in Nat, NEW next \in Nat,
           NEW failed \in Nat, NEW more \in {failed, failed + 1},
           v >= 27 => next = v - 27,
           v < 27 => next = v + 9973,
           more = failed + 1 => v < 40,
           Bounded(n, first, v, failed)
    PROVE  Bounded(n + 1, first, next, more)
<1>1. PICK w \in Nat : 27 * n + v = first + 10000 * w /\ failed + Low(first) <= 2 * w + Low(v)
  BY DEF Bounded
<1>2. PICK was \in 0..1 : was = Low(first)
  BY LowIs
<1>3. PICK before \in 0..1 : before = Low(v) /\ (before = 1 <=> v < 13)
  BY LowIs
<1>4. PICK after \in 0..1 : after = Low(next) /\ (after = 1 <=> next < 13)
  BY LowIs
<1>5. failed + was <= 2 * w + before
  BY <1>1, <1>2, <1>3
<1>6. CASE v >= 27
  <2>1. 27 * (n + 1) + next = first + 10000 * w
    BY <1>1, <1>6
  <2>2. more + was <= 2 * w + after
    BY <1>3, <1>4, <1>5, <1>6
  <2> QED
    BY <1>2, <1>4, <2>1, <2>2 DEF Bounded
<1>7. CASE v < 27
  <2>1. PICK u \in Nat : u = w + 1
    OBVIOUS
  <2>2. 27 * (n + 1) + next = first + 10000 * u
    BY <1>1, <1>7, <2>1
  <2>3. more + was <= 2 * u + after
    BY <1>3, <1>4, <1>5, <1>7, <2>1
  <2>4. more + Low(first) <= 2 * u + Low(next)
    BY <1>2, <1>4, <2>3
  <2> QED
    BY <2>2, <2>4 DEF Bounded
<1> QED
  BY <1>6, <1>7

\* Over a hundred requests or more that is no more than two in a hundred.
LEMMA LongIsSpread ==
    ASSUME NEW n \in Nat, n >= 100,
           NEW first \in Nat, first <= 9999, NEW last \in Nat, last <= 9999,
           NEW failed \in Nat, Bounded(n, first, last, failed)
    PROVE  failed * 100 <= 2 * n
<1>1. PICK w \in Nat : 27 * n + last = first + 10000 * w /\ failed + Low(first) <= 2 * w + Low(last)
  BY DEF Bounded
<1>2. PICK was \in 0..1 : was = Low(first)
  BY LowIs
<1>3. PICK after \in 0..1 : after = Low(last) /\ (after = 1 <=> last < 13)
  BY LowIs
<1>4. failed <= 2 * w + after
  <2>1. failed + was <= 2 * w + after
    BY <1>1, <1>2, <1>3
  <2> QED
    BY <2>1
<1>5. CASE w = 0
  BY <1>4, <1>5
<1>6. CASE w = 1
  <2>1. failed <= 2 + after
    BY <1>4, <1>6
  <2>2. CASE n >= 150
    BY <2>1, <2>2
  <2>3. CASE n < 150
    <3>1. last + 27 * n = first + 10000
      BY <1>1, <1>6
    <3>2. last >= 13
      BY <2>3, <3>1
    <3> QED
      BY <1>3, <2>1, <3>2
  <2> QED
    BY <2>2, <2>3
<1>7. CASE w >= 2
  <2>1. 27 * n >= 10000 * w - 9999
    BY <1>1
  <2>2. n >= 370 * w - 371
    BY <2>1
  <2>3. failed * 100 <= 200 * w + 100
    BY <1>4
  <2> QED
    BY <1>7, <2>2, <2>3
<1> QED
  BY <1>5, <1>6, <1>7

\* And over sixty or more in each of three phases from the first request on: the
\* first of all fails, at residue 0.
LEMMA ShortIsSpread ==
    ASSUME NEW n \in Nat, n >= 60, n < 100, NEW k \in 0..2, NEW last \in Nat, last <= 9999,
           NEW failed \in Nat, Bounded(n, residue(n * k), last, failed)
    PROVE  failed * 100 <= 2 * n
<1>1. PICK w \in Nat : /\ 27 * n + last = residue(n * k) + 10000 * w
                       /\ failed + Low(residue(n * k)) <= 2 * w + Low(last)
  BY DEF Bounded
<1>2. residue(n * k) \in Nat
  BY DEF residue
<1>3. PICK was \in 0..1 : was = Low(residue(n * k)) /\ (was = 1 <=> residue(n * k) < 13)
  BY <1>2, LowIs
<1>4. PICK after \in 0..1 : after = Low(last) /\ (after = 1 <=> last < 13)
  BY LowIs
<1>5. failed + was <= 2 * w + after
  BY <1>1, <1>3, <1>4
<1>6. failed <= 1
  <2>1. CASE k = 0
    <3>1. residue(n * k) = 0
      BY <2>1 DEF residue
    <3>2. was = 1 /\ 27 * n + last = 10000 * w
      BY <1>1, <1>3, <3>1
    <3>3. 27 * n <= 2673
      OBVIOUS
    <3>4. 10000 * w < 20000
      BY <3>2, <3>3
    <3>5. w <= 1 /\ last >= 13
      BY <3>2, <3>3, <3>4
    <3> QED
      BY <1>4, <1>5, <3>2, <3>5
  <2>2. CASE k = 1
    <3>1. residue(n * k) = 10000 - 27 * n
      BY <2>2 DEF residue
    <3>2. 54 * n + last = 10000 + 10000 * w /\ 54 * n <= 5346
      BY <1>1, <3>1
    <3>3. 10000 * w < 10000
      BY <3>2
    <3> QED
      BY <1>5, <3>3
  <2>3. CASE k = 2
    <3>1. residue(n * k) = 10000 - 54 * n
      BY <2>3 DEF residue
    <3>2. 81 * n + last = 10000 + 10000 * w /\ 81 * n <= 8019
      BY <1>1, <3>1
    <3>3. 10000 * w < 10000
      BY <3>2
    <3> QED
      BY <1>5, <3>3
  <2> QED
    BY <2>1, <2>2, <2>3
<1> QED
  BY <1>6

\* Phases that are long enough for two failures to be few.
PhasesSpread == \A w \in Windows : w[2] >= 100 \/ (w[1] = 0 /\ w[2] >= 60)

Spread ==
    /\ window \in Windows
    /\ phase # "over" => Bounded(i, residue(startSequence), residue(startSequence + i), errors)

SpreadInv == LatencyTypeOK /\ Spread /\ ErrorsAreSpread

LEMMA StartIs ==
    ASSUME window \in Windows
    PROVE  \E k \in 0..2 : startSequence = window[1] + window[2] * k /\ startSequence \in Nat
<1>1. window[1] \in Nat /\ window[2] \in Nat
  BY LatencyAssumption
<1>2. CASE phase = "baseline"
  <2>1. startSequence = window[1] + window[2] * 0
    BY <1>2 DEF startSequence
  <2> QED
    BY <1>1, <2>1
<1>3. CASE phase = "failure"
  <2>1. startSequence = window[1] + window[2] * 1
    BY <1>3 DEF startSequence
  <2> QED
    BY <1>1, <2>1
<1>4. CASE phase \notin {"baseline", "failure"}
  <2>1. startSequence = window[1] + window[2] * 2
    BY <1>4 DEF startSequence
  <2> QED
    BY <1>1, <2>1
<1> QED
  BY <1>2, <1>3, <1>4

LEMMA NewPhaseIsBounded ==
    ASSUME NEW s \in Nat
    PROVE  Bounded(0, residue(s), residue(s + 0), 0)
<1>1. s + 0 = s
  OBVIOUS
<1>2. residue(s) \in Nat
  BY ResidueFalls
<1> QED
  BY <1>1, <1>2, BoundedStarts

LEMMA SpreadStarts == LatencyInit => SpreadInv
<1> SUFFICES ASSUME LatencyInit PROVE SpreadInv
  OBVIOUS
<1>1. /\ i = 0 /\ errors = 0 /\ window \in Windows
      /\ invariants = [p \in DOMAIN PhaseOrder |-> Unjudged]
  BY DEF LatencyInit
<1>2. ErrorsAreSpread
  BY <1>1 DEF ErrorsAreSpread, Unjudged
<1>3. startSequence \in Nat
  BY <1>1, StartIs
<1> QED
  BY <1>1, <1>2, <1>3, NewPhaseIsBounded, LatencyStarts DEF SpreadInv, Spread

LEMMA SendKeepsSpread ==
    ASSUME SpreadInv, SendRequest
    PROVE  Spread' /\ ErrorsAreSpread'
<1>0. /\ i \in Nat /\ errors \in Nat /\ window \in Windows /\ phase # "over"
      /\ i' = i + 1 /\ UNCHANGED <<window, phase, invariants>>
      /\ phase \in DOMAIN PhaseOrder
  BY WindowIs DEF SpreadInv, Spread, LatencyTypeOK, SendRequest, LatencyPhases
<1>1. PICK s \in Nat : s = startSequence
  BY <1>0, StartIs
<1>2. startSequence' = startSequence
  BY <1>0 DEF startSequence
<1>3. PICK n \in Nat : n = s + i
  BY <1>0, <1>1
<1>4. PICK more \in {errors, errors + 1} :
          /\ more = errors'
          /\ more = errors + 1 => isSyntheticError(n, Config(phase).errorRateBp)
  BY <1>0, <1>1, <1>3 DEF SendRequest
<1>5. more = errors + 1 => residue(n) < 40
  BY <1>0, <1>4, ErrorIsLow
<1>6. Bounded(i, residue(s), residue(n), errors)
  BY <1>0, <1>1, <1>3 DEF SpreadInv, Spread
<1>7. residue(s) \in Nat /\ residue(n) \in Nat /\ residue(n + 1) \in Nat
  BY <1>1, <1>3, ResidueFalls
<1>8. Bounded(i + 1, residue(s), residue(n + 1), more)
  <2>1. /\ residue(n) >= 27 => residue(n + 1) = residue(n) - 27
        /\ residue(n) < 27 => residue(n + 1) = residue(n) + 9973
    BY ResidueFalls
  <2>2. PICK first \in Nat, v \in Nat, next \in Nat :
            first = residue(s) /\ v = residue(n) /\ next = residue(n + 1)
    BY <1>7
  <2>3. more \in Nat /\ errors \in Nat /\ i \in Nat
    BY <1>0
  <2>4. /\ v >= 27 => next = v - 27
        /\ v < 27 => next = v + 9973
        /\ more = errors + 1 => v < 40
        /\ Bounded(i, first, v, errors)
    BY <1>5, <1>6, <2>1, <2>2
  <2>5. Bounded(i + 1, first, next, more)
    BY <1>4, <2>3, <2>4, BoundedGoesOn
  <2> QED
    BY <2>2, <2>5
<1>9. n + 1 = s + i'
  BY <1>0, <1>1, <1>3
<1>10. Spread'
  BY <1>0, <1>1, <1>2, <1>4, <1>8, <1>9 DEF Spread
<1> QED
  BY <1>0, <1>10 DEF SpreadInv, ErrorsAreSpread

LEMMA EndKeepsSpread ==
    ASSUME PhasesSpread, SpreadInv, EndPhase
    PROVE  Spread' /\ ErrorsAreSpread'
<1>0. /\ window \in Windows /\ window[1] \in Nat /\ window[2] \in Nat
      /\ i = window[2] /\ i \in Nat /\ errors \in Nat
      /\ phase # "over" /\ i' = 0 /\ errors' = 0 /\ window' = window
      /\ phase \in DOMAIN PhaseOrder
      /\ invariants' = [invariants EXCEPT ![phase] = evaluateInvariants]
      /\ invariants \in [DOMAIN PhaseOrder -> [sloBreached : BOOLEAN, errorWithinCeiling : BOOLEAN]]
  BY WindowIs, LatencyAssumption DEF SpreadInv, Spread, LatencyTypeOK, EndPhase, LatencyPhases
<1>1. PICK k \in 0..2 : startSequence = window[1] + window[2] * k /\ startSequence \in Nat
  BY <1>0, StartIs
<1>2. PICK s \in Nat : s = startSequence
  BY <1>1
<1>3. PICK last \in Nat : last = residue(s + i) /\ last <= 9999
  <2>1. s + i \in Nat
    BY <1>0, <1>2
  <2> QED
    BY <2>1, ResidueFalls
<1>4. PICK first \in Nat : first = residue(s) /\ first <= 9999
  BY <1>2, ResidueFalls
<1>5. Bounded(i, first, last, errors)
  BY <1>0, <1>2, <1>3, <1>4 DEF SpreadInv, Spread
<1>6. errors * 100 <= 2 * i
  <2>1. CASE i >= 100
    BY <1>0, <1>3, <1>4, <1>5, <2>1, LongIsSpread
  <2>2. CASE i < 100
    <3>1. window[1] = 0 /\ i >= 60
      BY <1>0, <2>2 DEF PhasesSpread
    <3>2. s = i * k
      BY <1>0, <1>1, <1>2, <3>1
    <3> QED
      BY <1>0, <1>3, <1>4, <1>5, <2>2, <3>1, <3>2, ShortIsSpread
  <2> QED
    BY <1>0, <2>1, <2>2
<1>7. evaluateInvariants.errorWithinCeiling
  BY <1>6 DEF evaluateInvariants, DEFAULT_ERROR_RATE_CEILING_PCT
<1>8. ErrorsAreSpread'
  BY <1>0, <1>7 DEF SpreadInv, ErrorsAreSpread
<1>9. PICK t \in Nat : t = startSequence'
  <2>1. window' \in Windows
    BY <1>0
  <2>2. window'[1] \in Nat /\ window'[2] \in Nat
    BY <2>1, LatencyAssumption
  <2> QED
    BY <2>2 DEF startSequence
<1>10. Bounded(0, residue(t), residue(t + 0), 0)
  BY NewPhaseIsBounded
<1> QED
  BY <1>0, <1>8, <1>9, <1>10 DEF Spread

LEMMA SpreadKept ==
    ASSUME PhasesSpread
    PROVE  SpreadInv /\ [LatencyNext]_latencyVars => SpreadInv'
<1>1. CASE UNCHANGED latencyVars
  <2>1. startSequence' = startSequence
    BY <1>1 DEF latencyVars, startSequence
  <2> QED
    BY <1>1, <2>1, LatencyTyped DEF latencyVars, SpreadInv, Spread, ErrorsAreSpread
<1> QED
  BY <1>1, LatencyTyped, SendKeepsSpread, EndKeepsSpread DEF SpreadInv, LatencyNext

\* Wherever in the sequence of requests a phase of a hundred or more begins, at
\* most two in a hundred of its requests fail, and so in phases of sixty that
\* begin with request 0: what is true of the arithmetic of which lines 93-97 of
\* order-dependency-latency.js say that it spreads errors over any window.
THEOREM ErrorsStaySpread ==
    ASSUME PhasesSpread
    PROVE  LatencySpec => []ErrorsAreSpread
<1>1. SpreadInv => ErrorsAreSpread
  BY DEF SpreadInv
<1>2. SpreadInv /\ [LatencyNext]_latencyVars => SpreadInv'
  BY SpreadKept
<1> QED
  BY <1>1, <1>2, SpreadStarts, PTL DEF LatencySpec
=============================================================================
